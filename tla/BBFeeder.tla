----------------------------- MODULE BBFeeder -----------------------------
(***************************************************************************)
(* BBHandler.feeder, get_statements and the parser-state handling of        *)
(* BBHandler.handle, over one process that parses recipe after recipe.     *)
(* The parser state is the module globals __infunc__, __inpython__,        *)
(* __body__ and __residue__: handle() resets all of them but __inpython__  *)
(* before get_statements reads the file line by line and feeds each line. *)
(*                                                                         *)
(* A physical line (after rstrip) is one of a few kinds, the shapes the     *)
(* feeder tells apart: blank, a comment, an indented line, an assignment   *)
(* or another statement ConfHandler.feeder recognises (code), code or a   *)
(* comment ending in a backslash, a line that is only a backslash, a shell *)
(* function opener "f() {", a sole "}", a python "def f():", a recipe      *)
(* directive (EXPORT_FUNCTIONS, addtask, deltask, addhandler, inherit,    *)
(* inherit_defer), an addtask naming a task with a reserved keyword, an    *)
(* assignment with an empty variable name, and addpylib.  A function is    *)
(* named by the parse (gen) and line that opened it.  The file is read     *)
(* lazily: the next line, or the end of the file, is chosen when it is     *)
(* read.                                                                   *)
(***************************************************************************)
EXTENDS Naturals, Sequences, SequencesExt

CONSTANTS
    LineKinds,   \* the kinds of line a file may contain
    MaxLines,    \* longest file
    MaxFaults,   \* bound on read errors
    NoName       \* __infunc__ = [] / __inpython__ = False

AllKinds == {"blank", "comment", "indent", "code", "codecont", "commentcont",
             "lone", "func", "close", "def", "directive", "badtask", "emptyvar",
             "pylib"}
ASSUME LineKinds \subseteq AllKinds

\* Lines ending in a backslash: feeder puts s[:-1] on __residue__.
ContKinds == {"codecont", "commentcont", "lone"}
\* s and s[0] == '#'
CommentKinds == {"comment", "commentcont"}
\* __python_func_regexp__: (\s+.*)|(^$)|(^#)
PyBodyKinds == {"blank", "indent", "comment", "commentcont"}
\* What s[:-1] of a continued line starts with.
HeadKind(k) == CASE k = "codecont" -> "code"
                 [] k = "commentcont" -> "comment"
                 [] k = "lone" -> "blank"

Name == ({0, 1} \X (1..MaxLines)) \cup {NoName}
Stmt == [kind: {"code", "bb"}]
        \cup [kind: {"sh", "py"}, name: Name, body: Seq(0..MaxLines)]
Outcomes == {"none", "ok", "error", "fatal", "crash", "ioerror"}

VARIABLES
    infunc,     \* __infunc__: the open shell function, or NoName
    inpython,   \* __inpython__: the open python def, or NoName
    body,       \* __body__: line numbers of the open function's body
    residue,    \* __residue__: the kinds of the continued lines pending
    stmts,      \* the statement group get_statements builds
    text,       \* the lines of the current file read so far
    gen,        \* which parse this is, modulo 2: it names functions
    status,     \* "read" while get_statements reads, "done" between parses
    outcome,    \* how the last handle() ended
    faults      \* read errors so far

vars == <<infunc, inpython, body, residue, stmts, text, gen, status, outcome, faults>>

TypeOK ==
    /\ infunc \in Name /\ inpython \in Name
    /\ body \in Seq(1..MaxLines) /\ Len(body) <= MaxLines
    /\ residue \in Seq(ContKinds) /\ Len(residue) <= MaxLines
    /\ stmts \in Seq(Stmt) /\ Len(stmts) <= MaxLines
    /\ text \in Seq(LineKinds) /\ Len(text) <= MaxLines
    /\ gen \in {0, 1}
    /\ status \in {"read", "done"} /\ outcome \in Outcomes
    /\ faults \in 0..MaxFaults

(* The module is imported: every global at its initial value.              *)
Init ==
    /\ infunc = NoName /\ inpython = NoName /\ body = <<>> /\ residue = <<>>
    /\ stmts = <<>> /\ text = <<>> /\ gen = 0
    /\ status = "done" /\ outcome = "none" /\ faults = 0

(* Variant of Handle that leaves __residue__ as the last parse left it.   *)
HandleNoResidueReset ==
    /\ status = "done"
    /\ body' = <<>> /\ infunc' = NoName
    /\ stmts' = <<>> /\ text' = <<>> /\ gen' = 1 - gen
    /\ status' = "read" /\ outcome' = "none"
    /\ UNCHANGED <<inpython, residue, faults>>

(* handle(fn, d, include): __body__, __infunc__ and __residue__ are reset, *)
(* __inpython__ is not; get_statements opens the file.                     *)
Handle ==
    /\ status = "done"
    /\ body' = <<>> /\ infunc' = NoName /\ residue' = <<>>
    /\ stmts' = <<>> /\ text' = <<>> /\ gen' = 1 - gen
    /\ status' = "read" /\ outcome' = "none"
    /\ UNCHANGED <<inpython, faults>>

(* for lineno, line in enumerate(f): the next line is read; L is lineno.  *)
\* Variant of L with enumerate(f) counting from 0.
LFromZero == Len(text)

Read(k) == status = "read" /\ Len(text) < MaxLines /\ text' = Append(text, k)
L == Len(text) + 1

PyStmt(n, b) == [kind |-> "py", name |-> n, body |-> b]

\* A line the python def does not take closes it: handlePythonMethod, then
\* __body__ = [] and __inpython__ = False, before the line is looked at.
ClosedStmts == IF inpython = NoName THEN stmts ELSE Append(stmts, PyStmt(inpython, body))
ClosedBody == IF inpython = NoName THEN body ELSE <<>>

(* Inside a shell function every line but a sole "}" is body ...           *)
FuncBody(k) ==
    /\ Read(k) /\ infunc # NoName /\ k # "close"
    /\ body' = Append(body, L)
    /\ UNCHANGED <<infunc, inpython, residue, stmts, gen, status, outcome, faults>>

(* ... and "}" ends it: __body__.append(''), handleMethod, __infunc__ =   *)
(* [], __body__ = [].  Line number 0 stands for the appended ''.          *)
FuncClose ==
    /\ Read("close") /\ infunc # NoName
    /\ stmts' = Append(stmts, [kind |-> "sh", name |-> infunc, body |-> Append(body, 0)])
    /\ infunc' = NoName /\ body' = <<>>
    /\ UNCHANGED <<inpython, residue, gen, status, outcome, faults>>

(* Inside a python def an indented, empty or comment line is body.        *)
PyBody(k) ==
    /\ Read(k) /\ infunc = NoName /\ inpython # NoName /\ k \in PyBodyKinds
    /\ body' = Append(body, L)
    /\ UNCHANGED <<infunc, inpython, residue, stmts, gen, status, outcome, faults>>

\* The line reaches the code after the function checks.
Outside(k) == infunc = NoName /\ (inpython = NoName \/ k \notin PyBodyKinds)

Pending == residue # <<>>
HeadIsLone == Pending /\ residue[1] = "lone"
HeadIsComment == Pending /\ residue[1] = "commentcont"

(* The comment checks read __residue__[0][0]: when the pending line was a *)
(* lone backslash that is the empty string and indexing it raises         *)
(* IndexError.                                                            *)
ContinuationCrash(k) ==
    /\ Read(k) /\ Outside(k) /\ HeadIsLone
    /\ stmts' = ClosedStmts /\ body' = ClosedBody /\ inpython' = NoName
    /\ status' = "done" /\ outcome' = "crash"
    /\ UNCHANGED <<infunc, residue, gen, faults>>

\* Neither comment check fires.
Consistent(k) == ~Pending \/ (~HeadIsLone /\ (k \in CommentKinds) = HeadIsComment)

(* bb.fatal: a comment line continues code, or a line that is not a       *)
(* comment continues a comment.                                           *)
ContinuationFatal(k) ==
    /\ Read(k) /\ Outside(k) /\ ~Consistent(k)
    /\ ~HeadIsLone
    /\ stmts' = ClosedStmts /\ body' = ClosedBody /\ inpython' = NoName
    /\ status' = "done" /\ outcome' = "fatal"
    /\ UNCHANGED <<infunc, residue, gen, faults>>

(* A line ending in a backslash is put on __residue__.                     *)
Continue(k) ==
    /\ Read(k) /\ Outside(k) /\ Consistent(k) /\ k \in ContKinds
    /\ residue' = Append(residue, k)
    /\ stmts' = ClosedStmts /\ body' = ClosedBody /\ inpython' = NoName
    /\ UNCHANGED <<infunc, gen, status, outcome, faults>>

\* Otherwise s = "".join(__residue__) + s: the joined line starts as the
\* first pending line did.
Joined(k) == IF Pending THEN HeadKind(residue[1]) ELSE k

\* A complete logical line is looked at; __residue__ is emptied.
Logical(k) ==
    /\ Read(k) /\ Outside(k) /\ Consistent(k) /\ k \notin ContKinds
    /\ residue' = <<>> /\ inpython' = IF Joined(k) = "def" THEN <<gen, L>> ELSE NoName
    /\ UNCHANGED <<gen, faults>>

(* An empty line or a comment is skipped.                                 *)
Skip(k) ==
    /\ Logical(k) /\ Joined(k) \in {"blank", "comment"}
    /\ stmts' = ClosedStmts /\ body' = ClosedBody
    /\ UNCHANGED <<infunc, status, outcome>>

(* __func_start_regexp__: __infunc__ = [name, fn, lineno, ...].            *)
OpenFunc(k) ==
    /\ Logical(k) /\ Joined(k) = "func"
    /\ infunc' = <<gen, L>>
    /\ stmts' = ClosedStmts /\ body' = ClosedBody
    /\ UNCHANGED <<status, outcome>>

(* __def_regexp__: __body__.append(s), __inpython__ = the name.            *)
OpenDef(k) ==
    /\ Logical(k) /\ Joined(k) = "def"
    /\ stmts' = ClosedStmts /\ body' = Append(ClosedBody, L)
    /\ UNCHANGED <<infunc, status, outcome>>

(* EXPORT_FUNCTIONS, addtask, deltask, addhandler, inherit,               *)
(* inherit_defer: the ast.handle* call appends one node.                   *)
Directive(k) ==
    /\ Logical(k) /\ Joined(k) = "directive"
    /\ stmts' = Append(ClosedStmts, [kind |-> "bb"]) /\ body' = ClosedBody
    /\ UNCHANGED <<infunc, status, outcome>>

(* addtask: a token of the line containing "<keyword>_" raises ParseError. *)
TaskKeyword(k) ==
    /\ Logical(k) /\ Joined(k) = "badtask"
    /\ stmts' = ClosedStmts /\ body' = ClosedBody
    /\ status' = "done" /\ outcome' = "error"
    /\ UNCHANGED infunc

(* ConfHandler.feeder(conffile=False): an assignment, include, require,   *)
(* include_all, export, unset or addfragments appends one node.            *)
ConfStatement(k) ==
    /\ Logical(k) /\ Joined(k) = "code"
    /\ stmts' = Append(ClosedStmts, [kind |-> "code"]) /\ body' = ClosedBody
    /\ UNCHANGED <<infunc, status, outcome>>

(* ConfHandler.feeder: an assignment to an empty variable name.          *)
EmptyVarName(k) ==
    /\ Logical(k) /\ Joined(k) = "emptyvar"
    /\ stmts' = ClosedStmts /\ body' = ClosedBody
    /\ status' = "done" /\ outcome' = "error"
    /\ UNCHANGED infunc

(* ConfHandler.feeder matches nothing (addpylib is recognised only when   *)
(* baseconfig and conffile): ParseError("unparsed line").                 *)
Unparsed(k) ==
    /\ Logical(k) /\ Joined(k) \in {"indent", "close", "pylib"}
    /\ stmts' = ClosedStmts /\ body' = ClosedBody
    /\ status' = "done" /\ outcome' = "error"
    /\ UNCHANGED infunc

(* The file ends: an open python def is closed by feeder(eof=True); left  *)
(* residue or an unclosed function body raise ParseError in               *)
(* get_statements, and after statements.eval handle() raises for an open  *)
(* __infunc__.                                                            *)
EndOfFile ==
    /\ status = "read"
    /\ stmts' = ClosedStmts /\ body' = ClosedBody /\ inpython' = NoName
    /\ status' = "done"
    /\ outcome' = IF Pending \/ ClosedBody # <<>> \/ infunc # NoName
                  THEN "error" ELSE "ok"
    /\ UNCHANGED <<infunc, residue, text, gen, faults>>

(* Reading the next line raises (UnicodeDecodeError on a line that is not *)
(* UTF-8, or an I/O error): get_statements and handle() are left with the *)
(* globals as they are.                                                    *)
ReadError ==
    /\ status = "read" /\ Len(text) < MaxLines /\ faults < MaxFaults
    /\ faults' = faults + 1
    /\ status' = "done" /\ outcome' = "ioerror"
    /\ UNCHANGED <<infunc, inpython, body, residue, stmts, text, gen>>

Next ==
    \/ Handle
    \/ FuncClose
    \/ \E k \in LineKinds :
          \/ FuncBody(k) \/ PyBody(k)
          \/ ContinuationCrash(k) \/ ContinuationFatal(k) \/ Continue(k)
          \/ Skip(k) \/ OpenFunc(k) \/ OpenDef(k) \/ Directive(k) \/ TaskKeyword(k)
          \/ ConfStatement(k) \/ EmptyVarName(k) \/ Unparsed(k)
    \/ EndOfFile

(* Files are read without error.                                           *)
Spec == Init /\ [][Next]_vars

(* A line may fail to decode; the caller catches the error and goes on    *)
(* parsing in the same process.                                           *)
SpecFaults == Init /\ [][Next \/ ReadError]_vars
-----------------------------------------------------------------------------
(* The recipe grammar of spec 4.F, read over a whole file by a parser     *)
(* whose state belongs to this call.  Lines of a continuation join into    *)
(* one logical line that is what its first line is, and a comment mixed   *)
(* with other lines in one continuation is fatal; "f() {" opens a body up  *)
(* to a sole "}"; "def" opens a body of indented, empty and comment lines  *)
(* that the first other line closes; blank lines and comments are skipped; *)
(* an assignment is a statement; any other line, an unclosed function and  *)
(* a continuation left open at the end are parse errors.                   *)

Fail(o) == [outcome |-> o, stmts |-> <<>>]

\* Statement s followed by the parse r of the rest.
Then(s, r) == IF r.outcome = "ok" THEN [r EXCEPT !.stmts = <<s>> \o @] ELSE r

RECURSIVE Ref(_, _, _)
\* The parse of lines i.. of ls; g names the functions of this parse.
Ref(ls, i, g) ==
    IF i > Len(ls) THEN [outcome |-> "ok", stmts |-> <<>>]
    ELSE LET k == ls[i]
             close == SelectInSubSeq(ls, i + 1, Len(ls), LAMBDA x : x = "close")
             pyEnd == SelectInSubSeq(ls, i + 1, Len(ls), LAMBDA x : x \notin PyBodyKinds)
             e == IF pyEnd = 0 THEN Len(ls) + 1 ELSE pyEnd
             contEnd == SelectInSubSeq(ls, i + 1, Len(ls), LAMBDA x : x \notin ContKinds)
             head == IF k \in ContKinds THEN HeadKind(k) ELSE k
             mixed == \E j \in i + 1..IF contEnd = 0 THEN Len(ls) ELSE contEnd :
                         (ls[j] \in CommentKinds) # (head = "comment")
         IN
         CASE k \in {"blank", "comment"} -> Ref(ls, i + 1, g)
           [] k = "code" -> Then([kind |-> "code"], Ref(ls, i + 1, g))
           [] k = "directive" -> Then([kind |-> "bb"], Ref(ls, i + 1, g))
           [] k \in {"indent", "close", "badtask", "emptyvar", "pylib"} -> Fail("error")
           [] k = "func" ->
                 IF close = 0 THEN Fail("error")
                 ELSE Then([kind |-> "sh", name |-> <<g, i>>,
                            body |-> [j \in 1..close - i - 1 |-> i + j] \o <<0>>],
                           Ref(ls, close + 1, g))
           [] k = "def" ->
                 Then(PyStmt(<<g, i>>, [j \in 1..e - i |-> i + j - 1]), Ref(ls, e, g))
           [] k \in ContKinds ->
                 IF mixed THEN Fail("fatal")
                 ELSE IF contEnd = 0 THEN Fail("error")
                 ELSE IF head = "code" THEN Then([kind |-> "code"], Ref(ls, contEnd + 1, g))
                 ELSE Ref(ls, contEnd + 1, g)

\* What the last handle() returned: its outcome, and its statements when
\* it succeeded.
Result == [outcome |-> outcome, stmts |-> IF outcome = "ok" THEN stmts ELSE <<>>]

-----------------------------------------------------------------------------
(* Properties *)

(* Spec 3: the parser state is per call, never shared across parses.     *)
(* Every handle() that reads its file to the end, or stops at a line the  *)
(* grammar rejects, returns what the grammar of spec 4.F gives for the     *)
(* lines it read: the same statements, the same python and shell          *)
(* functions with the same bodies, or the same error, whatever the        *)
(* parses before it left behind in __inpython__, __body__, __infunc__ and *)
(* __residue__.                                                           *)
ParsesAsGrammar ==
    status = "done" /\ outcome \in {"ok", "error", "fatal"} => Result = Ref(text, 1, gen)

(* Spec 7: a parse fails with ParseError or the fatal kind; the feeder    *)
(* never raises IndexError.                                               *)
NoResidueIndexError == outcome # "crash"
====
