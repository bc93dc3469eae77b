----------------------------- MODULE ConfLines -----------------------------
(***************************************************************************)
(* The line loop of ConfHandler._get_conf_statements: physical lines are  *)
(* taken with enumerate(f), blank ones skipped, a trailing backslash pulls *)
(* the next line in with f.readline(), a commented line continued into a   *)
(* code line is fatal, and a logical line that is not a comment goes to    *)
(* feeder() with the line number.                                          *)
(*                                                                         *)
(* A line is a sequence of characters over a small alphabet: '#', the      *)
(* backslash, one other character and one whitespace character; those are *)
(* the characters the loop tests.  The line terminator is left out, since *)
(* every test is made after strip() or rstrip().  What feeder() does with  *)
(* a logical line is not modelled here: the output is the (lineno, text)   *)
(* pairs it is called with.                                                *)
(***************************************************************************)
EXTENDS Naturals, Sequences, SequencesExt

CONSTANTS
    MaxLen,    \* longest physical line
    MaxLines   \* longest file

Hash == "#"
BSlash == "\\"
Chars == {Hash, BSlash, "a", " "}
Line == BoundedSeq(Chars, MaxLen)

IsSpace(c) == c = " "

RECURSIVE RStrip(_)
(* str.rstrip(): drop trailing whitespace.                                *)
RStrip(l) == IF l # <<>> /\ IsSpace(Last(l)) THEN RStrip(Front(l)) ELSE l

(* not origline.strip(): the line is whitespace only.                     *)
Blank(l) == \A i \in 1..Len(l) : IsSpace(l[i])

(* s and s[0] == '#'                                                      *)
IsComment(t) == t # <<>> /\ t[1] = Hash

VARIABLES
    file,        \* the physical lines of the .conf file
    pos,         \* the next line the file object returns
    count,       \* how many lines enumerate(f) has yielded
    lineno,      \* the loop's lineno
    origlineno,  \* the line the current logical line starts on
    s,           \* the logical line being joined
    out,         \* the calls feeder(lineno, s): <<lineno, s, origlineno>>
    status       \* "read", "join", "feed", "done", "fatal" or "crash"

vars == <<file, pos, count, lineno, origlineno, s, out, status>>

TypeOK ==
    /\ file \in Seq(Line) /\ Len(file) <= MaxLines
    /\ pos \in 1..Len(file) + 1
    /\ count \in 0..Len(file) /\ lineno \in 0..Len(file)
    /\ origlineno \in 0..Len(file)
    /\ s \in Seq(Chars)
    /\ out \in Seq(Nat \X Seq(Chars) \X Nat)
    /\ status \in {"read", "join", "feed", "done", "fatal", "crash"}

Init ==
    /\ file \in BoundedSeq(Line, MaxLines)
    /\ pos = 1 /\ count = 0 /\ lineno = 0 /\ origlineno = 0
    /\ s = <<>> /\ out = <<>>
    /\ status = "read"

(* for lineno, origline in enumerate(f, start=1): a blank line is        *)
(* skipped ...                                                            *)
SkipBlank ==
    /\ status = "read" /\ pos <= Len(file)
    /\ Blank(file[pos])
    /\ pos' = pos + 1 /\ count' = count + 1 /\ lineno' = count + 1
    /\ UNCHANGED <<file, origlineno, s, out, status>>

(* ... any other starts a logical line with origline.rstrip().            *)
StartLine ==
    /\ status = "read" /\ pos <= Len(file)
    /\ ~Blank(file[pos])
    /\ pos' = pos + 1 /\ count' = count + 1 /\ lineno' = count + 1
    /\ s' = RStrip(file[pos])
    /\ origlineno' = count + 1
    /\ status' = "join"
    /\ UNCHANGED <<file, out>>

(* The for loop ends with the file.                                       *)
EndOfFile ==
    /\ status = "read" /\ pos > Len(file)
    /\ status' = "done"
    /\ UNCHANGED <<file, pos, count, lineno, origlineno, s, out>>

(* while s[-1] == '\\' on an empty s raises IndexError.                    *)
EmptyJoin ==
    /\ status = "join" /\ s = <<>>
    /\ status' = "crash"
    /\ UNCHANGED <<file, pos, count, lineno, origlineno, s, out>>

Continued == status = "join" /\ s # <<>> /\ Last(s) = BSlash

(* Variant of ContinueAtEof that counts the line before testing for the   *)
(* end of the file.                                                       *)
ContinueAtEofCounts ==
    /\ Continued /\ pos > Len(file)
    /\ lineno' = lineno + 1
    /\ status' = "feed"
    /\ UNCHANGED <<file, pos, count, origlineno, s, out>>

(* A trailing backslash and f.readline() returns '': the while loop       *)
(* breaks with the backslash still on s.                                  *)
ContinueAtEof ==
    /\ Continued /\ pos > Len(file)
    /\ status' = "feed"
    /\ UNCHANGED <<file, pos, count, lineno, origlineno, s, out>>

(* The line read is a blank or code line and s is a comment: bb.fatal.    *)
ContinueFatal ==
    /\ Continued /\ pos <= Len(file)
    /\ ~IsComment(RStrip(file[pos])) /\ IsComment(s)
    /\ pos' = pos + 1 /\ lineno' = lineno + 1
    /\ status' = "fatal"
    /\ UNCHANGED <<file, count, origlineno, s, out>>

(* Variant of Continue that joins the line read without rstrip().        *)
ContinueNoRStrip ==
    /\ Continued /\ pos <= Len(file)
    /\ ~(~IsComment(RStrip(file[pos])) /\ IsComment(s))
    /\ s' = Front(s) \o file[pos]
    /\ pos' = pos + 1 /\ lineno' = lineno + 1
    /\ UNCHANGED <<file, count, origlineno, out, status>>

(* Otherwise s = s[:-1] + line.rstrip(), and lineno counts the line.      *)
Continue ==
    /\ Continued /\ pos <= Len(file)
    /\ ~(~IsComment(RStrip(file[pos])) /\ IsComment(s))
    /\ s' = Front(s) \o RStrip(file[pos])
    /\ pos' = pos + 1 /\ lineno' = lineno + 1
    /\ UNCHANGED <<file, count, origlineno, out, status>>

(* The logical line is complete.                                          *)
Joined ==
    /\ status = "join" /\ s # <<>> /\ Last(s) # BSlash
    /\ status' = "feed"
    /\ UNCHANGED <<file, pos, count, lineno, origlineno, s, out>>

(* if s and s[0] == '#': continue; else feeder(lineno, s, ...).            *)
Feed ==
    /\ status = "feed"
    /\ out' = IF IsComment(s) THEN out
              ELSE Append(out, <<lineno, s, origlineno>>)
    /\ status' = "read"
    /\ UNCHANGED <<file, pos, count, lineno, origlineno, s>>

Stopped == status \in {"done", "fatal", "crash"}

Next ==
    \/ SkipBlank \/ StartLine \/ EndOfFile
    \/ EmptyJoin \/ ContinueAtEof \/ ContinueFatal \/ Continue \/ Joined
    \/ Feed
    \/ (Stopped /\ UNCHANGED vars)

Spec == Init /\ [][Next]_vars

-----------------------------------------------------------------------------
(* The logical lines as spec 4.E describes them: blank lines are skipped, *)
(* a logical line whose text so far ends in a backslash goes on, without  *)
(* the backslash, with the next physical line, right-stripped, and a      *)
(* logical line whose first character is '#' is a comment.  Each is       *)
(* <<first, last, text>>: the numbers of its first and last physical      *)
(* lines and its text.                                                    *)

\* Join lines j+1, j+2, ... of ls to the text t while it ends in a
\* backslash; returns the number of the last line taken and the text.
RECURSIVE Gather(_, _, _)
Gather(t, ls, j) ==
    IF t # <<>> /\ Last(t) = BSlash /\ j < Len(ls)
    THEN Gather(Front(t) \o RStrip(ls[j + 1]), ls, j + 1)
    ELSE <<j, t>>

RECURSIVE Logical(_, _)
Logical(ls, k) ==
    IF ls = <<>> THEN <<>>
    ELSE IF Blank(Head(ls)) THEN Logical(Tail(ls), k + 1)
    ELSE LET g == Gather(RStrip(Head(ls)), ls, 1) IN
         <<<<k, k + g[1] - 1, g[2]>>>>
             \o Logical(SubSeq(ls, g[1] + 1, Len(ls)), k + g[1])

Code(ls) == SelectSeq(Logical(ls, 1), LAMBDA l : ~IsComment(l[3]))

-----------------------------------------------------------------------------
(* Properties *)

(* When the loop reaches the end of the file, feeder() has been called   *)
(* once per non-comment logical line, in order, with its joined text:    *)
(* continuation, rstrip() and comment skipping as spec 4.E states them.  *)
JoinsLogicalLines ==
    status = "done" =>
        [i \in 1..Len(out) |-> out[i][2]] = [i \in 1..Len(Code(file)) |-> Code(file)[i][3]]

(* Spec 3: each statement carries its line number: the lineno passed to  *)
(* feeder() lies within the physical lines of the logical line, also     *)
(* after earlier continuations consumed lines with f.readline().         *)
LinenoWithinLine ==
    \A i \in 1..Len(out) :
        i <= Len(Code(file)) =>
            out[i][1] \in Code(file)[i][1]..Code(file)[i][2]

(* Spec 4.E and example 10: a comment in the middle of a continuation     *)
(* is fatal.                                                              *)
MidContinuationCommentFatal ==
    status = "done" =>
        ~\E l \in ToSet(Logical(file, 1)) :
            \E j \in l[1] + 1..l[2] : IsComment(RStrip(file[j]))

(* Spec 7: the parser fails only with ParseError or the fatal kind; the   *)
(* continuation loop never raises IndexError.                             *)
NoIndexError == status # "crash"
====
