----------------------------- MODULE Metrics -----------------------------
(***************************************************************************)
(* bb.parse.metrics: the counters (_totals), the timers (_times), the      *)
(* sequence (_seq), the lock (_lock) and flush(), called by threads that   *)
(* run concurrently: the parser thread bumps counters, ends timers and     *)
(* flushes at the end of a top-level handle(); a shutdown handler flushes  *)
(* while the parser may still be running (spec 4.B, 7).                    *)
(*                                                                         *)
(* Granularity.  A "with _lock" block whose body never blocks is one step  *)
(* when no unlocked reader can see its middle; time_end writes two fields  *)
(* under the lock and json.dumps reads them without it, so time_end is two *)
(* steps.  json.dumps is one call into the C encoder, during which no     *)
(* other thread runs: it reads the whole payload in one step.  One counter *)
(* (hits) and one timer (seconds, count) stand for the buckets: every      *)
(* bucket is read and written the same way.  dt, the elapsed perf_counter  *)
(* time, is 1.                                                             *)
(***************************************************************************)
EXTENDS Naturals, Sequences, SequencesExt

CONSTANTS
    Threads,     \* the threads that call into the module
    Prog,        \* Prog[t]: the calls thread t makes, in order
    NoOwner      \* _lock is free

Ops == {"hit", "time", "flush"}

ASSUME Prog \in [Threads -> Seq(Ops)]

\* The fields a record carries: a _totals bucket, then time.seconds and
\* time.count.
Fields == <<"hits", "seconds", "count">>

\* A record as written: the sequence starts at 1.
Record == [seq: Nat \ {0}, hits: Nat, seconds: Nat, count: Nat]

VARIABLES
    lock,       \* _lock: its owner, or NoOwner
    ctr,        \* the shared counters: field -> value
    seqNext,    \* the next value itertools.count(1) returns
    file,       \* bb-cache-metrics.jsonl: the records appended, in order
    pc,         \* pc[t]: index in Prog[t] of the call thread t is in
    st,         \* st[t]: the step thread t has reached within that call
    rec,        \* rec[t]: the payload flush() is building
    seen        \* history: every value ctr has had while _lock was free

vars == <<lock, ctr, seqNext, file, pc, st, rec, seen>>

Running(t, op) == pc[t] <= Len(Prog[t]) /\ Prog[t][pc[t]] = op

\* The call returns: go on with the next call of the thread.
Return(t) == pc' = [pc EXCEPT ![t] = @ + 1] /\ st' = [st EXCEPT ![t] = 0]

TypeOK ==
    /\ lock \in Threads \cup {NoOwner}
    /\ ctr \in [ToSet(Fields) -> Nat]
    /\ seqNext \in Nat \ {0}
    /\ file \in Seq(Record)
    /\ pc \in [Threads -> Nat \ {0}]
    /\ st \in [Threads -> 0..3]
    /\ rec \in [Threads -> [seq: Nat, hits: Nat, seconds: Nat, count: Nat]]

Init ==
    /\ lock = NoOwner
    /\ ctr = [f \in ToSet(Fields) |-> 0]
    /\ seqNext = 1
    /\ file = <<>>
    /\ pc = [t \in Threads |-> 1]
    /\ st = [t \in Threads |-> 0]
    /\ rec = [t \in Threads |-> [seq |-> 0, hits |-> 0, seconds |-> 0, count |-> 0]]
    /\ seen = {ctr}

(* hit(section) -> _bump(section, 'hits', 1): take the lock, add one,     *)
(* release it.                                                            *)
Bump(t) ==
    /\ Running(t, "hit")
    /\ lock = NoOwner
    /\ ctr' = [ctr EXCEPT !["hits"] = @ + 1]
    /\ Return(t)
    /\ UNCHANGED <<lock, seqNext, file, rec>>

(* time_end(section, token): take the lock, add dt to seconds ...         *)
TimeEndSeconds(t) ==
    /\ Running(t, "time") /\ st[t] = 0
    /\ lock = NoOwner
    /\ lock' = t
    /\ ctr' = [ctr EXCEPT !["seconds"] = @ + 1]
    /\ st' = [st EXCEPT ![t] = 1]
    /\ UNCHANGED <<seqNext, file, pc, rec>>

(* ... then add one to count and release the lock.                        *)
TimeEndCount(t) ==
    /\ Running(t, "time") /\ st[t] = 1
    /\ ctr' = [ctr EXCEPT !["count"] = @ + 1]
    /\ lock' = NoOwner
    /\ Return(t)
    /\ UNCHANGED <<seqNext, file, rec>>

(* Variant of FlushSeq with _seq = itertools.count(), which starts at 0. *)
FlushSeqFromZero(t) ==
    /\ Running(t, "flush") /\ st[t] = 0
    /\ rec' = [rec EXCEPT ![t].seq = seqNext - 1]
    /\ seqNext' = seqNext + 1
    /\ st' = [st EXCEPT ![t] = 1]
    /\ UNCHANGED <<lock, ctr, file, pc>>

(* flush(note): the payload takes next(_seq) before the lock.             *)
FlushSeq(t) ==
    /\ Running(t, "flush") /\ st[t] = 0
    /\ rec' = [rec EXCEPT ![t].seq = seqNext]
    /\ seqNext' = seqNext + 1
    /\ st' = [st EXCEPT ![t] = 1]
    /\ UNCHANGED <<lock, ctr, file, pc>>

(* Under the lock, payload.update(_totals) and payload['time'] = _times   *)
(* store references to the live dicts: no value is copied.                *)
FlushCopy(t) ==
    /\ Running(t, "flush") /\ st[t] = 1
    /\ lock = NoOwner
    /\ st' = [st EXCEPT ![t] = 2]
    /\ UNCHANGED <<lock, ctr, seqNext, file, pc, rec>>

(* json.dumps(payload), outside the lock, reads the live values: the     *)
(* _totals buckets and time.seconds and time.count, in one step.          *)
FlushDump(t) ==
    /\ Running(t, "flush") /\ st[t] = 2
    /\ rec' = [rec EXCEPT ![t] = [@ EXCEPT !.hits = ctr["hits"],
                                           !.seconds = ctr["seconds"],
                                           !.count = ctr["count"]]]
    /\ st' = [st EXCEPT ![t] = 3]
    /\ UNCHANGED <<lock, ctr, seqNext, file, pc>>

(* os.makedirs(dirname, exist_ok=True), open(p, 'a'), write the line.  *)
(* Either the line is appended, or one of the three raises an OSError     *)
(* (no space, no permission) that "except Exception: pass" swallows: the *)
(* record is dropped and flush() returns normally.                        *)
FlushWrite(t) ==
    /\ Running(t, "flush") /\ st[t] = 3
    /\ \/ file' = Append(file, rec[t])
       \/ UNCHANGED file
    /\ Return(t)
    /\ UNCHANGED <<lock, ctr, seqNext, rec>>

Step(t) ==
    \/ Bump(t)
    \/ TimeEndSeconds(t) \/ TimeEndCount(t)
    \/ FlushSeq(t) \/ FlushCopy(t) \/ FlushDump(t) \/ FlushWrite(t)

\* Every step of thread t, with the history of the counters kept: the
\* values they have whenever no time_end or _bump is in its locked block.
Do(t) == Step(t) /\ seen' = IF lock' = NoOwner THEN seen \cup {ctr'} ELSE seen

Done == \A t \in Threads : pc[t] > Len(Prog[t])

\* Every thread has returned from its last call: the process exits.
Terminated == Done /\ UNCHANGED vars

Next == (\E t \in Threads : Do(t)) \/ Terminated

(* Each thread is scheduled whenever it can run: the interpreter switches *)
(* threads at least every switch interval, and an unowned Lock is granted *)
(* to a thread that asks for it.                                          *)
Spec == Init /\ [][Next]_vars /\ \A t \in Threads : WF_vars(Do(t))

-----------------------------------------------------------------------------
(* Properties *)

SeqMonotonic ==
    \A i, j \in 1..Len(file) : i < j => file[i].seq < file[j].seq
====
