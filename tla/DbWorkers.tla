----------------------------- MODULE DbWorkers -----------------------------
(***************************************************************************)
(* The database workers of the recorder (record/db_workers.c) and how      *)
(* record() finishes (record/run.c): three threads read the steps, the     *)
(* heap events and the memory segments from their channels and insert them *)
(* in batches; at the end the main thread sends each of them the END       *)
(* message, waits for it and destroys its channel, one after the other.    *)
(* The step worker works on the main database, the others on a file of     *)
(* their own that they copy to the main database when they finish.  The    *)
(* event callback of the polling thread may be adding a region to the      *)
(* cache meanwhile, which writes to the memory channel.                    *)
(*                                                                         *)
(* Abstractions: a channel is the queue of module Fifo, messages are       *)
(* indistinguishable rows; any database operation of a worker may fail,    *)
(* and the rows of a worker that failed are not looked at (the journal is  *)
(* off, its ROLLBACK is undefined).                                        *)
(***************************************************************************)
EXTENDS Integers, Sequences, FiniteSets

CONSTANTS
    COMMIT_FREQ,    \* rows in a transaction
    MaxRows,        \* bound: rows the main thread writes to a channel
    MaxSegments,    \* bound: segments of the region the callback adds
    MayFail         \* may database operations fail?

ASSUME WorkersAssumption ==
    /\ COMMIT_FREQ \in Nat \ {0}
    /\ MaxRows \in Nat
    /\ MaxSegments \in Nat
    /\ MayFail \in BOOLEAN

Workers == <<"step", "heap", "mem">>        \* in the order they are finished
Names == {Workers[k] : k \in 1 .. 3}

VARIABLES
    pc,         \* main thread: "record", "finish", "join", "bpf", "signal"
    turn,       \* the worker it is finishing
    stop,       \* the child has ended
    result,     \* what record() has returned
    queue,      \* the messages in every channel
    destroyed,  \* ch_destroy() was called
    state,      \* where every worker is
    counter,    \* its rows since the last commit
    pending,    \* its rows in the open transaction
    committed,  \* its rows in its own database
    stored,     \* its rows in the main database
    segments,   \* what the callback has still to write
    due         \* history: rows written to a channel before its END

main == <<pc, turn, stop, result>>
channels == <<queue, destroyed, due>>
workers == <<state, counter, pending, committed, stored>>
vars == <<main, channels, workers, segments>>

Init ==
    /\ pc = "record"
    /\ turn = 1
    /\ stop = FALSE
    /\ result = "none"
    /\ queue = [w \in Names |-> <<>>]
    /\ destroyed = [w \in Names |-> FALSE]
    /\ state = [w \in Names |-> "start"]
    /\ counter = [w \in Names |-> 0]
    /\ pending = [w \in Names |-> 0]
    /\ committed = [w \in Names |-> 0]
    /\ stored = [w \in Names |-> 0]
    /\ segments = 0
    /\ due = [w \in Names |-> 0]

Alive == result = "none"        \* main() returns when record() does

-----------------------------------------------------------------------------
(* A worker.                                                                *)

Become(w, s) == state' = [state EXCEPT ![w] = s]

\* Open the database, create the table, prepare the insert, BEGIN.
Start(w) ==
    /\ Alive /\ state[w] = "start"
    /\ Become(w, "read")
    /\ UNCHANGED <<main, channels, counter, pending, committed, stored, segments>>

\* CHANNEL_OK: insert a row, and commit when there are enough of them.
Insert(w) ==
    /\ Alive /\ state[w] = "read"
    /\ queue[w] # <<>> /\ Head(queue[w]) = "row"
    /\ queue' = [queue EXCEPT ![w] = Tail(@)]
    /\ pending' = [pending EXCEPT ![w] = @ + 1]
    /\ counter' = [counter EXCEPT ![w] = @ + 1]
    /\ Become(w, IF counter[w] + 1 >= COMMIT_FREQ THEN "commit" ELSE "read")
    /\ UNCHANGED <<main, destroyed, due, committed, stored, segments>>

\* The step worker commits to the main database.
CommitRows(w) ==
    /\ committed' = [committed EXCEPT ![w] = @ + pending[w]]
    /\ stored' = IF w = "step" THEN [stored EXCEPT ![w] = @ + pending[w]] ELSE stored
    /\ pending' = [pending EXCEPT ![w] = 0]

\* Mutant: the counter is not reset.
MutantCommitKeepsCounter(w) ==
    /\ Alive /\ state[w] = "commit"
    /\ CommitRows(w)
    /\ Become(w, "read")
    /\ UNCHANGED <<main, channels, counter, segments>>

\* COMMIT and BEGIN in the loop.
Commit(w) ==
    /\ Alive /\ state[w] = "commit"
    /\ CommitRows(w)
    /\ counter' = [counter EXCEPT ![w] = 0]
    /\ Become(w, "read")
    /\ UNCHANGED <<main, channels, segments>>

\* Mutant: END is taken for a message of no interest.
MutantEndIgnored(w) ==
    /\ Alive /\ state[w] = "read"
    /\ queue[w] # <<>> /\ Head(queue[w]) = "END"
    /\ queue' = [queue EXCEPT ![w] = Tail(@)]
    /\ UNCHANGED <<main, destroyed, due, workers, segments>>

\* CHANNEL_END ends the loop.
End(w) ==
    /\ Alive /\ state[w] = "read"
    /\ queue[w] # <<>> /\ Head(queue[w]) = "END"
    /\ queue' = [queue EXCEPT ![w] = Tail(@)]
    /\ Become(w, "final")
    /\ UNCHANGED <<main, destroyed, due, counter, pending, committed, stored, segments>>

\* Mutant: rows after the last full transaction are not committed.
MutantFinalNoCommit(w) ==
    /\ Alive /\ state[w] = "final"
    /\ Become(w, IF w = "step" THEN "done" ELSE "copy")
    /\ UNCHANGED <<main, channels, counter, pending, committed, stored, segments>>

\* COMMIT after the loop.
FinalCommit(w) ==
    /\ Alive /\ state[w] = "final"
    /\ CommitRows(w)
    /\ Become(w, IF w = "step" THEN "done" ELSE "copy")
    /\ UNCHANGED <<main, channels, counter, segments>>

\* ATTACH the main database, CREATE TABLE fr.x AS SELECT * FROM main.x (and
\* an index on memory), remove the file.
Copy(w) ==
    /\ Alive /\ state[w] = "copy"
    /\ stored' = [stored EXCEPT ![w] = committed[w]]
    /\ Become(w, "done")
    /\ UNCHANGED <<main, channels, counter, pending, committed, segments>>

\* Any operation fails: the worker returns NULL, whatever is in its channel.
Fail(w) ==
    /\ MayFail
    /\ Alive /\ state[w] \notin {"done", "failed"}
    /\ Become(w, "failed")
    /\ UNCHANGED <<main, channels, counter, pending, committed, stored, segments>>

-----------------------------------------------------------------------------
(* The callback of the polling thread.                                      *)

\* mmap() or brk(): the segments of the new region are written one by one.
\* Events are ignored once the child has stopped.
CallbackAdds ==
    /\ Alive /\ ~stop
    /\ segments = 0
    /\ due["mem"] < MaxRows
    /\ segments' \in 1 .. MaxSegments
    /\ UNCHANGED <<main, channels, workers>>

CallbackWrites ==
    /\ Alive /\ segments > 0
    /\ segments' = segments - 1
    /\ queue' = [queue EXCEPT !["mem"] = Append(@, "row")]
    /\ due' = IF turn = 3 /\ pc # "finish" THEN due ELSE [due EXCEPT !["mem"] = @ + 1]
    /\ UNCHANGED <<main, destroyed, workers>>

-----------------------------------------------------------------------------
(* The main thread.                                                         *)

\* process_breakpoint(): steps, heap events and memory.
MainWrites(w) ==
    /\ Alive /\ pc = "record"
    /\ due[w] < MaxRows
    /\ queue' = [queue EXCEPT ![w] = Append(@, "row")]
    /\ due' = [due EXCEPT ![w] = @ + 1]
    /\ UNCHANGED <<main, destroyed, workers, segments>>

\* process_breakpoint() fails: the program ends with its workers.
RecordFails ==
    /\ Alive /\ pc = "record"
    /\ result' = "FAILURE"
    /\ UNCHANGED <<pc, turn, stop, channels, workers, segments>>

\* The child has ended: stop = 1, and the main database is closed.
ChildEnds ==
    /\ Alive /\ pc = "record"
    /\ stop' = TRUE
    /\ pc' = "finish"
    /\ UNCHANGED <<turn, result, channels, workers, segments>>

\* WAIT_DB_WORKER: ch_finish() ...
Finish ==
    /\ Alive /\ pc = "finish"
    /\ queue' = [queue EXCEPT ![Workers[turn]] = Append(@, "END")]
    /\ pc' = "join"
    /\ UNCHANGED <<turn, stop, result, destroyed, due, workers, segments>>

\* Mutant: the workers are not waited for one by one.
MutantNoJoin ==
    /\ Alive /\ pc = "join"
    /\ pc' = IF turn = 3 THEN "bpf" ELSE "finish"
    /\ turn' = IF turn = 3 THEN 3 ELSE turn + 1
    /\ UNCHANGED <<stop, result, channels, workers, segments>>

\* Mutant: what the worker has returned is not looked at.
MutantJoinAnyResult ==
    /\ Alive /\ pc = "join"
    /\ state[Workers[turn]] \in {"done", "failed"}
    /\ destroyed' = [destroyed EXCEPT ![Workers[turn]] = TRUE]
    /\ pc' = IF turn = 3 THEN "bpf" ELSE "finish"
    /\ turn' = IF turn = 3 THEN 3 ELSE turn + 1
    /\ UNCHANGED <<stop, result, queue, due, workers, segments>>

\* ... pthread_join() and ch_destroy(); the first failure ends record().
Join ==
    LET w == Workers[turn] IN
    /\ Alive /\ pc = "join"
    /\ \/ /\ state[w] = "done"
          /\ destroyed' = [destroyed EXCEPT ![w] = TRUE]
          /\ pc' = IF turn = 3 THEN "bpf" ELSE "finish"
          /\ turn' = IF turn = 3 THEN 3 ELSE turn + 1
          /\ UNCHANGED result
       \/ /\ state[w] = "failed"
          /\ result' = "FAILURE"
          /\ UNCHANGED <<pc, turn, destroyed>>
    /\ UNCHANGED <<stop, queue, due, workers, segments>>

\* bpf_stop(): pthread_cancel() takes effect when the callback has returned.
BpfStop ==
    /\ Alive /\ pc = "bpf"
    /\ pc' = "signal"
    /\ UNCHANGED <<turn, stop, result, channels, workers, segments>>

\* The signal the child died of, if any, goes to the main database, which is
\* opened again; record() succeeds unless it cannot be opened.
StoreSignal ==
    /\ Alive /\ pc = "signal"
    /\ result' \in {"SUCCESS"} \cup (IF MayFail THEN {"FAILURE"} ELSE {})
    /\ UNCHANGED <<pc, turn, stop, channels, workers, segments>>

-----------------------------------------------------------------------------
Works(w) ==
    \/ Start(w) \/ Insert(w) \/ Commit(w) \/ End(w) \/ FinalCommit(w)
    \/ Copy(w)

Worker(w) == Works(w) \/ Fail(w)

Callback == CallbackAdds \/ CallbackWrites

MainFinishes == Finish \/ Join \/ BpfStop \/ StoreSignal

Over == ~Alive /\ UNCHANGED vars

Next ==
    \/ \E w \in Names : Worker(w) \/ MainWrites(w)
    \/ Callback
    \/ RecordFails \/ ChildEnds \/ MainFinishes
    \/ Over

Spec == Init /\ [][Next]_vars

(***************************************************************************)
(* Fairness: the kernel schedules the threads; the child ends.  No         *)
(* database operation has to fail.                                         *)
(***************************************************************************)
Fairness ==
    /\ \A w \in Names : WF_vars(Works(w))
    /\ WF_vars(MainFinishes)
    /\ WF_vars(ChildEnds)

FairSpec == Spec /\ Fairness

-----------------------------------------------------------------------------
TypeOK ==
    /\ pc \in {"record", "finish", "join", "bpf", "signal"}
    /\ turn \in 1 .. 3
    /\ stop \in BOOLEAN
    /\ result \in {"none", "SUCCESS", "FAILURE"}
    /\ queue \in [Names -> Seq({"row", "END"})]
    /\ destroyed \in [Names -> BOOLEAN]
    /\ state \in [Names -> {"start", "read", "commit", "final", "copy", "done", "failed"}]
    /\ counter \in [Names -> 0 .. COMMIT_FREQ]
    /\ pending \in [Names -> Nat]
    /\ committed \in [Names -> Nat]
    /\ stored \in [Names -> Nat]
    /\ segments \in 0 .. MaxSegments
    /\ due \in [Names -> Nat]

(***************************************************************************)
(* A recording that succeeds is complete: every row written to a channel   *)
(* before it was finished is in the main database, also when the number of *)
(* rows is not a multiple of the batch.                                    *)
(***************************************************************************)
SuccessIsComplete == result = "SUCCESS" => stored = due

(***************************************************************************)
(* run.c:249: workers are processed "one by one, concurrency can corrupt   *)
(* DB": the main database has one writer at a time.                        *)
(***************************************************************************)
WritesMainDb ==
    {w \in Names : \/ w = "step" /\ state[w] \in {"read", "commit", "final"}
                   \/ w # "step" /\ state[w] = "copy"}
OneWriter == Alive =>
    /\ Cardinality(WritesMainDb) <= 1
    /\ pc = "signal" => WritesMainDb = {}

(***************************************************************************)
(* run.c:664: "ignore events coming after child stop": the callback writes *)
(* to no channel that is gone.                                             *)
(***************************************************************************)
NoWriteAfterDestroy == Alive /\ destroyed["mem"] => segments = 0

(* record() returns, even when workers have failed long before its end.     *)
RecordReturns == <>(result # "none")
=============================================================================
