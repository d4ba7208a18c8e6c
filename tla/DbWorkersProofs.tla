--------------------------- MODULE DbWorkersProofs ---------------------------
(***************************************************************************)
(* The end of a recording, for every batch size and number of rows: types, *)
(* SuccessIsComplete and OneWriter of module DbWorkers.                     *)
(*                                                                         *)
(* The argument counts: every row that is due is in the channel in front of *)
(* the END message, in the open transaction or committed (Accounts), and    *)
(* the workers before the one that is being finished have done all of it    *)
(* (Joined).                                                                *)
(***************************************************************************)
EXTENDS DbWorkers, FiniteSetTheorems, TLAPS

\* The place of a worker in the order in which the workers are finished.
Rank(w) == IF w = "step" THEN 1 ELSE IF w = "heap" THEN 2 ELSE 3

\* END was written to the channel of w.
Sent(w) == pc # "record" /\ (Rank(w) < turn \/ (Rank(w) = turn /\ pc # "finish"))

Reading == {"start", "read", "commit"}
Closing == {"final", "copy", "done"}

Rows(q, n) == \A j \in 1 .. n : q[j] = "row"
EndAt(q, k) == q[k] = "END" /\ Rows(q, k - 1)

\* Where the rows of worker w are that were written before its END.
Account(w) ==
    /\ ~Sent(w) => /\ state[w] \in Reading
                   /\ Rows(queue[w], Len(queue[w]))
                   /\ due[w] = Len(queue[w]) + pending[w] + committed[w]
    /\ Sent(w) /\ state[w] \in Reading =>
          \E k \in 1 .. Len(queue[w]) :
              EndAt(queue[w], k) /\ due[w] = (k - 1) + pending[w] + committed[w]
    /\ state[w] \in Closing => due[w] = pending[w] + committed[w]
    /\ state[w] \in {"copy", "done"} => pending[w] = 0
    /\ state[w] = "done" \/ w = "step" => stored[w] = committed[w]
    /\ w = "step" => state[w] # "copy"
Accounts == \A w \in Names : state[w] # "failed" => Account(w)

\* A full batch is committed before the next row is read.
Batches == \A w \in Names : state[w] \in {"start", "read"} => counter[w] < COMMIT_FREQ

\* The workers are finished one after the other.
Joined ==
    /\ pc = "record" => turn = 1
    /\ pc \in {"bpf", "signal"} => turn = 3
    /\ \A w \in Names :
          Rank(w) < turn \/ pc \in {"bpf", "signal"} => state[w] = "done"
    /\ result = "SUCCESS" => pc = "signal"

WorkersInv == TypeOK /\ Accounts /\ Batches /\ Joined

-----------------------------------------------------------------------------
\* The three workers of run.c:249.
LEMMA ThreeNames ==
    /\ Names = {"step", "heap", "mem"}
    /\ Workers[1] = "step" /\ Workers[2] = "heap" /\ Workers[3] = "mem"
    /\ \A w \in Names : Rank(w) \in 1 .. 3 /\ Workers[Rank(w)] = w
    /\ \A k \in 1 .. 3 : Workers[k] \in Names /\ Rank(Workers[k]) = k
<1>1. Workers[1] = "step" /\ Workers[2] = "heap" /\ Workers[3] = "mem"
    BY DEF Workers
<1>2. Names = {"step", "heap", "mem"}
    BY <1>1 DEF Names
<1>3. \A k \in 1 .. 3 : k = 1 \/ k = 2 \/ k = 3
    OBVIOUS
<1> QED
    BY <1>1, <1>2, <1>3 DEF Rank

Messages == {"row", "END"}

\* Writing to a channel and reading from it keep the types.
LEMMA QueueTypes ==
    ASSUME NEW q \in Seq(Messages)
    PROVE  /\ \A m \in Messages : Append(q, m) \in Seq(Messages)
           /\ q # <<>> => Tail(q) \in Seq(Messages)
    OBVIOUS

\* record() starts its workers on empty channels (run.c:167).
LEMMA InitInv == Init => WorkersInv
<1> SUFFICES ASSUME Init PROVE WorkersInv
    OBVIOUS
<1>1. TypeOK
    <2>1. <<>> \in Seq({"row", "END"})
        OBVIOUS
    <2>2. 0 \in 0 .. COMMIT_FREQ /\ 0 \in 0 .. MaxSegments /\ 1 \in 1 .. 3
        BY WorkersAssumption
    <2>3. destroyed \in [Names -> BOOLEAN] /\ stop \in BOOLEAN
        BY DEF Init
    <2> QED
        BY <2>1, <2>2, <2>3 DEF Init, TypeOK
<1>2. Accounts
    BY DEF Init, Accounts, Account, Sent, Reading, Closing, Rows
<1>3. Batches
    BY WorkersAssumption DEF Init, Batches
<1>4. Joined
    BY ThreeNames DEF Init, Joined
<1> QED
    BY <1>1, <1>2, <1>3, <1>4 DEF WorkersInv

-----------------------------------------------------------------------------
(* Types *)

\* COMMIT moves the rows of the transaction (db_workers.c:127).
LEMMA CommitTypes ==
    ASSUME TypeOK, NEW w \in Names, CommitRows(w)
    PROVE  /\ pending' \in [Names -> Nat]
           /\ committed' \in [Names -> Nat]
           /\ stored' \in [Names -> Nat]
<1>1. pending[w] \in Nat /\ committed[w] + pending[w] \in Nat /\ stored[w] + pending[w] \in Nat
    BY DEF TypeOK
<1> QED
    BY <1>1 DEF CommitRows, TypeOK

\* Every step keeps the types; a batch never has more than COMMIT_FREQ rows.
LEMMA TypeStep ==
    ASSUME TypeOK, Batches, [Next]_vars
    PROVE  TypeOK' /\ Batches'
<1> USE WorkersAssumption DEF Batches, main, channels, workers, Become
<1>0. \A w \in Names : queue[w] \in Seq(Messages)
    BY DEF TypeOK, Messages
<1>1. ASSUME NEW w \in Names, Start(w) PROVE TypeOK' /\ Batches'
    BY <1>1 DEF TypeOK, Start
<1>2. ASSUME NEW w \in Names, Insert(w) PROVE TypeOK' /\ Batches'
    <2>1. Tail(queue[w]) \in Seq(Messages)
        BY <1>0, <1>2, QueueTypes DEF Insert
    <2>2. queue' \in [Names -> Seq({"row", "END"})]
        BY <1>2, <2>1 DEF Insert, TypeOK, Messages
    <2>3. pending' \in [Names -> Nat]
        <3>1. pending[w] + 1 \in Nat
            BY DEF TypeOK
        <3> QED
            BY <1>2, <3>1 DEF Insert, TypeOK
    <2>4. counter[w] \in Nat /\ counter[w] + 1 \in 0 .. COMMIT_FREQ
        <3>1. counter[w] \in 0 .. COMMIT_FREQ /\ counter[w] < COMMIT_FREQ
            BY <1>2 DEF Insert, TypeOK
        <3> QED
            BY <3>1
    <2>5. counter' \in [Names -> 0 .. COMMIT_FREQ]
        BY <1>2, <2>4 DEF Insert, TypeOK
    <2>6. Batches'
        <3> SUFFICES ASSUME NEW v \in Names, state'[v] \in {"start", "read"}
                     PROVE  counter'[v] < COMMIT_FREQ
            OBVIOUS
        <3>1. CASE v = w
            <4>1. counter'[w] = counter[w] + 1 /\ ~(counter[w] + 1 >= COMMIT_FREQ)
                BY <1>2, <3>1 DEF Insert, TypeOK
            <4> QED
                BY <2>4, <3>1, <4>1
        <3>2. CASE v # w
            BY <1>2, <3>2 DEF Insert, TypeOK
        <3> QED
            BY <3>1, <3>2
    <2> QED
        BY <1>2, <2>2, <2>3, <2>5, <2>6 DEF Insert, TypeOK
<1>3. ASSUME NEW w \in Names, Commit(w) PROVE TypeOK' /\ Batches'
    <2>1. CommitRows(w) /\ counter' = [counter EXCEPT ![w] = 0]
        BY <1>3 DEF Commit
    <2>2. /\ pending' \in [Names -> Nat] /\ committed' \in [Names -> Nat]
          /\ stored' \in [Names -> Nat]
        BY <2>1, CommitTypes
    <2>3. 0 \in 0 .. COMMIT_FREQ /\ 0 < COMMIT_FREQ
        OBVIOUS
    <2> QED
        BY <1>3, <2>2, <2>3 DEF Commit, TypeOK
<1>4. ASSUME NEW w \in Names, End(w) PROVE TypeOK' /\ Batches'
    <2>1. Tail(queue[w]) \in Seq(Messages)
        BY <1>0, <1>4, QueueTypes DEF End
    <2>2. queue' \in [Names -> Seq({"row", "END"})]
        BY <1>4, <2>1 DEF End, TypeOK, Messages
    <2> QED
        BY <1>4, <2>2 DEF End, TypeOK
<1>5. ASSUME NEW w \in Names, FinalCommit(w) PROVE TypeOK' /\ Batches'
    <2>1. CommitRows(w)
        BY <1>5 DEF FinalCommit
    <2>2. /\ pending' \in [Names -> Nat] /\ committed' \in [Names -> Nat]
          /\ stored' \in [Names -> Nat]
        BY <2>1, CommitTypes
    <2> QED
        BY <1>5, <2>2 DEF FinalCommit, TypeOK
<1>6. ASSUME NEW w \in Names, Copy(w) PROVE TypeOK' /\ Batches'
    BY <1>6 DEF Copy, TypeOK
<1>7. ASSUME NEW w \in Names, Fail(w) PROVE TypeOK' /\ Batches'
    BY <1>7 DEF Fail, TypeOK
<1>8. ASSUME NEW w \in Names, MainWrites(w) PROVE TypeOK' /\ Batches'
    <2>1. Append(queue[w], "row") \in Seq(Messages)
        BY <1>0, QueueTypes DEF Messages
    <2>2. queue' \in [Names -> Seq({"row", "END"})]
        BY <1>8, <2>1 DEF MainWrites, TypeOK, Messages
    <2>3. due' \in [Names -> Nat]
        <3>1. due[w] + 1 \in Nat
            BY DEF TypeOK
        <3> QED
            BY <1>8, <3>1 DEF MainWrites, TypeOK
    <2> QED
        BY <1>8, <2>2, <2>3 DEF MainWrites, TypeOK
<1>9. CASE CallbackAdds
    BY <1>9 DEF CallbackAdds, TypeOK
<1>10. CASE CallbackWrites
    <2>0. "mem" \in Names
        BY ThreeNames
    <2>1. Append(queue["mem"], "row") \in Seq(Messages)
        BY <1>0, <2>0, QueueTypes DEF Messages
    <2>2. queue' \in [Names -> Seq({"row", "END"})]
        BY <1>10, <2>1 DEF CallbackWrites, TypeOK, Messages
    <2>3. due' \in [Names -> Nat]
        <3>1. due["mem"] + 1 \in Nat
            BY <2>0 DEF TypeOK
        <3> QED
            BY <1>10, <3>1 DEF CallbackWrites, TypeOK
    <2>4. segments' \in 0 .. MaxSegments
        BY <1>10 DEF CallbackWrites, TypeOK
    <2> QED
        BY <1>10, <2>2, <2>3, <2>4 DEF CallbackWrites, TypeOK
<1>11. CASE RecordFails \/ ChildEnds
    BY <1>11 DEF RecordFails, ChildEnds, TypeOK
<1>12. CASE Finish
    <2>1. Workers[turn] \in Names
        BY ThreeNames DEF TypeOK
    <2>2. Append(queue[Workers[turn]], "END") \in Seq(Messages)
        BY <1>0, <2>1, QueueTypes DEF Messages
    <2>3. queue' \in [Names -> Seq({"row", "END"})]
        BY <1>12, <2>1, <2>2 DEF Finish, TypeOK, Messages
    <2> QED
        BY <1>12, <2>3 DEF Finish, TypeOK
<1>13. CASE Join
    <2>1. Workers[turn] \in Names
        BY ThreeNames DEF TypeOK
    <2>2. turn = 3 \/ turn + 1 \in 1 .. 3
        BY DEF TypeOK
    <2>3. destroyed' \in [Names -> BOOLEAN]
        BY <1>13, <2>1 DEF Join, TypeOK
    <2>4. /\ turn' \in 1 .. 3
          /\ pc' \in {"bpf", "finish", "join"} /\ result' \in {"none", "FAILURE"}
          /\ UNCHANGED <<stop, queue, due, workers, segments>>
        BY <1>13, <2>1, <2>2 DEF Join, TypeOK, Alive
    <2> QED
        BY <2>3, <2>4 DEF TypeOK
<1>14. CASE BpfStop \/ StoreSignal
    BY <1>14 DEF BpfStop, StoreSignal, TypeOK
<1>15. CASE UNCHANGED vars
    BY <1>15 DEF vars, TypeOK
<1> QED
    BY <1>1, <1>2, <1>3, <1>4, <1>5, <1>6, <1>7, <1>8, <1>9, <1>10, <1>11, <1>12,
       <1>13, <1>14, <1>15
    DEF Next, Worker, Works, Callback, MainFinishes, Over
-----------------------------------------------------------------------------
(* The accounts *)

\* What a step does not touch stays accounted for.
LEMMA AccountFrame ==
    ASSUME NEW v \in Names, Account(v), Sent(v)' = Sent(v),
           queue'[v] = queue[v], state'[v] = state[v], pending'[v] = pending[v],
           committed'[v] = committed[v], stored'[v] = stored[v], due'[v] = due[v]
    PROVE  Account(v)'
    BY DEF Account

\* A row goes from the channel to the transaction (db_workers.c:104).
LEMMA InsertAccount ==
    ASSUME TypeOK, NEW w \in Names, Account(w), Insert(w)
    PROVE  Account(w)'
<1> DEFINE q == queue[w]
<1>1. q \in Seq(Messages) /\ q # <<>> /\ Head(q) = "row"
    BY DEF TypeOK, Insert, Messages
<1>2. /\ Len(q) \in Nat /\ Len(q) > 0 /\ q[1] = "row" /\ Len(Tail(q)) = Len(q) - 1
      /\ \A j \in 1 .. Len(q) - 1 : Tail(q)[j] = q[j + 1]
    BY <1>1
<1>3. /\ queue'[w] = Tail(q) /\ pending'[w] = pending[w] + 1
      /\ state[w] = "read" /\ state'[w] \in {"read", "commit"}
      /\ UNCHANGED <<pc, turn, due, committed, stored>>
    BY DEF Insert, TypeOK, main, Become
<1>4. pending[w] \in Nat /\ committed[w] \in Nat /\ due[w] \in Nat
    BY DEF TypeOK
<1>5. Sent(w)' = Sent(w)
    BY <1>3 DEF Sent
<1>6. ASSUME ~Sent(w)
      PROVE  /\ Rows(queue'[w], Len(queue'[w]))
             /\ due[w] = Len(queue'[w]) + (pending[w] + 1) + committed[w]
    <2>1. Rows(q, Len(q)) /\ due[w] = Len(q) + pending[w] + committed[w]
        BY <1>6 DEF Account
    <2>2. Rows(Tail(q), Len(q) - 1)
        BY <1>2, <2>1 DEF Rows
    <2>3. Len(queue'[w]) = Len(q) - 1 /\ Rows(queue'[w], Len(queue'[w]))
        BY <1>2, <1>3, <2>2
    <2>4. PICK n \in Nat, p \in Nat, c \in Nat : n = Len(q) /\ p = pending[w] /\ c = committed[w]
        BY <1>2, <1>4
    <2>5. (n - 1) + (p + 1) + c = n + p + c
        OBVIOUS
    <2> QED
        BY <2>1, <2>3, <2>4, <2>5
<1>7. ASSUME Sent(w)
      PROVE  \E k \in 1 .. Len(queue'[w]) :
                EndAt(queue'[w], k) /\ due[w] = (k - 1) + (pending[w] + 1) + committed[w]
    <2>1. PICK k \in 1 .. Len(q) :
             EndAt(q, k) /\ due[w] = (k - 1) + pending[w] + committed[w]
        BY <1>3, <1>7 DEF Account, Reading
    <2>2. k # 1
        BY <1>2, <2>1 DEF EndAt
    <2>3. k - 1 \in 1 .. Len(q) - 1 /\ (k - 1) + 1 = k
        BY <1>2, <2>2
    <2>4. Tail(q)[k - 1] = "END"
        BY <1>2, <2>1, <2>3 DEF EndAt
    <2>5. \A j \in 1 .. (k - 1) - 1 : j \in 1 .. Len(q) - 1 /\ j + 1 \in 1 .. k - 1
        BY <1>2, <2>3
    <2>6. Rows(Tail(q), (k - 1) - 1)
        BY <1>2, <2>1, <2>5 DEF EndAt, Rows
    <2>7. EndAt(queue'[w], k - 1) /\ k - 1 \in 1 .. Len(queue'[w])
        BY <1>2, <1>3, <2>3, <2>4, <2>6 DEF EndAt
    <2>8. due[w] = ((k - 1) - 1) + (pending[w] + 1) + committed[w]
        <3>1. PICK p \in Nat, c \in Nat : p = pending[w] /\ c = committed[w]
            BY <1>4
        <3>2. (k - 1) + p + c = ((k - 1) - 1) + (p + 1) + c
            BY <1>2
        <3> QED
            BY <2>1, <3>1, <3>2
    <2> QED
        BY <2>7, <2>8
<1>8. w = "step" => stored[w] = committed[w]
    BY DEF Account
<1> QED
    BY <1>3, <1>5, <1>6, <1>7, <1>8 DEF Account, Reading, Closing

\* COMMIT loses no row; the step worker's rows are in the main database with it.
LEMMA CommitAccount ==
    ASSUME TypeOK, NEW w \in Names, Account(w), Commit(w) \/ FinalCommit(w)
    PROVE  Account(w)'
<1>1. /\ committed'[w] = committed[w] + pending[w] /\ pending'[w] = 0
      /\ stored'[w] = IF w = "step" THEN stored[w] + pending[w] ELSE stored[w]
      /\ UNCHANGED <<pc, turn, queue, due>>
      /\ \/ state[w] = "commit" /\ state'[w] = "read"
         \/ state[w] = "final" /\ w = "step" /\ state'[w] = "done"
         \/ state[w] = "final" /\ w # "step" /\ state'[w] = "copy"
    BY DEF Commit, FinalCommit, CommitRows, TypeOK, main, channels, Become
<1>2. /\ pending[w] \in Nat /\ committed[w] \in Nat /\ due[w] \in Nat /\ stored[w] \in Nat
      /\ Len(queue[w]) \in Nat
    BY DEF TypeOK
<1>3. /\ \A n \in Int : n + pending'[w] + committed'[w] = n + pending[w] + committed[w]
      /\ pending'[w] + committed'[w] = pending[w] + committed[w]
    <2>1. PICK p \in Nat, c \in Nat : p = pending[w] /\ c = committed[w]
        BY <1>2
    <2>2. (\A n \in Int : n + 0 + (c + p) = n + p + c) /\ 0 + (c + p) = p + c
        OBVIOUS
    <2> QED
        BY <1>1, <2>1, <2>2
<1>4. Sent(w)' = Sent(w)
    BY <1>1 DEF Sent
<1>5. w = "step" => stored'[w] = committed'[w]
    BY <1>1, <1>2 DEF Account
<1>6. ~Sent(w) => /\ state'[w] \in Reading /\ Rows(queue[w], Len(queue[w]))
                  /\ due[w] = Len(queue[w]) + pending'[w] + committed'[w]
    <2>1. Len(queue[w]) \in Int
        BY <1>2
    <2>2. Len(queue[w]) + pending'[w] + committed'[w] = Len(queue[w]) + pending[w] + committed[w]
        BY <1>3, <2>1
    <2> QED
        BY <1>1, <2>2 DEF Account, Reading
<1>7. ASSUME Sent(w), state'[w] \in Reading
      PROVE  \E k \in 1 .. Len(queue[w]) :
                EndAt(queue[w], k) /\ due[w] = (k - 1) + pending'[w] + committed'[w]
    <2>1. PICK k \in 1 .. Len(queue[w]) :
             EndAt(queue[w], k) /\ due[w] = (k - 1) + pending[w] + committed[w]
        BY <1>1, <1>7 DEF Account, Reading
    <2>2. k - 1 \in Int
        BY <1>2
    <2> QED
        BY <1>3, <2>1, <2>2
<1>8. state'[w] \in Closing => due[w] = pending'[w] + committed'[w]
    BY <1>1, <1>3 DEF Account, Reading, Closing
<1> QED
    BY <1>1, <1>4, <1>5, <1>6, <1>7, <1>8 DEF Account, Reading, Closing

\* At the END message all rows before it have been read (db_workers.c:104).
LEMMA EndAccount ==
    ASSUME TypeOK, NEW w \in Names, Account(w), End(w)
    PROVE  Account(w)'
<1> DEFINE q == queue[w]
<1>1. /\ q \in Seq(Messages) /\ q # <<>> /\ Head(q) = "END"
      /\ state[w] = "read" /\ state'[w] = "final"
      /\ UNCHANGED <<pc, turn, due, pending, committed, stored>>
    BY DEF TypeOK, End, Messages, main, Become
<1>2. Len(q) \in Nat /\ Len(q) > 0 /\ q[1] = "END"
    BY <1>1
<1>3. Sent(w)
    BY <1>2 DEF Account, Rows
<1>4. PICK k \in 1 .. Len(q) :
         EndAt(q, k) /\ due[w] = (k - 1) + pending[w] + committed[w]
    BY <1>1, <1>3 DEF Account, Reading
<1>5. k = 1
    <2> SUFFICES ASSUME k # 1 PROVE FALSE
        OBVIOUS
    <2>1. 1 \in 1 .. k - 1
        BY <1>2
    <2> QED
        BY <1>2, <1>4, <2>1 DEF EndAt, Rows
<1>6. due[w] = pending[w] + committed[w]
    BY <1>4, <1>5 DEF TypeOK
<1>7. Sent(w)'
    BY <1>1, <1>3 DEF Sent
<1> QED
    BY <1>1, <1>6, <1>7 DEF Account, Reading, Closing

\* A row is written before END (run.c:546).
LEMMA WriteAccount ==
    ASSUME TypeOK, NEW w \in Names, Account(w), ~Sent(w),
           queue'[w] = Append(queue[w], "row"), due'[w] = due[w] + 1,
           UNCHANGED <<pc, turn, workers>>
    PROVE  Account(w)'
<1>1. ~Sent(w)' /\ UNCHANGED <<state, pending, committed, stored>>
    BY DEF Sent, workers
<1>2. /\ queue[w] \in Seq(Messages) /\ pending[w] \in Nat /\ committed[w] \in Nat
      /\ due[w] \in Nat
    BY DEF TypeOK, Messages
<1>3. /\ Len(queue'[w]) = Len(queue[w]) + 1 /\ Len(queue[w]) \in Nat
      /\ \A j \in 1 .. Len(queue[w]) : queue'[w][j] = queue[w][j]
      /\ queue'[w][Len(queue[w]) + 1] = "row"
    BY <1>2
<1>4. Rows(queue'[w], Len(queue'[w]))
    BY <1>3 DEF Account, Rows
<1>5. due'[w] = Len(queue'[w]) + pending[w] + committed[w]
    BY <1>2, <1>3 DEF Account
<1> QED
    BY <1>1, <1>4, <1>5 DEF Account, Reading, Closing

\* A row that comes after END changes nothing for the rows before it.
LEMMA LateAccount ==
    ASSUME TypeOK, NEW w \in Names, Account(w), Sent(w),
           queue'[w] = Append(queue[w], "row"), due'[w] = due[w],
           UNCHANGED <<pc, turn, workers>>
    PROVE  Account(w)'
<1>1. Sent(w)' /\ UNCHANGED <<state, pending, committed, stored>>
    BY DEF Sent, workers
<1>2. queue[w] \in Seq(Messages)
    BY DEF TypeOK, Messages
<1>3. /\ Len(queue'[w]) = Len(queue[w]) + 1 /\ Len(queue[w]) \in Nat
      /\ \A j \in 1 .. Len(queue[w]) : queue'[w][j] = queue[w][j]
    BY <1>2
<1>4. ASSUME state[w] \in Reading
      PROVE  \E k \in 1 .. Len(queue'[w]) :
                EndAt(queue'[w], k) /\ due[w] = (k - 1) + pending[w] + committed[w]
    <2>1. PICK k \in 1 .. Len(queue[w]) :
             EndAt(queue[w], k) /\ due[w] = (k - 1) + pending[w] + committed[w]
        BY <1>4 DEF Account
    <2>2. EndAt(queue'[w], k) /\ k \in 1 .. Len(queue'[w])
        BY <1>3, <2>1 DEF EndAt, Rows
    <2> QED
        BY <2>1, <2>2
<1> QED
    BY <1>1, <1>4 DEF Account

\* ch_finish() marks the end of the rows that are due.
LEMMA FinishAccount ==
    ASSUME TypeOK, NEW w \in Names, Account(w), ~Sent(w), Sent(w)',
           queue'[w] = Append(queue[w], "END"), UNCHANGED <<due, workers>>
    PROVE  Account(w)'
<1>1. UNCHANGED <<state, pending, committed, stored>>
    BY DEF workers
<1>2. queue[w] \in Seq(Messages)
    BY DEF TypeOK, Messages
<1>3. /\ Len(queue'[w]) = Len(queue[w]) + 1 /\ Len(queue[w]) \in Nat
      /\ \A j \in 1 .. Len(queue[w]) : queue'[w][j] = queue[w][j]
      /\ queue'[w][Len(queue[w]) + 1] = "END"
    BY <1>2
<1>4. EndAt(queue'[w], Len(queue'[w]))
    BY <1>3 DEF Account, EndAt, Rows
<1>5. due[w] = (Len(queue'[w]) - 1) + pending[w] + committed[w]
    BY <1>3 DEF Account
<1>6. Len(queue'[w]) \in 1 .. Len(queue'[w])
    BY <1>3
<1> QED
    BY <1>1, <1>4, <1>5, <1>6 DEF Account, Reading, Closing
\* A step of worker w leaves the others, the channels' ends and the main thread alone.
LEMMA WorkerFrame ==
    ASSUME TypeOK, NEW w \in Names, Worker(w)
    PROVE  /\ UNCHANGED <<pc, turn, stop, result, due, destroyed, segments>>
           /\ state[w] \notin {"done", "failed"}
           /\ \A v \in Names \ {w} :
                 /\ queue'[v] = queue[v] /\ state'[v] = state[v] /\ pending'[v] = pending[v]
                 /\ committed'[v] = committed[v] /\ stored'[v] = stored[v]
<1> USE DEF TypeOK, main, channels, workers, Become
<1>1. CASE Start(w)
    BY <1>1 DEF Start
<1>2. CASE Insert(w)
    BY <1>2 DEF Insert
<1>3. CASE Commit(w)
    BY <1>3 DEF Commit, CommitRows
<1>4. CASE End(w)
    BY <1>4 DEF End
<1>5. CASE FinalCommit(w)
    BY <1>5 DEF FinalCommit, CommitRows
<1>6. CASE Copy(w)
    BY <1>6 DEF Copy
<1>7. CASE Fail(w)
    BY <1>7 DEF Fail
<1> QED
    BY <1>1, <1>2, <1>3, <1>4, <1>5, <1>6, <1>7 DEF Worker, Works

\* A worker's step keeps its own account, unless it fails.
LEMMA WorkerAccount ==
    ASSUME TypeOK, NEW w \in Names, Account(w), Worker(w), state'[w] # "failed"
    PROVE  Account(w)'
<1>1. CASE Start(w)
    <2>1. /\ state[w] = "start" /\ state'[w] = "read"
          /\ UNCHANGED <<pc, turn, queue, due, pending, committed, stored>>
        BY <1>1 DEF Start, TypeOK, main, channels, Become
    <2>2. Sent(w)' = Sent(w)
        BY <2>1 DEF Sent
    <2> QED
        BY <2>1, <2>2 DEF Account, Reading, Closing
<1>2. CASE Insert(w)
    BY <1>2, InsertAccount
<1>3. CASE Commit(w) \/ FinalCommit(w)
    BY <1>3, CommitAccount
<1>4. CASE End(w)
    BY <1>4, EndAccount
<1>5. CASE Copy(w)
    <2>1. /\ state[w] = "copy" /\ state'[w] = "done" /\ stored'[w] = committed[w]
          /\ UNCHANGED <<pc, turn, queue, due, pending, committed>>
        BY <1>5 DEF Copy, TypeOK, main, channels, Become
    <2>2. Sent(w)' = Sent(w)
        BY <2>1 DEF Sent
    <2> QED
        BY <2>1, <2>2 DEF Account, Reading, Closing
<1>6. CASE Fail(w)
    BY <1>6 DEF Fail, Become, TypeOK
<1> QED
    BY <1>1, <1>2, <1>3, <1>4, <1>5, <1>6 DEF Worker, Works

\* A step of the main thread that writes to no channel moves no END.
LEMMA QuietAccounts ==
    ASSUME Accounts, UNCHANGED <<queue, due, workers>>, \A v \in Names : Sent(v)' = Sent(v)
    PROVE  Accounts'
<1> SUFFICES ASSUME NEW v \in Names, state'[v] # "failed" PROVE Account(v)'
    BY DEF Accounts
<1>1. UNCHANGED <<state, pending, committed, stored>> /\ Account(v)
    BY DEF workers, Accounts
<1> QED
    BY <1>1, AccountFrame

\* Every step keeps the accounts of the workers.
LEMMA AccountsStep ==
    ASSUME TypeOK, Accounts, Joined, [Next]_vars
    PROVE  Accounts'
<1>0. \A v \in Names : Rank(v) \in 1 .. 3
    BY ThreeNames
<1>1. ASSUME NEW w \in Names, Worker(w) PROVE Accounts'
    <2> SUFFICES ASSUME NEW v \in Names, state'[v] # "failed" PROVE Account(v)'
        BY DEF Accounts
    <2>1. CASE v = w
        BY <1>1, <2>1, WorkerFrame, WorkerAccount DEF Accounts
    <2>2. CASE v # w
        <3>1. /\ UNCHANGED <<pc, turn, due>>
              /\ queue'[v] = queue[v] /\ state'[v] = state[v] /\ pending'[v] = pending[v]
              /\ committed'[v] = committed[v] /\ stored'[v] = stored[v]
            BY <1>1, <2>2, WorkerFrame
        <3>2. Account(v) /\ Sent(v)' = Sent(v)
            BY <3>1 DEF Accounts, Sent
        <3> QED
            BY <3>1, <3>2, AccountFrame
    <2> QED
        BY <2>1, <2>2
<1>2. ASSUME NEW w \in Names, MainWrites(w) PROVE Accounts'
    <2>1. /\ queue' = [queue EXCEPT ![w] = Append(@, "row")] /\ due' = [due EXCEPT ![w] = @ + 1]
          /\ pc = "record" /\ UNCHANGED <<pc, turn, workers>>
        BY <1>2 DEF MainWrites, main
    <2> SUFFICES ASSUME NEW v \in Names, state'[v] # "failed" PROVE Account(v)'
        BY DEF Accounts
    <2>2. Account(v) /\ ~Sent(v) /\ Sent(v)' = Sent(v)
        BY <2>1 DEF Accounts, Sent, workers
    <2>3. CASE v = w
        BY <2>1, <2>2, <2>3, WriteAccount DEF TypeOK
    <2>4. CASE v # w
        BY <2>1, <2>2, <2>4, AccountFrame DEF TypeOK, workers
    <2> QED
        BY <2>3, <2>4
<1>3. CASE CallbackAdds
    <2>1. UNCHANGED <<pc, turn, queue, due, workers>>
        BY <1>3 DEF CallbackAdds, main, channels
    <2> QED
        BY <2>1, QuietAccounts DEF Sent
<1>4. CASE CallbackWrites
    <2>1. /\ queue' = [queue EXCEPT !["mem"] = Append(@, "row")]
          /\ due' = IF turn = 3 /\ pc # "finish" THEN due ELSE [due EXCEPT !["mem"] = @ + 1]
          /\ UNCHANGED <<pc, turn, workers>>
        BY <1>4 DEF CallbackWrites, main
    <2> SUFFICES ASSUME NEW v \in Names, state'[v] # "failed" PROVE Account(v)'
        BY DEF Accounts
    <2>2. Account(v) /\ Sent(v)' = Sent(v)
        BY <2>1 DEF Accounts, Sent, workers
    <2>3. Sent("mem") <=> turn = 3 /\ pc # "finish"
        BY DEF Sent, Rank, Joined, TypeOK
    <2>4. CASE v = "mem" /\ Sent(v)
        BY <2>1, <2>2, <2>3, <2>4, LateAccount DEF TypeOK
    <2>5. CASE v = "mem" /\ ~Sent(v)
        BY <2>1, <2>2, <2>3, <2>5, WriteAccount DEF TypeOK
    <2>6. CASE v # "mem"
        BY <2>1, <2>2, <2>6, AccountFrame DEF TypeOK, workers
    <2> QED
        BY <2>4, <2>5, <2>6
<1>5. CASE RecordFails
    <2>1. UNCHANGED <<pc, turn, queue, due, workers>>
        BY <1>5 DEF RecordFails, channels
    <2> QED
        BY <2>1, QuietAccounts DEF Sent
<1>6. CASE ChildEnds
    <2>1. pc = "record" /\ pc' = "finish" /\ turn' = 1 /\ UNCHANGED <<queue, due, workers>>
        BY <1>6 DEF ChildEnds, channels, Joined
    <2>2. \A v \in Names : Sent(v)' = Sent(v)
        BY <1>0, <2>1 DEF Sent
    <2> QED
        BY <2>1, <2>2, QuietAccounts
<1>7. CASE Finish
    <2> DEFINE w == Workers[turn]
    <2>1. /\ queue' = [queue EXCEPT ![w] = Append(@, "END")] /\ pc = "finish" /\ pc' = "join"
          /\ UNCHANGED <<turn, due, workers>>
        BY <1>7 DEF Finish
    <2>2. w \in Names /\ Rank(w) = turn /\ turn \in 1 .. 3
        BY ThreeNames DEF TypeOK
    <2> SUFFICES ASSUME NEW v \in Names, state'[v] # "failed" PROVE Account(v)'
        BY DEF Accounts
    <2>3. Account(v)
        BY <2>1 DEF Accounts, workers
    <2>4. CASE v = w
        <3>1. ~Sent(v) /\ Sent(v)'
            BY <2>1, <2>2, <2>4 DEF Sent
        <3> QED
            BY <2>1, <2>3, <2>4, <3>1, FinishAccount DEF TypeOK
    <2>5. CASE v # w
        <3>1. Rank(v) # turn
            BY <2>5, ThreeNames
        <3>2. Sent(v)' = Sent(v)
            BY <2>1, <3>1 DEF Sent
        <3> QED
            BY <2>1, <2>3, <2>5, <3>2, AccountFrame DEF TypeOK, workers
    <2> QED
        BY <2>4, <2>5
<1>8. CASE Join
    <2>1. /\ pc = "join" /\ UNCHANGED <<queue, due, workers>>
          /\ \/ turn = 3 /\ pc' = "bpf" /\ turn' = 3
             \/ turn # 3 /\ pc' = "finish" /\ turn' = turn + 1
             \/ pc' = pc /\ turn' = turn
        BY <1>8 DEF Join
    <2>2. \A v \in Names : Sent(v)' = Sent(v)
        <3> TAKE v \in Names
        <3>1. Rank(v) \in 1 .. 3 /\ turn \in 1 .. 3
            BY <1>0 DEF TypeOK
        <3> QED
            BY <2>1, <3>1 DEF Sent
    <2> QED
        BY <2>1, <2>2, QuietAccounts
<1>9. CASE BpfStop \/ StoreSignal
    <2>1. UNCHANGED <<turn, queue, due, workers>> /\ (pc' = pc \/ (pc = "bpf" /\ pc' = "signal"))
        BY <1>9 DEF BpfStop, StoreSignal, channels
    <2> QED
        BY <2>1, QuietAccounts DEF Sent
<1>10. CASE UNCHANGED vars
    BY <1>10, QuietAccounts DEF vars, main, channels, Sent
<1> QED
    BY <1>1, <1>2, <1>3, <1>4, <1>5, <1>6, <1>7, <1>8, <1>9, <1>10
    DEF Next, Callback, MainFinishes, Over

\* The main thread goes on to the next worker when one has done its work (run.c:249).
LEMMA JoinedStep ==
    ASSUME TypeOK, Joined, [Next]_vars
    PROVE  Joined'
<1>1. ASSUME NEW w \in Names, Worker(w) PROVE Joined'
    BY <1>1, WorkerFrame DEF Joined
<1>2. CASE \/ \E w \in Names : MainWrites(w)
           \/ Callback \/ RecordFails
    BY <1>2 DEF MainWrites, Callback, CallbackAdds, CallbackWrites, RecordFails, Joined, main,
                workers
<1>3. CASE ChildEnds \/ Finish
    BY <1>3 DEF ChildEnds, Finish, Joined, workers
<1>4. CASE Join
    <2> DEFINE w == Workers[turn]
    <2>1. w \in Names /\ Rank(w) = turn /\ turn \in 1 .. 3
        BY ThreeNames DEF TypeOK
    <2>2. \A v \in Names : Rank(v) \in 1 .. 3 /\ (Rank(v) = turn => v = w)
        BY ThreeNames
    <2>3. CASE /\ state[w] = "done" /\ result' = result /\ state' = state
               /\ pc' = (IF turn = 3 THEN "bpf" ELSE "finish")
               /\ turn' = (IF turn = 3 THEN 3 ELSE turn + 1)
        <3>1. \A v \in Names : Rank(v) <= turn => state[v] = "done"
            BY <2>1, <2>2, <2>3 DEF Joined
        <3>2. \A v \in Names : Rank(v) < turn' \/ pc' \in {"bpf", "signal"} => state'[v] = "done"
            BY <2>1, <2>2, <2>3, <3>1
        <3> QED
            BY <1>4, <2>3, <3>2 DEF Joined, Join, Alive
    <2>4. CASE result' = "FAILURE" /\ UNCHANGED <<pc, turn, state>>
        BY <2>4 DEF Joined
    <2> QED
        BY <1>4, <2>3, <2>4 DEF Join, workers
<1>5. CASE BpfStop \/ StoreSignal
    BY <1>5 DEF BpfStop, StoreSignal, Joined, workers, Alive
<1>6. CASE UNCHANGED vars
    BY <1>6 DEF vars, main, workers, Joined
<1> QED
    BY <1>1, <1>2, <1>3, <1>4, <1>5, <1>6 DEF Next, MainFinishes, Over

-----------------------------------------------------------------------------
(* The theorems *)

\* The invariant of record()'s end holds in every state, for all batch sizes.
LEMMA WorkersInvariant == Spec => []WorkersInv
<1>1. WorkersInv /\ [Next]_vars => WorkersInv'
    BY TypeStep, AccountsStep, JoinedStep DEF WorkersInv
<1> QED
    BY <1>1, InitInv, PTL DEF Spec

\* Type correctness of the workers and of record()'s end.
THEOREM WorkersTypes == Spec => []TypeOK
<1>1. WorkersInv => TypeOK
    BY DEF WorkersInv
<1> QED
    BY <1>1, WorkersInvariant, PTL

\* When record() succeeds, every row written to a channel before its END is in the
\* main database, whatever the batch size and wherever the last batch ends
\* (db_workers.c:127 and the commit after the loop, db_workers.c:138).
THEOREM SuccessfulRecordingIsComplete == Spec => []SuccessIsComplete
<1>1. WorkersInv => SuccessIsComplete
    <2> SUFFICES ASSUME WorkersInv, result = "SUCCESS" PROVE stored = due
        BY DEF SuccessIsComplete
    <2>1. \A w \in Names : state[w] = "done"
        BY DEF WorkersInv, Joined
    <2>2. \A w \in Names :
             /\ due[w] = pending[w] + committed[w] /\ pending[w] = 0
             /\ stored[w] = committed[w] /\ committed[w] \in Nat
        BY <2>1 DEF WorkersInv, Accounts, Account, Closing, TypeOK
    <2>3. \A w \in Names : stored[w] = due[w]
        BY <2>2
    <2> QED
        BY <2>3 DEF WorkersInv, TypeOK
<1> QED
    BY <1>1, WorkersInvariant, PTL

\* The main database never has two writers, and none when record() opens it again to
\* store the signal (run.c:249 and run.c:260).
THEOREM MainDatabaseHasOneWriter == Spec => []OneWriter
<1>1. WorkersInv => OneWriter
    <2> SUFFICES ASSUME WorkersInv
                 PROVE  /\ Cardinality(WritesMainDb) <= 1
                        /\ pc = "signal" => WritesMainDb = {}
        BY DEF OneWriter
    <2>1. ASSUME NEW w \in Names, state[w] = "copy" PROVE Rank(w) <= turn /\ w # "step"
        <3>1. Account(w)
            BY <2>1 DEF WorkersInv, Accounts
        <3>2. Sent(w) /\ w # "step"
            BY <2>1, <3>1 DEF Account, Reading
        <3>3. Rank(w) \in 1 .. 3 /\ turn \in 1 .. 3
            BY ThreeNames DEF WorkersInv, TypeOK
        <3> QED
            BY <3>2, <3>3 DEF Sent
    <2>2. \A w \in Names : Rank(w) < turn => state[w] = "done"
        BY DEF WorkersInv, Joined
    <2>3. \A v \in WritesMainDb : v \in Names /\ state[v] # "done" /\ Rank(v) \in 1 .. 3
        BY ThreeNames DEF WritesMainDb
    <2>4. \A v \in WritesMainDb : Rank(v) = turn
        <3> TAKE v \in WritesMainDb
        <3>1. turn \in 1 .. 3
            BY DEF WorkersInv, TypeOK
        <3>2. ~(Rank(v) < turn)
            BY <2>2, <2>3
        <3>3. CASE v = "step"
            BY <2>3, <3>1, <3>2, <3>3 DEF Rank
        <3>4. CASE v # "step"
            <4>1. state[v] = "copy"
                BY <3>4 DEF WritesMainDb
            <4> QED
                BY <2>1, <2>3, <3>1, <3>2, <4>1
        <3> QED
            BY <3>3, <3>4
    <2>5. WritesMainDb \subseteq {Workers[turn]}
        BY <2>3, <2>4, ThreeNames
    <2>6. WritesMainDb = {} \/ WritesMainDb = {Workers[turn]}
        BY <2>5
    <2>7. Cardinality(WritesMainDb) = 0 \/ Cardinality(WritesMainDb) = 1
        BY <2>6, FS_EmptySet, FS_Singleton
    <2>8. pc = "signal" => WritesMainDb = {}
        BY <2>3 DEF WorkersInv, Joined
    <2> QED
        BY <2>7, <2>8
<1> QED
    BY <1>1, WorkersInvariant, PTL
=============================================================================
