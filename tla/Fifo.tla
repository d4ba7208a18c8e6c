------------------------------- MODULE Fifo -------------------------------
(***************************************************************************)
(* What a channel of record/channel.c promises to its callers: messages    *)
(* are put at the end of a log by ch_write(), and the only reader takes    *)
(* each of them once, in the order of the log.  `taken' counts the         *)
(* messages the reader has taken and `out' is the last one it received.    *)
(* The linked list, the mutex and the semaphore of the implementation are  *)
(* in module Channel, which is shown to implement this specification.      *)
(***************************************************************************)
EXTENDS Naturals, Sequences

CONSTANTS
    Message,    \* what can be written
    NoMessage   \* value of `out' before the first read

VARIABLES
    log,        \* every message written so far, oldest first
    taken,      \* how many of them the reader has taken
    out,        \* the message taken last
    closed      \* ch_destroy() was called

vars == <<log, taken, out, closed>>

Init ==
    /\ log = <<>>
    /\ taken = 0
    /\ out = NoMessage
    /\ closed = FALSE

\* ch_write() and ch_finish() append to the log.
Put(m) ==
    /\ ~closed
    /\ log' = Append(log, m)
    /\ UNCHANGED <<taken, out, closed>>

\* ch_read() hands over the oldest message that was not taken yet.
Take ==
    /\ ~closed
    /\ taken < Len(log)
    /\ taken' = taken + 1
    /\ out' = log[taken + 1]
    /\ UNCHANGED <<log, closed>>

\* ch_destroy() drops whatever was not taken.
Close ==
    /\ ~closed
    /\ closed' = TRUE
    /\ UNCHANGED <<log, taken, out>>

Next == (\E m \in Message : Put(m)) \/ Take \/ Close

Spec == Init /\ [][Next]_vars
=============================================================================
