\* Two writers and the reader, in both of the ways the recorder reads: a
\* database worker (blocking, ended by ch_finish() and ch_destroy(), or by a
\* message of the wrong size) and proc_dirty_mem() (draining, again and again).
CONSTANTS
    Writers = {"main", "bpf"}
    Owner = "main"
    Reader = "worker"
    NoThread = "none"
    Payloads <- MCPayloads
    Sizes <- MCSizes
    Expected = 8
    ReadFlags = {"block", "nonblock"}
    MaxData = 3
SPECIFICATION FairSpec
INVARIANTS NoBadDereference SemaphoreExact ChannelInv
PROPERTIES ImplementsFifo EveryMessageIsRead
