------------------------------ MODULE Examine ------------------------------
(***************************************************************************)
(* The debug server fr_examine (examine/examine.c, examine/requests.c): it *)
(* opens a recording and answers the requests of an IDE, one at a time, by *)
(* moving a current position over the recorded steps, forwards and         *)
(* backwards.                                                              *)
(*                                                                         *)
(* A recording is the sequence of the statements whose breakpoints the     *)
(* client program hit; the depth of every step is the one the recorder     *)
(* stores with it.  A request is one action: the server reads no other     *)
(* request before it has answered.  The IDE keeps to the protocol: it asks *)
(* for nothing but `initialize' before a launch has succeeded, and         *)
(* launches once per connection.                                           *)
(*                                                                         *)
(* Abstractions: one row of table `statement' per address; the values of   *)
(* variables are left out, what matters is the step they are taken from.   *)
(***************************************************************************)
EXTENDS Integers, Sequences, FiniteSets, FiniteSetsExt, SequencesExt

CONSTANTS
    Stmts,          \* addresses of the statements of the client program
    Info,           \* their rows in table statement, joined with table file
    Recordings,     \* recordings the IDE may open
    BreakRequests,  \* arguments of setBreakpoints: [file, lines]
    StackRequests,  \* arguments of stackTrace: [start, levels]
    FrameIds,       \* arguments of scopes
    None            \* no file

\* A row of table statement; file_id is what names[file_id] is the name of.
Row == [file : Nat, name : STRING, line : Nat, scope : Nat \ {0},
        func : STRING, flag : {"START", "END", "NONE"}]

ASSUME InfoAssumption == Info \in [Stmts -> Row]

ASSUME RequestAssumption ==
    /\ \A r \in StackRequests : r.start \in Nat /\ r.levels \in Nat
    /\ FrameIds \subseteq Nat

-----------------------------------------------------------------------------
(* The recording: table step.                                               *)

\* The depth stored with step i of recording t: process_breakpoint() counts a
\* function's first statement before it stores the step, and its last one
\* after it.
DepthOf(t, i) ==
      Cardinality({j \in 1 .. i : Info[t[j]].flag = "START"})
    - Cardinality({j \in 1 .. i - 1 : Info[t[j]].flag = "END"})

(***************************************************************************)
(* The calls that are active at every step of t, outermost first, each     *)
(* identified by its first step: what the depths stand for.                *)
(***************************************************************************)
CallsOf(t) ==
    LET calls[i \in 0 .. Len(t)] ==
          IF i = 0 THEN <<>>
          ELSE LET left == IF i > 1 /\ Info[t[i - 1]].flag = "END"
                           THEN Front(calls[i - 1]) ELSE calls[i - 1]
               IN  IF Info[t[i]].flag = "START" THEN Append(left, i) ELSE left
    IN  calls

\* t can be recorded: it enters functions at their first statement, and the
\* other statements belong to the function called last.
Execution(t) ==
    \A i \in 1 .. Len(t) :
        /\ i = 1 => Info[t[i]].flag = "START"
        /\ CallsOf(t)[i] # <<>>
        /\ Info[t[i]].func = Info[t[Last(CallsOf(t)[i])]].func

ASSUME RecordingAssumption ==
    \A r \in Recordings : /\ r.steps \in Seq(Stmts) /\ Execution(r.steps)
                          /\ r.signal \in Nat

-----------------------------------------------------------------------------
VARIABLES
    recording,      \* the open database
    conn,           \* "accept", "connected", "launched"
    cur_step, cur_file, cur_line, cur_depth,    \* the current position
    signum, stop_on_entry,
    breakpoint,     \* table local.breakpoint: <<file_id, line>>
    addbr_failed,   \* the last execution of addbr_cursor failed
    frame_list,     \* the frames of stackTrace
    reply,          \* the last response, with the event that follows it
    \* what the IDE remembers until the next stop
    listed,         \* ids of the frames of the last stackTrace response
    asked,          \* the frame whose scopes it has asked for, and its scope
    located         \* the step of the frame its variables were located in

position == <<cur_step, cur_file, cur_line, cur_depth>>
session == <<signum, stop_on_entry, breakpoint, addbr_failed>>
ide == <<listed, asked, located>>
vars == <<recording, conn, position, session, frame_list, reply, ide>>

Closed == [steps |-> <<>>, signal |-> 0]    \* no database is open

steps == recording.steps
Depth(i) == DepthOf(steps, i)
StmtOf(i) == Info[steps[i]]

\* File name and line of a step: the columns f.name and st.line.
AtOf(t, i) == <<Info[t[i]].name, Info[t[i]].line>>
At(i) == AtOf(steps, i)
Here == <<cur_file, cur_line>>

NoFrame == [id |-> 0, scope |-> 0]      \* 0 is the global scope

Events == {"none", "initialized", "terminated", "entry", "exit",
           "breakpoint", "exception", "step"}

\* build_response(), send_message() and the event that follows.
Answer(command, success, event) ==
    reply' = [command |-> command, success |-> success, event |-> event]

\* A stop makes the IDE forget frames and references.
Forget == listed' = {} /\ asked' = NoFrame /\ located' = 0

Init ==
    /\ recording = Closed
    /\ conn = "accept"
    /\ cur_step = 0 /\ cur_file = None /\ cur_line = 0 /\ cur_depth = 0
    /\ signum = 0
    /\ stop_on_entry = FALSE
    /\ breakpoint = {}
    /\ addbr_failed = FALSE
    /\ frame_list = <<>>
    /\ reply = [command |-> "none", success |-> TRUE, event |-> "none"]
    /\ listed = {} /\ asked = NoFrame /\ located = 0

-----------------------------------------------------------------------------
(* The connection.                                                          *)

\* accept(), then process_init() clears the globals.
Initialize ==
    /\ conn = "accept"
    /\ conn' = "connected"
    /\ cur_step' = 0 /\ cur_file' = None /\ cur_line' = 0 /\ cur_depth' = 0
    /\ signum' = 0
    /\ stop_on_entry' = FALSE
    /\ Answer("initialize", TRUE, "initialized")
    /\ UNCHANGED <<recording, breakpoint, addbr_failed, frame_list, ide>>

MoveIn(t, i, depth) ==
    /\ cur_step' = i
    /\ cur_file' = AtOf(t, i)[1]
    /\ cur_line' = AtOf(t, i)[2]
    /\ cur_depth' = depth
MoveTo(i, depth) == MoveIn(steps, i, depth)

SetFirstStep(t) == MoveIn(t, 1, 1)

\* Mutant: the depth is kept.
MutantSetLastStepKeeps == MoveTo(Len(steps), cur_depth)

SetLastStep == MoveTo(Len(steps), 1)

\* A recording with no steps is refused, with its database already open.
Launch(r) ==
    /\ conn = "connected"
    /\ recording' = r
    /\ stop_on_entry' \in BOOLEAN
    /\ signum' = r.signal
    /\ IF r.steps = <<>>
       THEN /\ conn' = conn
            /\ Answer("launch", FALSE, "none")
            /\ UNCHANGED position
       ELSE /\ conn' = "launched"
            /\ SetFirstStep(r.steps)
            /\ Answer("launch", TRUE, IF stop_on_entry' THEN "entry" ELSE "none")
    /\ UNCHANGED <<breakpoint, addbr_failed, frame_list, ide>>

\* The program or the database cannot be opened.
LaunchFails ==
    /\ conn = "connected"
    /\ stop_on_entry' \in BOOLEAN
    /\ Answer("launch", FALSE, "none")
    /\ UNCHANGED <<recording, conn, position, signum, breakpoint, addbr_failed,
                   frame_list, ide>>

\* release_cursors() and DAB_CLOSE() after `disconnect' or a lost connection.
\* The frame list stays.
Disconnect ==
    /\ conn # "accept"
    /\ conn' = "accept"
    /\ recording' = Closed
    /\ breakpoint' = {}
    /\ addbr_failed' = FALSE
    /\ Answer("disconnect", TRUE, "none")
    /\ Forget
    /\ UNCHANGED <<position, signum, stop_on_entry, frame_list>>

-----------------------------------------------------------------------------
(* Moving over the recording.                                               *)

Running == conn = "launched"

\* The step a query has found, or none: the program is over.
Stop(command, found, i) ==
    /\ IF found
       THEN MoveTo(i, Depth(i)) /\ Answer(command, TRUE, "step")
       ELSE /\ UNCHANGED position
            /\ Answer(command, TRUE,
                      IF signum # 0 THEN "exception" ELSE "terminated")
    /\ Forget
    /\ UNCHANGED <<recording, conn, session, frame_list>>

\* Steps that `next' and `stepBack' may stop at.
OverCalls == {i \in 1 .. Len(steps) : Depth(i) <= cur_depth /\ At(i) # Here}

Next_ ==
    LET rows == {i \in OverCalls : i > cur_step} IN
    Running /\ Stop("next", rows # {}, Min(rows))

StepIn ==
    Running /\ Stop("stepIn", cur_step < Len(steps), cur_step + 1)

\* Mutant: the same depth will do.
MutantStepOutSameDepth ==
    LET rows == {i \in cur_step + 1 .. Len(steps) : Depth(i) <= cur_depth} IN
    /\ Running
    /\ cur_depth > 1
    /\ Stop("stepOut", rows # {}, Min(rows))

StepOut ==
    LET rows == {i \in cur_step + 1 .. Len(steps) : Depth(i) < cur_depth} IN
    /\ Running
    /\ cur_depth > 1
    /\ Stop("stepOut", rows # {}, Min(rows))

\* Already at the top level: an answer and no event.
StepOutOfMain ==
    /\ Running
    /\ cur_depth <= 1
    /\ Answer("stepOut", TRUE, "none")
    /\ UNCHANGED <<recording, conn, position, session, frame_list, ide>>

\* Before the first step there is nothing: `terminated', and a query that
\* finds no row is an error.
StepBack ==
    LET rows == {i \in OverCalls : i < cur_step} IN
    /\ Running
    /\ IF cur_step > 1 /\ rows # {}
       THEN MoveTo(Max(rows), Depth(Max(rows))) /\ Answer("stepBack", TRUE, "step")
       ELSE /\ UNCHANGED position
            /\ IF cur_step > 1 THEN Answer("stepBack", FALSE, "none")
                               ELSE Answer("stepBack", TRUE, "terminated")
    /\ Forget
    /\ UNCHANGED <<recording, conn, session, frame_list>>

\* Steps on a line with a breakpoint.
Breaks == {i \in 1 .. Len(steps) : <<StmtOf(i).file, StmtOf(i).line>> \in breakpoint}

\* Mutant: the lines are not compared.
MutantSkippedNeighbours(from, i) ==
    \A j \in (from + 1 .. i) \cup (i .. from - 1) : j \in Breaks

\* Mutant: any step on the line is skipped, next to the last one or not.
MutantSkippedLine(from, i) == At(i) = At(from)

\* The loop of `continue' goes on while it finds the neighbour of the step it
\* has just seen, on the line it started from (which is At(from) by
\* PositionCoherent): all steps between are such.
Skipped(from, i) ==
    \A j \in (from + 1 .. i) \cup (i .. from - 1) : j \in Breaks /\ At(j) = At(from)

Onward(from) == {i \in Breaks : i > from /\ ~Skipped(from, i)}
Back(from) == {i \in Breaks : i < from /\ ~Skipped(from, i)}

ContinueTo(command) ==
    /\ IF Onward(cur_step) # {}
       THEN LET i == Min(Onward(cur_step)) IN
            MoveTo(i, Depth(i)) /\ Answer(command, TRUE, "breakpoint")
       ELSE SetLastStep /\ Answer(command, TRUE, IF signum # 0 THEN "exception" ELSE "exit")
    /\ Forget
    /\ UNCHANGED <<recording, conn, session, frame_list>>

Continue == Running /\ ContinueTo("continue")

\* configurationDone runs the program unless it has stopped on entry.
ConfigurationDone ==
    /\ Running
    /\ IF stop_on_entry
       THEN /\ Answer("configurationDone", TRUE, "none")
            /\ UNCHANGED <<recording, conn, position, session, frame_list, ide>>
       ELSE ContinueTo("configurationDone")

ReverseContinue ==
    /\ Running
    /\ IF Back(cur_step) # {}
       THEN LET i == Max(Back(cur_step)) IN
            MoveTo(i, Depth(i)) /\ Answer("reverseContinue", TRUE, "breakpoint")
       ELSE SetFirstStep(steps) /\ Answer("reverseContinue", TRUE, "entry")
    /\ Forget
    /\ UNCHANGED <<recording, conn, session, frame_list>>

-----------------------------------------------------------------------------
(* Breakpoints.                                                             *)

\* The lines that insert a row: the ones that were executed.
Stoppable(f) == {StmtOf(i).line : i \in {j \in 1 .. Len(steps) : StmtOf(j).file = f}}

\* The first line of a request that breaks the unique index br_by_line.
Repeated(f, lines) ==
    {i \in DOMAIN lines : lines[i] \in Stoppable(f) /\ \E j \in 1 .. i - 1 : lines[j] = lines[i]}

\* DELETE FROM local.breakpoint WHERE file_id = ?
OfOtherFiles(f) == {b \in breakpoint : b[1] # f}

(***************************************************************************)
(* The breakpoints of a source are replaced.  A line that is named twice   *)
(* ends the request with an error, and with the error still pending in     *)
(* addbr_cursor: the next reset of the cursor reports it (and clears it),  *)
(* which fails the next request that has lines.                            *)
(***************************************************************************)
SetBreakpoints(r) ==
    LET files == {Info[s].file : s \in {x \in Stmts : Info[x].name = r.name}}
        f == Min(files)
        bad == Repeated(f, r.lines)
        until == IF addbr_failed THEN 0
                 ELSE IF bad # {} THEN Min(bad) - 1 ELSE Len(r.lines)
        added == {r.lines[i] : i \in 1 .. until} \cap Stoppable(f)
    IN
    /\ Running
    /\ IF files = {}
       THEN /\ Answer("setBreakpoints", FALSE, "none")
            /\ UNCHANGED <<breakpoint, addbr_failed>>
       ELSE /\ breakpoint' = OfOtherFiles(f) \cup {<<f, l>> : l \in added}
            /\ addbr_failed' = IF addbr_failed THEN r.lines = <<>> ELSE bad # {}
            /\ Answer("setBreakpoints", until = Len(r.lines), "none")
    /\ UNCHANGED <<recording, conn, position, signum, stop_on_entry,
                   frame_list, ide>>

-----------------------------------------------------------------------------
(* Frames and variables.                                                    *)

\* GROUP BY depth ...
FrameDepths == {Depth(i) : i \in 1 .. cur_step} \cap 0 .. cur_depth

\* ... and the last step of every depth, innermost first: the row of a depth
\* is the number of depths from it on.
FrameSteps ==
    LET depths == FrameDepths
        row(d) == Cardinality({e \in depths : e >= d})
    IN  [k \in 1 .. Cardinality(depths) |->
            Max({i \in 1 .. cur_step : Depth(i) \in depths /\ row(Depth(i)) = k})]

\* Mutant: the ids start at -1.
MutantFrames ==
    [k \in DOMAIN FrameSteps |->
        [id |-> k - 2, step |-> FrameSteps[k], scope |-> StmtOf(FrameSteps[k]).scope]]

Frames ==
    [k \in DOMAIN FrameSteps |->
        [id |-> k - 1, step |-> FrameSteps[k], scope |-> StmtOf(FrameSteps[k]).scope]]

\* Mutant: new frames are added at the end of the list.
MutantAppendFrames(new) == frame_list \o new

\* The nodes of the list are reused; the ones past the last row stay.
Overwrite(new) == new \o SubSeq(frame_list, Len(new) + 1, Len(frame_list))

\* Reaching the limit leaves the loop with a row fetched, which is reported
\* as an error.
StackTrace(r) ==
    LET limit == r.start + r.levels
        all == Len(Frames) <= limit
    IN
    /\ Running
    /\ frame_list' = Overwrite(IF all THEN Frames ELSE SubSeq(Frames, 1, limit + 1))
    /\ listed' = IF all THEN r.start .. Len(Frames) - 1 ELSE {}
    /\ asked' = NoFrame
    /\ located' = 0
    /\ Answer("stackTrace", all, "none")
    /\ UNCHANGED <<recording, conn, position, session>>

WithId(id) == {k \in DOMAIN frame_list : frame_list[k].id = id}
WithScope(scope) == {k \in DOMAIN frame_list : frame_list[k].scope = scope}

\* Mutant: the search does not stop at the first frame it finds.
MutantLastFrame(ks) == frame_list[Max(ks)]

FirstFrame(ks) == frame_list[Min(ks)]

\* The reference of the locals is the scope of the frame.
Scopes(id) ==
    /\ Running
    /\ IF WithId(id) = {}
       THEN Answer("scopes", FALSE, "none") /\ UNCHANGED asked
       ELSE /\ Answer("scopes", TRUE, "none")
            /\ asked' = [id |-> id, scope |-> FirstFrame(WithId(id)).scope]
    /\ located' = 0
    /\ UNCHANGED <<recording, conn, position, session, frame_list, listed>>

\* The locals of the frame asked for: the first frame with that scope.  Its step
\* is the one their addresses are computed for (registers and frame base); the
\* values are those of cur_step, for every frame.
Variables ==
    /\ Running
    /\ asked # NoFrame
    /\ IF WithScope(asked.scope) = {}
       THEN Answer("variables", FALSE, "none") /\ UNCHANGED located
       ELSE /\ Answer("variables", TRUE, "none")
            /\ located' = FirstFrame(WithScope(asked.scope)).step
    /\ UNCHANGED <<recording, conn, position, session, frame_list, listed, asked>>

\* Expressions are evaluated in the frame with the id of the request: its scope
\* for the names and its step for the addresses.
Evaluate(id) ==
    /\ Running
    /\ IF WithId(id) = {}
       THEN Answer("evaluate", FALSE, "none") /\ UNCHANGED <<asked, located>>
       ELSE /\ Answer("evaluate", TRUE, "none")
            /\ asked' = [id |-> id, scope |-> FirstFrame(WithId(id)).scope]
            /\ located' = FirstFrame(WithId(id)).step
    /\ UNCHANGED <<recording, conn, position, session, frame_list, listed>>

-----------------------------------------------------------------------------
Connection == Initialize \/ (\E r \in Recordings : Launch(r)) \/ LaunchFails \/ Disconnect

Movement ==
    \/ Next_ \/ StepIn \/ StepOut \/ StepOutOfMain \/ StepBack
    \/ Continue \/ ConfigurationDone \/ ReverseContinue

Inspection ==
    \/ \E r \in StackRequests : StackTrace(r)
    \/ \E id \in FrameIds : Scopes(id) \/ Evaluate(id)
    \/ Variables

Next ==
    \/ Connection
    \/ Movement
    \/ \E r \in BreakRequests : SetBreakpoints(r)
    \/ Inspection

Spec == Init /\ [][Next]_vars

-----------------------------------------------------------------------------
TypeOK ==
    /\ recording.steps \in Seq(Stmts) /\ recording.signal \in Nat
    /\ conn \in {"accept", "connected", "launched"}
    /\ cur_step \in Nat /\ cur_line \in Nat /\ cur_depth \in Nat
    /\ signum \in Nat
    /\ stop_on_entry \in BOOLEAN
    /\ breakpoint \subseteq Nat \X Nat
    /\ addbr_failed \in BOOLEAN
    /\ \A k \in DOMAIN frame_list :
          frame_list[k] \in [id : Nat, step : Nat, scope : Nat]
    /\ reply.success \in BOOLEAN /\ reply.event \in Events
    /\ listed \subseteq Nat
    /\ asked \in [id : Nat, scope : Nat]
    /\ located \in Nat

(***************************************************************************)
(* Whatever the requests, file, line and depth belong to the current step, *)
(* which is a step of the recording; only the end of the program is shown  *)
(* at depth 1 (set_last_step).                                             *)
(***************************************************************************)
PositionCoherent ==
    Running =>
        /\ cur_step \in 1 .. Len(steps)
        /\ Here = At(cur_step)
        /\ \/ cur_depth = Depth(cur_step)
           \/ cur_step = Len(steps) /\ cur_depth = 1

\* The call frame id stands for, counted from the innermost, and the last
\* step the program has made in it.
Call(i, id) == CallsOf(steps)[i][Len(CallsOf(steps)[i]) - id]
LastStepIn(i, id) ==
    Max({j \in 1 .. i : Last(CallsOf(steps)[j]) = Call(i, id)})

(***************************************************************************)
(* A frame the IDE was told about is the frame of an active call, with the *)
(* step at which the call was left: never one of the frames that an        *)
(* earlier request, or an earlier session, has left in the list.           *)
(***************************************************************************)
ListedFramesExact ==
    Running /\ cur_depth = Depth(cur_step) =>
        \A id \in listed :
            /\ id < Len(CallsOf(steps)[cur_step])
            /\ frame_list[id + 1].id = id
            /\ frame_list[id + 1].step = LastStepIn(cur_step, id)

(***************************************************************************)
(* The variables of a frame are located in that frame, when no two active  *)
(* calls have the same scope: the step handed to add_var() and to the      *)
(* parser of expressions is the last one of the call asked for, so that    *)
(* its registers and frame base give the addresses.  (The frame is looked  *)
(* up by scope alone: with recursion the innermost one is taken for all of *)
(* them.  The values that are read there are those of cur_step.)           *)
(***************************************************************************)
LocalsOfFrameNoRecursion ==
    /\ located # 0 /\ asked.id \in listed /\ 0 \in listed
    /\ \A a, b \in listed : a # b => frame_list[a + 1].scope # frame_list[b + 1].scope
    => located = frame_list[asked.id + 1].step

-----------------------------------------------------------------------------
(* Movements, in terms of the calls of the program.                         *)

Calls(i) == CallsOf(steps)[i]
Moves == Running /\ cur_step' # cur_step /\ UNCHANGED recording /\ Running'

(***************************************************************************)
(* stepOut ends in the caller of the function it leaves, in the same call  *)
(* of it.                                                                  *)
(***************************************************************************)
StepOutReturns ==
    [][Moves /\ reply'.command = "stepOut" => Calls(cur_step') = Front(Calls(cur_step))]_vars

(***************************************************************************)
(* requests.c:736: "StepBack jumps over function calls like 'next', but in *)
(* reverse direction": it ends in a call that was active where it began,   *)
(* not in one that was over.                                               *)
(***************************************************************************)
StepBackJumpsOverCalls ==
    [][Moves /\ reply'.command = "stepBack" =>
          IsPrefix(Calls(cur_step'), Calls(cur_step))]_vars

(***************************************************************************)
(* continue and reverseContinue pass over no breakpoint but those of the   *)
(* line they start from, and stop at a breakpoint or at the program's end. *)
(***************************************************************************)
Between(a, b) == (a + 1 .. b - 1) \cup (b + 1 .. a - 1)
NoBreakpointMissed ==
    [][Moves /\ reply'.command \in {"continue", "configurationDone", "reverseContinue"} =>
          /\ \A i \in Between(cur_step, cur_step') : i \in Breaks => At(i) = Here
          /\ reply'.event = "breakpoint" => cur_step' \in Breaks
          /\ reply'.event # "breakpoint" => cur_step' \in {1, Len(steps)}]_vars

(***************************************************************************)
(* Reverse execution can be undone: continuing from where reverseContinue  *)
(* has stopped at a breakpoint leads back to the breakpoint it came from,  *)
(* if that was the first step on its line, where `continue' stops.         *)
(***************************************************************************)
ReverseContinueUndone ==
    [][/\ Moves /\ reply'.command = "reverseContinue" /\ reply'.event = "breakpoint"
       /\ cur_step \in Breaks /\ At(cur_step - 1) # Here
       => Min(Onward(cur_step')) = cur_step]_vars
=============================================================================
