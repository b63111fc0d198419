------------------------------ MODULE Interview ------------------------------
(***************************************************************************)
(* The interviewer over the fleet's commands: a node keeps its events in a  *)
(* file (plugin/src/interview-buffer.ts); the scheduler queues an           *)
(* interview_request for a node that is due; the plugin submits one window  *)
(* of events; the server writes the report as memories, advances the node's *)
(* watermark and answers it; the plugin prunes its file through it          *)
(* (services/interview_service.py, routes/interview.py).                    *)
(*                                                                         *)
(* Events are their seq numbers, counted from 1; a watermark of 0 is "none" *)
(* (-1 in the code, where seq starts at 0).                                 *)
(***************************************************************************)
EXTENDS Fleet

CONSTANTS
    MaxSubmit,    \* INTERVIEW_SUBMIT_MAX_EVENTS
    MaxBuffer,    \* INTERVIEW_BUFFER_MAX_BYTES, in events
    ChunkMax,     \* INTERVIEW_CHUNK_MAX_CHARS, in events
    MaxItems,     \* INTERVIEW_MAX_ITEMS_PER_SECTION
    MaxTries,     \* _WATERMARK_WRITE_ATTEMPTS
    EventBound    \* bound: the highest seq

ASSUME InterviewAssumption == {MaxSubmit, MaxBuffer, ChunkMax, MaxItems, MaxTries, EventBound} \subseteq Nat \ {0}

VARIABLES
    buffer,   \* interview-buffer.jsonl: the seqs on disk, in order
    meta,     \* interview-buffer.jsonl.meta.json: next_seq
    next,     \* _nextSeq of the running process, Unseeded before its first use
    mark,     \* the watermark document: last_seq
    due,      \* whether last_interview_at is a period old
    submit,   \* the POST /interview/submit that a heartbeat has under way
    sched,    \* the nodes the running schedule pass may still visit
    made,     \* events that reached the disk
    kept,     \* events of a window whose report was written, or of which the LLM had nothing
              \* to report
    dropped   \* events given up by compaction

interviewVars == <<buffer, meta, next, mark, due, submit, sched, made, kept, dropped>>
disk == <<buffer, meta, next>>
ghosts == <<made, kept, dropped>>

Unseeded == 0
NoSubmit == [pc |-> "idle", node |-> CHOOSE n \in Nodes : TRUE, events |-> {}, seen |-> 0, tries |-> 0]

InterviewInit ==
    /\ buffer = [n \in Nodes |-> <<>>] /\ meta = [n \in Nodes |-> 1]
    /\ next = [n \in Nodes |-> Unseeded]
    /\ mark = [n \in Nodes |-> 0] /\ due = [n \in Nodes |-> TRUE]
    /\ submit = [b \in Beats |-> NoSubmit] /\ sched = {}
    /\ made = [n \in Nodes |-> {}]
    /\ kept = [n \in Nodes |-> {}] /\ dropped = [n \in Nodes |-> {}]

SeqMax(S) == CHOOSE x \in S : \A y \in S : y <= x
Events(s) == {s[i] : i \in 1..Len(s)}

-----------------------------------------------------------------------------
(* The buffer.  Its operations queue on one promise chain: each runs alone. *)

SeedFromTail(n) ==
    IF next[n] # Unseeded THEN next[n]
    ELSE IF buffer[n] = <<>> THEN 1 ELSE buffer[n][Len(buffer[n])] + 1

\* _ensureSeeded: the tail of the file, or the sidecar when that is higher.
Seed(n) ==
    IF next[n] # Unseeded THEN next[n]
    ELSE SeqMax({meta[n], IF buffer[n] = <<>> THEN 1 ELSE buffer[n][Len(buffer[n])] + 1})

\* A process that dies forgets _nextSeq; its server requests go on unheard.
Dies(n) ==
    /\ plug' = [plug EXCEPT ![n] = Rebooted(@)]
    /\ Killed(n)
    /\ next' = [next EXCEPT ![n] = Unseeded]

appendInterviewEvent(n) ==
    /\ scene.events > 0
    /\ LET seq == Seed(n)
           full == Append(buffer[n], seq)
           keep == SubSeq(full, Len(full) \div 2 + 1, Len(full))
       IN \/ /\ Len(full) <= MaxBuffer
             /\ buffer' = [buffer EXCEPT ![n] = full]
             /\ next' = [next EXCEPT ![n] = seq + 1]
             /\ made' = [made EXCEPT ![n] = @ \cup {seq}]
             /\ scene' = [scene EXCEPT !.events = @ - 1]
             /\ UNCHANGED <<meta, beat, plug, dropped>>
          \* Over the limit: the sidecar, then the newer half is renamed into place.
          \/ /\ Len(full) > MaxBuffer
             /\ made' = [made EXCEPT ![n] = @ \cup {seq}]
             /\ meta' = [meta EXCEPT ![n] = seq + 1]
             /\ \/ /\ buffer' = [buffer EXCEPT ![n] = keep]
                   /\ dropped' = [dropped EXCEPT ![n] = @ \cup (Events(full) \ Events(keep))]
                   /\ next' = [next EXCEPT ![n] = seq + 1]
                   /\ scene' = [scene EXCEPT !.events = @ - 1]
                   /\ UNCHANGED <<beat, plug>>
                \/ /\ scene.faults > 0
                   /\ scene' = [scene EXCEPT !.events = @ - 1, !.faults = @ - 1]
                   /\ buffer' = [buffer EXCEPT ![n] = full]
                   /\ Dies(n) /\ UNCHANGED dropped
    /\ UNCHANGED <<now, node, cmds, blind, mark, due, submit, sched, kept>>

\* The process dies in the append: the torn line is skipped by every later load.
AppendTorn(n) ==
    /\ scene.events > 0 /\ Fault
    /\ Dies(n)
    /\ UNCHANGED <<now, node, cmds, blind, buffer, meta, mark, due, submit, sched, ghosts>>

readInterviewEvents(n, since) ==
    LET old == SelectSeq(buffer[n], LAMBDA e : e >= since)
    IN Events(SubSeq(old, 1, IF Len(old) < MaxSubmit THEN Len(old) ELSE MaxSubmit))

\* Keeps what lies above the committed watermark.
Above(n, seq) == SelectSeq(buffer[n], LAMBDA e : e > seq)

pruneInterviewBuffer(n, seq) ==
    /\ buffer' = [buffer EXCEPT ![n] = Above(n, seq)]
    /\ meta' = [meta EXCEPT ![n] = IF Above(n, seq) = buffer[n] THEN @ ELSE Seed(n)]
    /\ next' = [next EXCEPT ![n] = Seed(n)]

\* The process dies between the sidecar and the rename.
PruneKilled(n, seq) ==
    /\ Above(n, seq) # buffer[n]
    /\ meta' = [meta EXCEPT ![n] = Seed(n)]
    /\ Dies(n) /\ UNCHANGED buffer

-----------------------------------------------------------------------------
(* The schedule.                                                           *)

UnfinishedRequest(n) ==
    \E c \in 1..Len(cmds) : /\ Of(c, n, node[n].gen) /\ cmds[c].kind = "interview"
                            /\ cmds[c].status \in {"pending", "acked"}

PendingRequest(n) ==
    \E c \in 1..Len(cmds) : /\ Of(c, n, node[n].gen) /\ cmds[c].kind = "interview"
                            /\ cmds[c].status = "pending"

\* Tenants that enabled the interviewer; their nodes with a row and a recent heartbeat.
_node_is_eligible(n) == scene.interviewer /\ node[n].there
_is_due(n) == due[n]

\* Lists the nodes and the pending requests of the tenant.
ScheduleLists ==
    /\ sched = {}
    /\ sched' = {n \in Nodes : _node_is_eligible(n) /\ ~PendingRequest(n) /\ _is_due(n)}
    /\ sched' # {}
    /\ UNCHANGED <<fleetVars, disk, mark, due, submit, ghosts>>

\* Reads a node's watermark from the primary and queues the request after it.
run_interview_schedule(n) ==
    /\ n \in sched /\ sched' = sched \ {n}
    /\ IF _is_due(n) THEN fleet_add_command(n, node[n].gen, "interview", mark[n] + 1, "schedule")
       ELSE UNCHANGED cmds
    /\ UNCHANGED <<now, node, beat, plug, scene, blind, disk, mark, due, submit, ghosts>>

PeriodElapses(n) ==
    /\ ~due[n] /\ due' = [due EXCEPT ![n] = TRUE]
    /\ UNCHANGED <<fleetVars, disk, mark, submit, sched, ghosts>>

-----------------------------------------------------------------------------
(* The plugin answers an interview_request: one window, one submit.        *)

InterviewReads(b) ==
    /\ beat[b].pc = "run" /\ Cmd(b).kind = "interview" /\ submit[b].pc = "idle"
    /\ Ran(b)
    /\ LET n == beat[b].node
           events == readInterviewEvents(n, Cmd(b).target)
       IN /\ next' = [next EXCEPT ![n] = Seed(n)]
          /\ IF events = {} THEN Result(b, "done", FALSE) /\ UNCHANGED submit
             ELSE /\ Goto(b, "submit")
                  /\ submit' = [submit EXCEPT ![b] = [NoSubmit EXCEPT !.pc = "bulk", !.node = n,
                                                                      !.events = events]]
    /\ UNCHANGED <<now, node, plug, scene, blind, buffer, meta, mark, due, sched, ghosts>>

To(b) == SeqMax(submit[b].events)
Stage(b, pc) == submit' = [submit EXCEPT ![b].pc = pc]

\* run_interview: masked events are cut into chunks of consecutive events that
\* fit the prompt; one that fits nowhere makes a chunk of its own.
chunk_events(events) ==
    LET place(e) == (Cardinality({f \in events : f < e}) \div ChunkMax)
    IN {{e \in events : place(e) = k} : k \in {place(e) : e \in events}}

\* A report is a set of summaries, each naming the events it tells of.  Without a
\* reachable provider the chunk is told by one unsynthesized summary.
NoFallback(chunk) == {}
_fake_report(chunk) == {chunk}
_interview_chunk(chunk, up) == IF up THEN {{}, {chunk}} ELSE {_fake_report(chunk)}

\* Summaries are kept in order, up to the cap.
merge_reports(reports) ==
    {x \in reports : Cardinality({y \in reports : SeqMax(y) < SeqMax(x)}) < MaxItems}

\* One memory per summary.
report_to_items(report) == [summary \in report |-> "memory"]

MarkEarly(b) ==
    /\ submit[b].pc = "bulk" /\ Stage(b, "read")
    /\ UNCHANGED <<fleetVars, disk, mark, due, sched, ghosts>>

\* The report's items are written, some of them at least, or were written by an
\* earlier attempt at the same window; a report without items consumes the window
\* as well.
WindowWritten(b) ==
    /\ submit[b].pc = "bulk"
    /\ LET chunks == chunk_events(submit[b].events) IN
       \E up \in BOOLEAN : \E answer \in [chunks -> UNION {_interview_chunk(c, up) : c \in chunks}] :
         /\ \A c \in chunks : answer[c] \in _interview_chunk(c, up)
         /\ LET items == report_to_items(merge_reports(UNION {answer[c] : c \in chunks}))
            IN kept' = [kept EXCEPT ![submit[b].node] =
                          @ \cup IF up \/ DOMAIN items # {} THEN submit[b].events ELSE {}]
    /\ Stage(b, "read")
    /\ UNCHANGED <<fleetVars, disk, mark, due, sched, made, dropped>>

\* Every item failed, the deadline passed, or the response is lost: the plugin
\* sees an error.
SubmitFails(b) ==
    /\ submit[b].pc # "idle" /\ Fault
    /\ submit' = [submit EXCEPT ![b] = NoSubmit]
    /\ IF beat[b].pc = "submit" THEN Result(b, "failed", FALSE) ELSE UNCHANGED beat
    /\ UNCHANGED <<now, node, cmds, plug, blind, disk, mark, due, sched, ghosts>>

\* advance_watermark: read; a cursor at or behind the stored one is a no-op ...
WatermarkReads(b) ==
    /\ submit[b].pc = "read"
    /\ submit' = [submit EXCEPT ![b].seen = mark[submit[b].node],
                                ![b].pc = IF To(b) <= mark[submit[b].node] THEN "reply" ELSE "write"]
    /\ UNCHANGED <<fleetVars, disk, mark, due, sched, ghosts>>

\* ... otherwise write ...
WatermarkWrites(b) ==
    /\ submit[b].pc = "write"
    /\ mark' = [mark EXCEPT ![submit[b].node] = To(b)]
    /\ due' = [due EXCEPT ![submit[b].node] = FALSE]
    /\ Stage(b, "verify")
    /\ UNCHANGED <<fleetVars, disk, sched, ghosts>>

\* ... and verify: repair a smaller value a rival wrote, a bounded number of times;
\* then report what is stored, or the wanted cursor when that cannot be read.
WatermarkVerifies(b) ==
    /\ submit[b].pc = "verify"
    /\ LET stored == mark[submit[b].node]
           over == submit[b].tries + 1 = MaxTries
       IN \E seen \in {stored} \cup IF over THEN {To(b)} ELSE {} :
            submit' = [submit EXCEPT ![b].seen = seen, ![b].tries = @ + 1,
                                     ![b].pc = IF stored >= To(b) \/ over THEN "reply" ELSE "read"]
    /\ UNCHANGED <<fleetVars, disk, mark, due, sched, ghosts>>

\* The answer carries the watermark; a plugin that still waits prunes through it.
SubmitReplies(b) ==
    /\ submit[b].pc = "reply"
    /\ submit' = [submit EXCEPT ![b] = NoSubmit]
    /\ \/ /\ beat[b].pc = "submit" /\ pruneInterviewBuffer(beat[b].node, submit[b].seen)
          /\ Result(b, "done", FALSE) /\ UNCHANGED <<plug, scene>>
       \/ beat[b].pc = "submit" /\ Fault /\ PruneKilled(beat[b].node, submit[b].seen)
       \/ beat[b].pc # "submit" /\ UNCHANGED <<disk, beat, plug, scene>>
    /\ UNCHANGED <<now, node, cmds, blind, mark, due, sched, ghosts>>

SubmitStep(b) ==
    \/ InterviewReads(b) \/ WindowWritten(b) \/ WatermarkReads(b) \/ WatermarkWrites(b)
    \/ WatermarkVerifies(b) \/ SubmitReplies(b)

\* What the fleet does leaves the interview alone, but a dead process is unseeded.
\* A node registered again after a deletion is a new node to the interviewer: the
\* scenes that delete a fleet ask no interviews.
FleetStep ==
    \/ /\ \/ \E b \in Beats : ServerStep(b) \/ PluginStep(b)
          \/ \E b \in Beats, n \in Nodes : sendHeartbeat(n, b)
          \/ \E n \in Nodes : (~scene.interviewer /\ DeleteFleet(n)) \/ CreateCommand(n)
          \/ Tick
       /\ UNCHANGED interviewVars
    \/ \E n \in Nodes :
         /\ Restart(n) \/ \E b \in Beats : beat[b].node = n /\ DeployKilled(b)
         /\ next' = [next EXCEPT ![n] = Unseeded]
         /\ UNCHANGED <<buffer, meta, mark, due, submit, sched, ghosts>>

InterviewNext ==
    \/ \E n \in Nodes : appendInterviewEvent(n) \/ AppendTorn(n)
    \/ ScheduleLists
    \/ \E n \in Nodes : run_interview_schedule(n) \/ PeriodElapses(n)
    \/ \E b \in Beats : SubmitStep(b) \/ SubmitFails(b)

interviewAll == <<fleetVars, interviewVars>>
Init == FleetInit /\ InterviewInit
InterviewSpec == Init /\ [][FleetStep \/ InterviewNext]_interviewAll

\* A heartbeat fires every minute, the scheduler every hour, periods pass, and
\* requests and disk operations end: something of this always goes on.
Progress ==
    \/ /\ \/ \E b \in Beats : ServerStep(b) \/ PluginStep(b)
          \/ \E b \in Beats, n \in Nodes : sendHeartbeat(n, b)
       /\ UNCHANGED interviewVars
    \/ ScheduleLists
    \/ \E n \in Nodes : run_interview_schedule(n) \/ PeriodElapses(n)
    \/ \E b \in Beats : SubmitStep(b)
InterviewFairSpec == InterviewSpec /\ WF_interviewAll(Progress)

-----------------------------------------------------------------------------
(* The event files hold each seq once and in order, and a submit is of      *)
(* events that were made.                                                   *)
InterviewTypeOK ==
    /\ \A n \in Nodes :
          /\ \A i, j \in 1..Len(buffer[n]) : i < j => buffer[n][i] < buffer[n][j]
          /\ {meta[n], next[n], mark[n]} \subseteq 0..EventBound + 1 /\ due[n] \in BOOLEAN
          /\ kept[n] \subseteq made[n] /\ dropped[n] \subseteq made[n]
    /\ \A b \in Beats : submit[b].events \subseteq made[submit[b].node] /\ submit[b].tries \in 0..MaxTries
    /\ sched \subseteq Nodes

(* No event is lost on the way from the node to memory: an event that       *)
(* reached the disk is still there, was part of a window the server         *)
(* consumed, or was given up by compaction, whatever submits overlap, fail  *)
(* or answer too late.                                                      *)
EventsSafe ==
    \A n \in Nodes : made[n] \subseteq Events(buffer[n]) \cup kept[n] \cup dropped[n]

(* The next seq is above the watermark, so that no new event is invisible   *)
(* to the next window, also after a full prune and a restart.               *)
SeqAboveWatermark == \A n \in Nodes : Seed(n) > mark[n]

(* A window counts as consumed only when its report is written: every event *)
(* at or below the watermark is in a consumed window or was given up.       *)
WatermarkBacked ==
    \A n \in Nodes : \A e \in made[n] : e <= mark[n] => e \in kept[n] \cup dropped[n]

(* The windows of an interview: no event is lost, none is consumed before   *)
(* its report is written, and none is numbered below the watermark.         *)
WindowsSound == InterviewTypeOK /\ EventsSafe /\ WatermarkBacked /\ SeqAboveWatermark

(* Every event that reached the disk is interviewed in the end (or given up *)
(* by compaction), although commands are delivered at most once and a       *)
(* submit may be lost: the scheduler asks again.                            *)
EventsInterviewed ==
    \A n \in Nodes, e \in 1..EventBound : e \in made[n] ~> e \in kept[n] \cup dropped[n]
=============================================================================
