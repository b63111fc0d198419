------------------------------ MODULE Lifecycle ------------------------------
(***************************************************************************)
(* The scheduled lifecycle operations of one organization: the scheduler   *)
(* of core-operations fires a daily fan-out, core-api writes an audit row  *)
(* and publishes a message for the organization, and a consumer runs the   *)
(* operation and finalizes the row.  An operator may trigger the same      *)
(* operation by hand.  Messages are delivered at least once, storage calls *)
(* fail, and a consumer may die at any await.                              *)
(*                                                                         *)
(* A behaviour is about one action, kind: "crystallize" stands for the     *)
(* four pipeline operations, which share the dedup gate, and "archive" for *)
(* the two archive sweeps, which differ in the rows they select.  Time is  *)
(* counted in units of which Day make a day.                               *)
(***************************************************************************)
EXTENDS Naturals, Sequences, FiniteSets, Functions, Schedule

CONSTANTS
  Kinds,          \* the actions explored
  Mem,            \* memories of the organization
  Slots,          \* deliveries that may be in progress at a time
  Day,            \* units of time in a day
  RunAt,          \* the unit of the day the task is aligned to
  Window,         \* _PIPELINE_DEDUP_WINDOW_HOURS
  Retentions,     \* values of memory_retention_days, in days
  MaxRetention,   \* MEMORY_RETENTION_MAX_DAYS
  Batch,          \* LIMIT of a sweep
  MaxDeliveries,  \* delivery attempts before a message is dead-lettered
  MaxTime,        \* bound on the clock
  Start, Horizon, \* the clock of a behaviour of each kind begins and ends here
  Deleted,        \* when a memory may have been soft-deleted before that
  MaxRows,        \* bound on the number of triggers
  MaxManual,      \* bound on the number of manual triggers
  MaxFaults,      \* bound on the number of faults
  MaxEdits        \* bound on the number of edits by users

ASSUME LifecycleAssumption ==
  /\ Kinds \subseteq {"archive", "purge-soft-deleted", "crystallize"}
  /\ IsFiniteSet(Mem) /\ Batch \in Nat \ {0} /\ MaxTime \in Nat /\ MaxRetention \in Nat \ {0}
  /\ Day \in Nat \ {0} /\ RunAt \in 0 .. Day - 1 /\ Window \in 1 .. Day - 1
  /\ Retentions \subseteq 1 .. MaxRetention
  /\ Start \in [Kinds -> 0 .. MaxTime] /\ Horizon \in [Kinds -> 0 .. MaxTime]

VARIABLES
  kind,     \* the action of this behaviour
  now,      \* the database's clock
  sched,    \* the scheduler's loop: [pc, wake]
  calls,    \* the two entry points of core-api: [pc, ret, id, slot]
  setting,  \* the organization's memory_retention_days
  mem,      \* the memories: [status, ripe, del, swept]
  rows,     \* lifecycle_audit
  msgs,     \* the message of each row: [st, tries, acked]
  hs,       \* deliveries in progress
  work,     \* history: the completed runs
  faults,   \* faults so far
  edits     \* edits by the users so far

vars == <<kind, now, sched, calls, setting, mem, rows, msgs, hs, work, faults, edits>>

None == MaxTime + 1     \* SQL NULL for a time

Callers == {"cron", "manual"}

Gated == kind = "crystallize"     \* dedup_window_hours is not None

Idle == [pc |-> "idle", id |-> 0, n |-> 0, gate |-> 0, alone |-> TRUE, blind |-> FALSE]

NoCall == [pc |-> "idle", ret |-> MaxRetention, id |-> 0, slot |-> 0]

Healthy == UNCHANGED faults

Fault == faults < MaxFaults /\ faults' = faults + 1

-----------------------------------------------------------------------------
(* Storage *)

lifecycle_audit_create(by, ret, slot) ==
  [status |-> "pending", fin |-> None, skipped |-> FALSE, n |-> 0, error |-> FALSE,
   by |-> by, ret |-> ret, slot |-> slot]

(* Mutant: success is not sticky. *)
FinalizeNotSticky(i, status, skipped, n) ==
  rows' = [rows EXCEPT ![i] =
            [@ EXCEPT !.status = status,
                      !.fin = IF status = "in_progress" THEN None ELSE now,
                      !.skipped = skipped, !.n = IF status = "success" THEN n ELSE @,
                      !.error = (status = "failure")]]

(* success is sticky; in_progress clears finished_at; success clears the error. *)
Finalized(r, status, skipped, n) ==
  [r EXCEPT !.status = status,
            !.fin = IF status = "in_progress" THEN None ELSE now,
            !.skipped = skipped,
            !.n = IF status = "success" THEN n ELSE @,
            !.error = IF status = "in_progress" THEN @ ELSE status = "failure"]

lifecycle_audit_finalize(i, status, skipped, n) ==
  rows' = IF rows[i].status = "success" THEN rows
          ELSE [rows EXCEPT ![i] = Finalized(rows[i], status, skipped, n)]

(* Mutants: the window is closed at its far end; the window is too short. *)
HasRecentInclusive ==
  \E i \in DOMAIN rows : rows[i].status = "success" /\ rows[i].fin + Window >= now

HasRecentShortWindow ==
  \E i \in DOMAIN rows : rows[i].status = "success" /\ rows[i].fin + 1 > now

lifecycle_audit_has_recent_success ==
  \E i \in DOMAIN rows : rows[i].status = "success" /\ rows[i].fin + Window > now

Live(m) == mem[m].del = None

(* The rows the operation's SQL selects, before LIMIT.  ripe stands for the *)
(* archive's own condition: the end of validity has passed, or the row is   *)
(* old, of low weight and was never recalled.                               *)
Eligible(ret) ==
  IF kind = "archive"
  THEN {m \in Mem : Live(m) /\ mem[m].status = "active" /\ mem[m].ripe}
  ELSE {m \in Mem : ~Live(m) /\ mem[m].status # "gone" /\ mem[m].del + ret * Day < now}

Swept == IF kind = "archive" THEN "archived" ELSE "gone"

Sweep(S) == mem' = [m \in Mem |-> IF m \in S THEN [mem[m] EXCEPT !.status = Swept, !.swept = TRUE]
                                 ELSE mem[m]]

(* What LIMIT may leave of the selected rows. *)
Batches(ret) ==
  LET n == Cardinality(Eligible(ret))
  IN  {S \in SUBSET Eligible(ret) : Cardinality(S) = IF n < Batch THEN n ELSE Batch}

(* The organization is in the fan-out's list. *)
Listed ==
  IF kind = "purge-soft-deleted"
  THEN \E m \in Mem : ~Live(m) /\ mem[m].status # "gone" /\ mem[m].del + MaxRetention * Day < now
  ELSE \E m \in Mem : Live(m)

-----------------------------------------------------------------------------
(* The scheduler and the two entry points *)

NextWake == now + seconds_until_next_utc_hour(Day, RunAt, now)

Init ==
  /\ kind \in Kinds
  /\ now = Start[kind]
  /\ sched = [pc |-> "sleep", wake |-> NextWake]
  /\ calls = [c \in Callers |-> NoCall]
  /\ setting \in IF kind = "purge-soft-deleted" THEN Retentions ELSE {MaxRetention}
  /\ \E del \in [Mem -> IF kind = "purge-soft-deleted" THEN Deleted ELSE {None}] :
       mem = [m \in Mem |-> [status |-> IF del[m] = None THEN "active" ELSE "deleted",
                            ripe |-> TRUE, del |-> del[m], swept |-> FALSE]]
  /\ rows = <<>>
  /\ msgs = <<>>
  /\ hs = [h \in Slots |-> Idle]
  /\ work = <<>>
  /\ faults = 0 /\ edits = 0

Room == Len(rows) + Cardinality({c \in Callers : calls[c].pc # "idle"}) < MaxRows

(* The loop's sleep ends: the tick posts to the fan-out route. *)
TickFires ==
  /\ sched.pc = "sleep" /\ sched.wake <= now
  /\ calls["cron"].pc = "idle" /\ Room
  /\ sched' = [sched EXCEPT !.pc = "post"]
  /\ calls' = [calls EXCEPT !["cron"] = [NoCall EXCEPT !.pc = "list", !.slot = sched.wake]]
  /\ UNCHANGED <<kind, now, setting, mem, rows, msgs, hs, work, faults, edits>>

(* The POST answers, fails or times out; the loop sleeps until the next slot. *)
TickReturns ==
  /\ sched.pc = "post"
  /\ sched' = [pc |-> "sleep", wake |-> NextWake]
  /\ UNCHANGED <<kind, now, calls, setting, mem, rows, msgs, hs, work, faults, edits>>

(* core-operations is redeployed: its tasks are cancelled, and the new      *)
(* process sleeps until a slot that is strictly in the future.              *)
SchedulerStops ==
  /\ sched.pc # "down" /\ Fault
  /\ sched' = [sched EXCEPT !.pc = "down"]
  /\ UNCHANGED <<kind, now, calls, setting, mem, rows, msgs, hs, work, edits>>

SchedulerStarts ==
  /\ sched.pc = "down"
  /\ sched' = [pc |-> "sleep", wake |-> NextWake]
  /\ UNCHANGED <<kind, now, calls, setting, mem, rows, msgs, hs, work, faults, edits>>

(* The fan-out reads its list of organizations; a failure is answered 500.  *)
ListTenants ==
  /\ calls["cron"].pc = "list"
  /\ \/ Listed /\ Healthy /\ calls' = [calls EXCEPT !["cron"].pc = "resolve"]
     \/ Fault /\ calls' = [calls EXCEPT !["cron"] = NoCall]
  /\ UNCHANGED <<kind, now, sched, setting, mem, rows, msgs, hs, work, edits>>

PassOver ==
  /\ calls["cron"].pc = "list" /\ ~Listed
  /\ calls' = [calls EXCEPT !["cron"] = NoCall]
  /\ UNCHANGED <<kind, now, sched, setting, mem, rows, msgs, hs, work, faults, edits>>

(* The manual route; its body may override the retention. *)
trigger_lifecycle_action ==
  /\ calls["manual"].pc = "idle" /\ Room
  /\ Cardinality({i \in DOMAIN rows : rows[i].by = "manual"}) < MaxManual
  /\ calls' = [calls EXCEPT !["manual"] = [NoCall EXCEPT !.pc = "resolve", !.slot = now]]
  /\ UNCHANGED <<kind, now, sched, setting, mem, rows, msgs, hs, work, faults, edits>>

resolve_publisher_kwargs(c) ==
  /\ calls[c].pc = "resolve"
  /\ \/ /\ Healthy
        /\ \E ret \in IF kind = "purge-soft-deleted" /\ c = "manual" THEN Retentions ELSE {setting} :
             calls' = [calls EXCEPT ![c].pc = "begin", ![c].ret = ret]
     \/ Fault /\ calls' = [calls EXCEPT ![c] = NoCall]
  /\ UNCHANGED <<kind, now, sched, setting, mem, rows, msgs, hs, work, edits>>

(* The audit row goes first ... *)
audit_begin(c) ==
  /\ calls[c].pc = "begin"
  /\ \/ /\ Healthy
        /\ rows' = Append(rows, lifecycle_audit_create(c, calls[c].ret, calls[c].slot))
        /\ msgs' = Append(msgs, [st |-> "none", tries |-> 0, acked |-> FALSE])
        /\ calls' = [calls EXCEPT ![c].pc = "publish", ![c].id = Len(rows) + 1]
     \/ /\ Fault
        /\ calls' = [calls EXCEPT ![c] = NoCall]
        /\ UNCHANGED <<rows, msgs>>
  /\ UNCHANGED <<kind, now, sched, setting, mem, hs, work, edits>>

(* ... and the message second; a failed publish leaves the row pending.     *)
publish(c) ==
  /\ calls[c].pc = "publish"
  /\ calls' = [calls EXCEPT ![c] = NoCall]
  /\ \/ Healthy /\ msgs' = [msgs EXCEPT ![calls[c].id].st = "queued"]
     \/ Fault /\ UNCHANGED msgs
  /\ UNCHANGED <<kind, now, sched, setting, mem, rows, hs, work, edits>>

-----------------------------------------------------------------------------
(* Delivery: the message broker and the bus, as the handler sees them *)

Busy(h) == hs[h].pc # "idle"

(* Which of the idle slots takes a delivery makes no difference. *)
Deliver(i) ==
  LET h == CHOOSE k \in Slots : ~Busy(k) IN
  /\ \E k \in Slots : ~Busy(k)
  /\ msgs[i].st = "queued"
  /\ msgs' = [msgs EXCEPT ![i].st = "out", ![i].tries = @ + 1]
  /\ hs' = [g \in Slots |->
              IF g = h
              THEN [Idle EXCEPT !.pc = IF Gated THEN "gate" ELSE "mark", !.id = i, !.gate = now,
                                !.alone = \A k \in Slots : ~Busy(k)]
              ELSE IF Busy(g) THEN [hs[g] EXCEPT !.alone = FALSE] ELSE hs[g]]
  /\ UNCHANGED <<kind, now, sched, calls, setting, mem, rows, work, faults, edits>>

Requeued(i) == [msgs EXCEPT ![i].st = IF @ = "acked" THEN @
                                      ELSE IF msgs[i].tries < MaxDeliveries THEN "queued" ELSE "dead"]

(* The handler returns or raises. *)
Ack(h) ==
  /\ msgs' = [msgs EXCEPT ![hs[h].id].st = "acked", ![hs[h].id].acked = TRUE]
  /\ hs' = [hs EXCEPT ![h] = Idle]

(* Mutant: the message is neither acked nor nacked. *)
NackForgotten(h) == hs' = [hs EXCEPT ![h] = Idle] /\ UNCHANGED msgs

Nack(h) == msgs' = Requeued(hs[h].id) /\ hs' = [hs EXCEPT ![h] = Idle]

(* The ack deadline passes while the handler runs, or its ack is lost, or   *)
(* the process dies: the broker delivers again.                             *)
LeaseExpires(i) ==
  /\ msgs[i].st \in {"out", "acked"} /\ msgs[i].tries < MaxDeliveries /\ Fault
  /\ msgs' = [msgs EXCEPT ![i].st = "queued"]
  /\ UNCHANGED <<kind, now, sched, calls, setting, mem, rows, hs, work, edits>>

HandlerDies(h) ==
  /\ Busy(h) /\ Fault /\ Nack(h)
  /\ UNCHANGED <<kind, now, sched, calls, setting, mem, rows, work, edits>>

-----------------------------------------------------------------------------
(* _run_action, one action per await *)

(* The dedup gate; it fails open. *)
CheckGate(h) ==
  /\ hs[h].pc = "gate"
  /\ \/ /\ Healthy
        /\ hs' = [hs EXCEPT ![h].pc = IF lifecycle_audit_has_recent_success THEN "skip" ELSE "mark",
                            ![h].gate = now]
     \/ Fault /\ hs' = [hs EXCEPT ![h].pc = "mark", ![h].blind = TRUE]
  /\ UNCHANGED <<kind, now, sched, calls, setting, mem, rows, msgs, work, edits>>

(* The skip is recorded as a success, best effort, and acked. *)
RecordSkip(h) ==
  /\ hs[h].pc = "skip" /\ Ack(h)
  /\ \/ Healthy /\ lifecycle_audit_finalize(hs[h].id, "success", TRUE, 0)
     \/ Fault /\ UNCHANGED rows
  /\ UNCHANGED <<kind, now, sched, calls, setting, mem, work, edits>>

MarkInProgress(h) ==
  /\ hs[h].pc = "mark"
  /\ hs' = [hs EXCEPT ![h].pc = "op"]
  /\ \/ Healthy /\ lifecycle_audit_finalize(hs[h].id, "in_progress", FALSE, 0)
     \/ Fault /\ UNCHANGED rows
  /\ UNCHANGED <<kind, now, sched, calls, setting, mem, msgs, work, edits>>

(* Mutant: the answer counts the selected rows, not those of the batch. *)
SweepCountsSelected(h) ==
  LET ret == rows[hs[h].id].ret IN
  /\ hs[h].pc = "op" /\ ~Gated
  /\ \/ \E S \in Batches(ret) :
          /\ Sweep(S) /\ Healthy
          /\ hs' = [hs EXCEPT ![h].pc = "record", ![h].n = Cardinality(Eligible(ret))]
     \/ Fault /\ UNCHANGED mem /\ hs' = [hs EXCEPT ![h].pc = "fail"]
  /\ UNCHANGED <<kind, now, sched, calls, setting, rows, msgs, work, edits>>

(* A sweep commits one batch; its answer may be lost, and it may fail *)
(* before it changes anything.                                              *)
RunSweep(h) ==
  /\ hs[h].pc = "op" /\ ~Gated
  /\ \/ \E S \in Batches(rows[hs[h].id].ret) :
          /\ Sweep(S)
          /\ \/ Healthy /\ hs' = [hs EXCEPT ![h].pc = "record", ![h].n = Cardinality(S)]
             \/ Fault /\ hs' = [hs EXCEPT ![h].pc = "fail"]
     \/ Fault /\ UNCHANGED mem /\ hs' = [hs EXCEPT ![h].pc = "fail"]
  /\ UNCHANGED <<kind, now, sched, calls, setting, rows, msgs, work, edits>>

(* A pipeline operation runs or is declined by a gate of its own (the       *)
(* organization's flag is off, the corpus is small or has not changed): both *)
(* are a success.  What it does to the memories, and its count, are left out. *)
RunPipeline(h) ==
  /\ hs[h].pc = "op" /\ Gated
  /\ \/ Healthy /\ hs' = [hs EXCEPT ![h].pc = "record"]
     \/ Fault /\ hs' = [hs EXCEPT ![h].pc = "fail"]
  /\ UNCHANGED <<kind, now, sched, calls, setting, mem, rows, msgs, work, edits>>

(* The failure is recorded, best effort, and the message nacked. *)
RecordFailure(h) ==
  /\ hs[h].pc = "fail" /\ Nack(h)
  /\ \/ Healthy /\ lifecycle_audit_finalize(hs[h].id, "failure", FALSE, 0)
     \/ Fault /\ UNCHANGED rows
  /\ UNCHANGED <<kind, now, sched, calls, setting, mem, work, edits>>

(* The success must be recorded before the message is acked. *)
RecordSuccess(h) ==
  /\ hs[h].pc = "record"
  /\ \/ /\ Healthy /\ Ack(h)
        /\ lifecycle_audit_finalize(hs[h].id, "success", FALSE, hs[h].n)
        /\ work' = Append(work, [gate |-> hs[h].gate, rec |-> now, alone |-> hs[h].alone,
                                 blind |-> hs[h].blind, kept |-> rows[hs[h].id].status # "success"])
     \/ Fault /\ Nack(h) /\ UNCHANGED <<rows, work>>
  /\ UNCHANGED <<kind, now, sched, calls, setting, mem, edits>>

-----------------------------------------------------------------------------
(* The rest of the system *)

(* Memories are soft-deleted and recalled by the API, and the organization  *)
(* changes its setting.                                                     *)
Edit == edits < MaxEdits /\ edits' = edits + 1

SoftDelete(m) ==
  /\ ~Gated /\ Live(m) /\ Edit
  /\ mem' = [mem EXCEPT ![m].del = now, ![m].status = "deleted"]
  /\ UNCHANGED <<kind, now, sched, calls, setting, rows, msgs, hs, work, faults>>

Recall(m) ==
  /\ kind = "archive" /\ Live(m) /\ mem[m].ripe /\ Edit
  /\ mem' = [mem EXCEPT ![m].ripe = FALSE]
  /\ UNCHANGED <<kind, now, sched, calls, setting, rows, msgs, hs, work, faults>>

ChangeSetting(r) ==
  /\ kind = "purge-soft-deleted" /\ r # setting /\ Edit
  /\ setting' = r
  /\ UNCHANGED <<kind, now, sched, calls, mem, rows, msgs, hs, work, faults>>

(* A unit of time is hours: a sleeping loop is woken in it, and every call   *)
(* but a pipeline operation returns or times out in it.  A queued message    *)
(* may wait.                                                                 *)
Prompt ==
  /\ sched.pc # "post"
  /\ sched.pc = "sleep" /\ sched.wake <= now => ~Room
  /\ \A c \in Callers : calls[c].pc = "idle"
  /\ \A h \in Slots : Busy(h) => Gated /\ hs[h].pc = "op"

ClockTicks ==
  /\ now < Horizon[kind] /\ Prompt
  /\ now' = now + 1
  /\ UNCHANGED <<kind, sched, calls, setting, mem, rows, msgs, hs, work, faults, edits>>

Handle(h) ==
  \/ CheckGate(h) \/ RecordSkip(h) \/ MarkInProgress(h)
  \/ RunSweep(h) \/ RunPipeline(h) \/ RecordFailure(h) \/ RecordSuccess(h)

Next ==
  \/ TickFires \/ TickReturns \/ SchedulerStops \/ SchedulerStarts
  \/ ListTenants \/ PassOver \/ trigger_lifecycle_action
  \/ \E c \in Callers : resolve_publisher_kwargs(c) \/ audit_begin(c) \/ publish(c)
  \/ \E i \in DOMAIN msgs : Deliver(i) \/ LeaseExpires(i)
  \/ \E h \in Slots : Handle(h) \/ HandlerDies(h)
  \/ \E m \in Mem : SoftDelete(m) \/ Recall(m)
  \/ \E r \in Retentions : ChangeSetting(r)
  \/ ClockTicks

(* While there is a message to deliver or a handler's await to end, one of   *)
(* these steps is taken in the end: deliveries are finite in number, so none *)
(* is starved.                                                               *)
Consume == (\E i \in DOMAIN msgs : Deliver(i)) \/ (\E h \in Slots : Handle(h))

Spec == Init /\ [][Next]_vars /\ WF_vars(Consume)

-----------------------------------------------------------------------------
(* Properties *)

Row == [status : {"pending", "in_progress", "success", "failure"}, fin : Nat,
        skipped : BOOLEAN, n : Nat, error : BOOLEAN, by : Callers, ret : Nat, slot : Nat]

Message == [st : {"none", "queued", "out", "acked", "dead"}, tries : Nat, acked : BOOLEAN]

Delivery == [pc : {"idle", "gate", "skip", "mark", "op", "fail", "record"}, id : Nat, n : Nat,
             gate : Nat, alone : BOOLEAN, blind : BOOLEAN]

(* finished_at is set exactly on a finished row, and only a failure that is *)
(* final or being retried carries an error message.                         *)
RowOK(r) ==
  /\ (r.fin # None) <=> r.status \in {"success", "failure"}
  /\ r.error => r.status \in {"failure", "in_progress"}

(* The variables have their types, the columns of an audit row agree, and a *)
(* delivery in progress is that of a published message.                     *)
TypeOK ==
  /\ kind \in Kinds /\ now \in 0 .. MaxTime
  /\ sched \in [pc : {"sleep", "post", "down"}, wake : Nat]
  /\ calls \in [Callers -> [pc : {"idle", "list", "resolve", "begin", "publish"},
                            ret : Nat, id : Nat, slot : Nat]]
  /\ setting \in 1 .. MaxRetention
  /\ rows \in Seq(Row) /\ \A i \in DOMAIN rows : RowOK(rows[i])
  /\ msgs \in Seq(Message) /\ Len(msgs) = Len(rows)
  /\ hs \in [Slots -> Delivery]
  /\ \A h \in Slots : Busy(h) => hs[h].id \in DOMAIN msgs /\ msgs[hs[h].id].st # "none"

(* A run that read the gate, and overlapped no other delivery, started at   *)
(* least Window after every success recorded before it.                     *)
NoRedundantRun ==
  \A j \in DOMAIN work : \A i \in 1 .. j - 1 :
    work[i].kept /\ work[i].alone /\ work[j].alone /\ ~work[j].blind
      => work[j].gate >= work[i].rec + Window

(* While nobody triggers by hand and nothing fails, a daily tick is skipped *)
(* only if an earlier tick was recorded later than the slack of Day -       *)
(* Window after its slot, or if a later tick overtook it in the queue.      *)
NoStarvedTick ==
  faults = 0 /\ (\A i \in DOMAIN rows : rows[i].by = "cron") =>
    \A j \in DOMAIN rows : rows[j].skipped =>
      \E i \in DOMAIN rows :
        /\ rows[i].status = "success"
        /\ i > j \/ (i < j /\ rows[i].fin + Window > rows[i].slot + Day)

(* The dedup gate of the pipeline operations is sound in both directions:   *)
(* no redundant run, and no daily tick starved.                             *)
GateSound == Gated => NoRedundantRun /\ NoStarvedTick

SuccessRecorded == \E i \in DOMAIN rows : rows[i].status = "success"

(* A message is acked only when its work is on record: its row is a success *)
(* for good, whatever late redeliveries of it do; or, for a gated action,   *)
(* the success that made it redundant is.                                   *)
AckedMeansRecorded ==
  \A i \in DOMAIN msgs : msgs[i].acked =>
    \/ rows[i].status = "success"
    \/ Gated /\ SuccessRecorded

Recorded == SumFunction([i \in DOMAIN rows |-> IF rows[i].status = "success" THEN rows[i].n ELSE 0])

InFlight == SumFunction([h \in Slots |-> IF hs[h].pc = "record" THEN hs[h].n ELSE 0])

(* The counts a sweep leaves in the audit trail never exceed what was swept, and account   *)
(* for all of it while nothing fails.                                       *)
CountsAddUp ==
  LET swept == Cardinality({m \in Mem : mem[m].swept})
  IN  ~Gated => /\ Recorded + InFlight <= swept
                /\ faults = 0 => Recorded + InFlight = swept

(* Work is done and reported once: the gated operations are neither         *)
(* repeated nor starved, the sweeps report what they swept.                 *)
RunsSound == GateSound /\ CountsAddUp

(* The audit trail is consistent and backs the acks: the columns of a row   *)
(* agree, and what is acked is on record.                                   *)
LedgerTrue == TypeOK /\ AckedMeansRecorded

(* Every published message is acked or dead-lettered in the end, whatever   *)
(* fails on the way.                                                        *)
EveryTriggerSettles ==
  <>[](\A i \in DOMAIN msgs : msgs[i].st \in {"none", "acked", "dead"})

(* An organization the purge's discovery leaves out has nothing to purge.   *)
PassedOverIsNoop == [][PassOver => Eligible(setting) = {}]_vars
=============================================================================
