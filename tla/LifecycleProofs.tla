---------------------------- MODULE LifecycleProofs ----------------------------
(***************************************************************************)
(* The scheduler's arithmetic, and what an acknowledged lifecycle message  *)
(* promises, for any number of triggers, deliveries and faults.            *)
(***************************************************************************)
EXTENDS Lifecycle, Integers, FiniteSetTheorems, TLAPS

-----------------------------------------------------------------------------
(* Schedule: an aligned task sleeps until the next occurrence of its slot.  *)
(* The delay is positive, so that a tick that fails at once is not repeated *)
(* in a tight loop, no longer than one period, and ends on the slot.        *)

(* A time is a number of full periods and a rest shorter than a period. *)
LEMMA PeriodAndRest ==
  ASSUME NEW p \in Nat \ {0}, NEW t \in Nat
  PROVE  \E r \in 0 .. p - 1 : t \div p \in Nat /\ t = (t \div p) * p + r
<1>1. t = (t \div p) * p + (t % p) /\ t % p \in 0 .. p - 1 /\ t \div p \in Int
  BY SMT
<1>2. t \div p \in Nat
  BY SMT
<1> QED
  BY Zenon, <1>1, <1>2

(* seconds_until_next_utc_hour is positive, at most a day, and ends at the  *)
(* task's time of some day: a daily task fires once a day and never drifts. *)
THEOREM DailyDelay ==
  ASSUME NEW day \in Nat \ {0}, NEW at \in 0 .. day - 1, NEW time \in Nat
  PROVE  LET d == seconds_until_next_utc_hour(day, at, time)
         IN  d \in 1 .. day /\ \E k \in Nat : time + d = k * day + at
<1> DEFINE q == time \div day
           s == q * day
<1>1. PICK r \in 0 .. day - 1 : q \in Nat /\ time = s + r
  BY Zenon, PeriodAndRest
<1>2. s \in Nat /\ (q + 1) * day = s + day /\ q + 1 \in Nat
  BY <1>1, SMT
<1>3. seconds_until_next_utc_hour(day, at, time)
        = IF s + at <= time THEN s + at + day - time ELSE s + at - time
  BY DEF seconds_until_next_utc_hour
<1> HIDE DEF q, s
<1>4. CASE s + at <= time
  <2>1. time + seconds_until_next_utc_hour(day, at, time) = (q + 1) * day + at
    BY <1>1, <1>2, <1>3, <1>4
  <2>2. seconds_until_next_utc_hour(day, at, time) \in 1 .. day
    BY <1>1, <1>2, <1>3, <1>4
  <2> QED
    BY Zenon, <2>1, <2>2, <1>2
<1>5. CASE ~(s + at <= time)
  <2>1. s = q * day
    BY Zenon DEF s
  <2>2. time + seconds_until_next_utc_hour(day, at, time) = q * day + at
    BY <2>1, <1>1, <1>2, <1>3, <1>5
  <2>3. seconds_until_next_utc_hour(day, at, time) \in 1 .. day
    BY <1>1, <1>2, <1>3, <1>5
  <2> QED
    BY Zenon, <2>2, <2>3, <1>1
<1> QED
  BY Zenon, <1>4, <1>5

(* seconds_until_next_utc_top_of_hour is positive, at most an hour, and     *)
(* ends on a full hour.                                                     *)
THEOREM HourlyDelay ==
  ASSUME NEW hour \in Nat \ {0}, NEW time \in Nat
  PROVE  LET d == seconds_until_next_utc_top_of_hour(hour, time)
         IN  d \in 1 .. hour /\ \E k \in Nat : time + d = k * hour
<1> DEFINE q == time \div hour
           s == q * hour
<1>1. PICK r \in 0 .. hour - 1 : q \in Nat /\ time = s + r
  BY Zenon, PeriodAndRest
<1>2. s \in Nat /\ (q + 1) * hour = s + hour /\ q + 1 \in Nat
  BY <1>1, SMT
<1>3. seconds_until_next_utc_top_of_hour(hour, time) = s + hour - time
  BY DEF seconds_until_next_utc_top_of_hour
<1> HIDE DEF q, s
<1>4. time + seconds_until_next_utc_top_of_hour(hour, time) = (q + 1) * hour
  BY <1>1, <1>2, <1>3
<1>5. seconds_until_next_utc_top_of_hour(hour, time) \in 1 .. hour
  BY <1>1, <1>2, <1>3
<1> QED
  BY Zenon, <1>2, <1>4, <1>5

(* Adding the days from today to a weekday, or a week more, leads there. *)
LEMMA WeekdayReached ==
  ASSUME NEW q \in Nat, NEW w \in 0 .. 6
  PROVE  LET x == (w + 7 - (q % 7)) % 7
         IN  x \in 0 .. 6 /\ (q + x) % 7 = w /\ (q + x + 7) % 7 = w
BY SMT

(* seconds_until_next_utc_weekday_hour is positive, at most a week, and     *)
(* ends at the task's time of a day that is the task's weekday.             *)
THEOREM WeeklyDelay ==
  ASSUME NEW day \in Nat \ {0}, NEW at \in 0 .. day - 1, NEW w \in 0 .. 6, NEW time \in Nat
  PROVE  LET d == seconds_until_next_utc_weekday_hour(day, w, at, time)
         IN  d \in 1 .. 7 * day /\ \E k \in Nat : k % 7 = w /\ time + d = k * day + at
<1> DEFINE q == time \div day
           s == q * day
           x == (w + 7 - (q % 7)) % 7
           z == x * day
           d == seconds_until_next_utc_weekday_hour(day, w, at, time)
<1>1. PICK r \in 0 .. day - 1 : q \in Nat /\ time = s + r
  BY Zenon, PeriodAndRest
<1>2. x \in 0 .. 6 /\ (q + x) % 7 = w /\ (q + x + 7) % 7 = w
  BY Zenon, <1>1, WeekdayReached
<1>3. d = IF s + at + z <= time THEN s + at + z + 7 * day - time ELSE s + at + z - time
  BY DEF seconds_until_next_utc_weekday_hour
<1> HIDE DEF q, x, d
<1>4. s \in Nat /\ (q + x) * day = s + z /\ (q + x + 7) * day = s + z + 7 * day
  BY <1>1, <1>2, SMT
<1>5. z \in 0 .. 6 * day /\ (z = 0 \/ z >= day)
  <2>1. x = 0 \/ x = 1 \/ x = 2 \/ x = 3 \/ x = 4 \/ x = 5 \/ x = 6
    BY <1>2
  <2> QED
    BY <2>1, SMT
<1> HIDE DEF s, z
<1>6. CASE s + at + z <= time
  <2>1. d \in 1 .. 7 * day
    BY <1>1, <1>3, <1>4, <1>5, <1>6
  <2>2. time + d = (q + x + 7) * day + at
    BY <1>1, <1>3, <1>4, <1>5, <1>6
  <2>3. q + x + 7 \in Nat
    BY <1>1, <1>2
  <2> QED
    BY Zenon, <2>1, <2>2, <2>3, <1>2 DEF d
<1>7. CASE ~(s + at + z <= time)
  <2>1. d \in 1 .. 7 * day
    BY <1>1, <1>3, <1>4, <1>5, <1>7
  <2>2. time + d = (q + x) * day + at
    BY <1>1, <1>3, <1>4, <1>5, <1>7
  <2>3. q + x \in Nat
    BY <1>1, <1>2
  <2> QED
    BY Zenon, <2>1, <2>2, <2>3, <1>2 DEF d
<1> QED
  BY Zenon, <1>6, <1>7

-----------------------------------------------------------------------------
(* Lifecycle.                                                              *)

(* AckedMeansRecorded is not inductive: a delivery that skips acks without  *)
(* a row of its own when its update fails, so the success it saw must still *)
(* be there; and a row is finalized by id, so the ids must be known ones.   *)
IInv ==
  /\ TypeOK
  /\ AckedMeansRecorded
  /\ \A c \in Callers : calls[c].pc = "publish" => calls[c].id \in DOMAIN rows
  /\ \A h \in Slots : hs[h].pc = "gate" => Gated
  /\ \A h \in Slots : hs[h].pc = "skip" => Gated /\ SuccessRecorded

(* What a step may do to the table: rows stay well formed, and a success    *)
(* stays a success.                                                         *)
RowsGrow ==
  /\ rows' \in Seq(Row) /\ Len(rows') = Len(rows)
  /\ \A i \in DOMAIN rows : RowOK(rows[i])'
  /\ \A i \in DOMAIN rows : rows[i].status = "success" => rows'[i].status = "success"

(* What a step may do to the messages: one that was published stays so.     *)
MsgsGrow ==
  /\ msgs' \in Seq(Message) /\ Len(msgs') = Len(msgs)
  /\ \A i \in DOMAIN msgs : msgs[i].st # "none" => msgs'[i].st # "none"

\* The scheduler's next wake-up is a time.
LEMMA WakeIsTime ==
  ASSUME TypeOK
  PROVE  NextWake \in Nat
<1>1. now \in Nat /\ Day \in Nat \ {0} /\ RunAt \in 0 .. Day - 1
  BY LifecycleAssumption DEF TypeOK
<1>2. seconds_until_next_utc_hour(Day, RunAt, now) \in 1 .. Day
  BY Zenon, <1>1, DailyDelay
<1> QED
  BY <1>1, <1>2 DEF NextWake

\* A recorded success stays recorded while the audit rows only grow.
LEMMA SuccessStays ==
  ASSUME TypeOK, RowsGrow, SuccessRecorded
  PROVE  SuccessRecorded'
<1>1. DOMAIN rows' = DOMAIN rows
  BY DEF RowsGrow, TypeOK
<1> QED
  BY Zenon, <1>1 DEF RowsGrow, SuccessRecorded

(* Storage's finalize keeps every success, and records the one it is given. *)
LEMMA FinalizeGrows ==
  ASSUME TypeOK, NEW i \in DOMAIN rows, NEW status \in {"in_progress", "success", "failure"},
         NEW skipped \in BOOLEAN, NEW n \in Nat,
         lifecycle_audit_finalize(i, status, skipped, n)
  PROVE  RowsGrow /\ (status = "success" => rows'[i].status = "success")
<1>0. rows \in Seq(Row) /\ now \in 0 .. MaxTime /\ MaxTime \in Nat /\ \A j \in DOMAIN rows : RowOK(rows[j])
  BY Zenon, LifecycleAssumption DEF TypeOK
<1>1. CASE rows[i].status = "success"
  <2>1. rows' = rows
    BY Zenon, <1>1 DEF lifecycle_audit_finalize
  <2> QED
    BY <2>1, <1>0, <1>1 DEF RowsGrow, RowOK, None
<1>2. CASE rows[i].status # "success"
  <2> DEFINE r == Finalized(rows[i], status, skipped, n)
  <2>1. rows' = [rows EXCEPT ![i] = r]
    BY <1>2 DEF lifecycle_audit_finalize
  <2>2. rows[i] \in Row
    BY <1>0
  <2>a. None \in Nat /\ now \in Nat
    BY <1>0 DEF None
  <2>3. r \in Row /\ r.status = status /\ r.fin = (IF status = "in_progress" THEN None ELSE now)
    BY ZenonT(60), <2>2, <2>a DEF Row, Finalized
  <2>b. r.error => status # "success"
    BY Zenon, <2>2 DEF Row, Finalized
  <2>4. RowOK(r)
    BY <2>3, <2>b, <1>0 DEF RowOK, None
  <2> HIDE DEF r
  <2>5. rows' \in Seq(Row) /\ Len(rows') = Len(rows) /\ DOMAIN rows' = DOMAIN rows
    BY <2>1, <2>3, <1>0
  <2>6. \A j \in DOMAIN rows : rows'[j] = IF j = i THEN r ELSE rows[j]
    BY Zenon, <2>1, <1>0
  <2>7. \A j \in DOMAIN rows : RowOK(rows[j])'
    BY Zenon, <2>4, <2>6, <1>0 DEF RowOK, None
  <2> QED
    BY Zenon, <2>3, <2>5, <2>6, <2>7, <1>2 DEF RowsGrow
<1> QED
  BY Zenon, <1>1, <1>2

-----------------------------------------------------------------------------
(* A step of an entry point, of the scheduler or of the clock. *)
LEMMA Elsewhere ==
  ASSUME IInv, UNCHANGED <<kind, rows, msgs, hs>>,
         now' \in 0 .. MaxTime, sched' \in [pc : {"sleep", "post", "down"}, wake : Nat],
         calls' \in [Callers -> [pc : {"idle", "list", "resolve", "begin", "publish"},
                                 ret : Nat, id : Nat, slot : Nat]],
         setting' \in 1 .. MaxRetention,
         \A c \in Callers : calls'[c].pc = "publish" => calls'[c].id \in DOMAIN rows
  PROVE  IInv'
<1>1. TypeOK'
  BY Zenon DEF IInv, TypeOK, RowOK, Busy, None
<1>2. AckedMeansRecorded'
  BY Zenon DEF IInv, AckedMeansRecorded, Gated, SuccessRecorded
<1>3. /\ \A h \in Slots : hs'[h].pc = "gate" => Gated'
      /\ \A h \in Slots : hs'[h].pc = "skip" => Gated' /\ SuccessRecorded'
  BY Zenon DEF IInv, Gated, SuccessRecorded
<1> QED
  BY Zenon, <1>1, <1>2, <1>3 DEF IInv

(* A step of a delivery. *)
LEMMA Delivering ==
  ASSUME IInv, UNCHANGED <<kind, now, sched, calls, setting>>, RowsGrow, MsgsGrow,
         hs' \in [Slots -> Delivery],
         \A h \in Slots : hs'[h].pc # "idle" => /\ hs'[h].id \in DOMAIN msgs
                                                /\ msgs'[hs'[h].id].st # "none",
         \A h \in Slots : hs'[h].pc = "gate" => hs[h].pc = "gate" \/ Gated,
         \A h \in Slots : hs'[h].pc = "skip" => hs[h].pc = "skip" \/ (Gated /\ SuccessRecorded),
         \A i \in DOMAIN msgs : msgs'[i].acked =>
           msgs[i].acked \/ rows'[i].status = "success" \/ (Gated /\ SuccessRecorded)
  PROVE  IInv'
<1>0. TypeOK /\ DOMAIN rows' = DOMAIN rows /\ DOMAIN msgs' = DOMAIN msgs /\ DOMAIN msgs = DOMAIN rows
  BY DEF IInv, TypeOK, RowsGrow, MsgsGrow
<1>1. TypeOK'
  BY Zenon, <1>0 DEF IInv, TypeOK, RowsGrow, MsgsGrow, Busy
<1>2. Gated' = Gated /\ (SuccessRecorded => SuccessRecorded')
  BY <1>0, SuccessStays DEF Gated
<1>3. AckedMeansRecorded'
  <2> SUFFICES ASSUME NEW i \in DOMAIN msgs, msgs'[i].acked
               PROVE  rows'[i].status = "success" \/ (Gated' /\ SuccessRecorded')
    BY <1>0 DEF AckedMeansRecorded
  <2>1. CASE msgs[i].acked
    <3>1. rows[i].status = "success" \/ (Gated /\ SuccessRecorded)
      BY Zenon, <2>1 DEF IInv, AckedMeansRecorded
    <3> QED
      BY Zenon, <3>1, <1>0, <1>2 DEF RowsGrow
  <2> QED
    BY Zenon, <2>1, <1>2
<1>4. /\ \A h \in Slots : hs'[h].pc = "gate" => Gated'
      /\ \A h \in Slots : hs'[h].pc = "skip" => Gated' /\ SuccessRecorded'
  BY Zenon, <1>2 DEF IInv
<1>5. \A c \in Callers : calls'[c].pc = "publish" => calls'[c].id \in DOMAIN rows'
  BY Zenon, <1>0 DEF IInv
<1> QED
  BY Zenon, <1>1, <1>3, <1>4, <1>5 DEF IInv
-----------------------------------------------------------------------------
\* No row, no message.
LEMMA InitInv == Init => IInv
<1> SUFFICES ASSUME Init PROVE IInv
  OBVIOUS
<1>1. kind \in Kinds /\ now \in 0 .. MaxTime /\ MaxTime \in Nat /\ MaxRetention \in Nat \ {0}
  BY Zenon, LifecycleAssumption DEF Init
<1>2. seconds_until_next_utc_hour(Day, RunAt, now) \in 1 .. Day
  BY <1>1, LifecycleAssumption, DailyDelay
<1>3. sched \in [pc : {"sleep", "post", "down"}, wake : Nat]
  BY <1>1, <1>2, LifecycleAssumption DEF Init, NextWake
<1>4. setting \in 1 .. MaxRetention
  BY <1>1, LifecycleAssumption DEF Init
<1>5. calls \in [Callers -> [pc : {"idle", "list", "resolve", "begin", "publish"},
                             ret : Nat, id : Nat, slot : Nat]]
      /\ \A c \in Callers : calls[c].pc = "idle"
  BY Zenon, <1>1 DEF Init, NoCall
<1>6. hs \in [Slots -> Delivery] /\ \A h \in Slots : hs[h].pc = "idle"
  BY Zenon DEF Init, Idle, Delivery
<1>7. rows = <<>> /\ msgs = <<>>
  BY Zenon DEF Init
<1> QED
  BY SMTT(30), <1>1, <1>3, <1>4, <1>5, <1>6, <1>7 DEF IInv, TypeOK, AckedMeansRecorded, Busy

(* The scheduler, the entry points before the row exists, and the users. *)
LEMMA CallerSteps ==
  ASSUME IInv,
         \/ TickFires \/ TickReturns \/ SchedulerStops \/ SchedulerStarts
         \/ ListTenants \/ PassOver \/ trigger_lifecycle_action
         \/ \E c \in Callers : resolve_publisher_kwargs(c)
         \/ \E m \in Mem : SoftDelete(m) \/ Recall(m)
         \/ \E r \in Retentions : ChangeSetting(r)
         \/ ClockTicks
  PROVE  IInv'
<1> DEFINE Call == [pc : {"idle", "list", "resolve", "begin", "publish"},
                    ret : Nat, id : Nat, slot : Nat]
           Sched == [pc : {"sleep", "post", "down"}, wake : Nat]
<1>1. /\ TypeOK /\ now \in 0 .. MaxTime /\ now \in Nat /\ MaxTime \in Nat /\ MaxRetention \in Nat \ {0}
      /\ sched \in Sched /\ calls \in [Callers -> Call] /\ setting \in 1 .. MaxRetention
      /\ \A c \in Callers : calls[c].pc = "publish" => calls[c].id \in DOMAIN rows
      /\ NextWake \in Nat
  BY SMTT(30), LifecycleAssumption, WakeIsTime DEF IInv, TypeOK
<1>2. UNCHANGED <<kind, rows, msgs, hs>>
  BY Zenon DEF TickFires, TickReturns, SchedulerStops, SchedulerStarts, ListTenants, PassOver,
         trigger_lifecycle_action, resolve_publisher_kwargs, SoftDelete, Recall, ChangeSetting,
         ClockTicks
<1>3. now' \in 0 .. MaxTime
  <2>1. CASE ClockTicks
    <3>1. Horizon[kind] \in 0 .. MaxTime
      BY Zenon, <1>1, LifecycleAssumption DEF TypeOK
    <3> QED
      BY <2>1, <3>1, <1>1 DEF ClockTicks
  <2> QED
  BY Zenon, <2>1, <1>1
     DEF TickFires, TickReturns, SchedulerStops, SchedulerStarts, ListTenants, PassOver,
         trigger_lifecycle_action, resolve_publisher_kwargs, SoftDelete, Recall, ChangeSetting
<1>4. sched' \in Sched
  <2>1. CASE TickFires
    BY Zenon, <2>1, <1>1 DEF TickFires
  <2>2. CASE TickReturns \/ SchedulerStarts
    BY <2>2, <1>1 DEF TickReturns, SchedulerStarts
  <2>3. CASE SchedulerStops
    BY Zenon, <2>3, <1>1 DEF SchedulerStops
  <2> QED
    BY Zenon, <2>1, <2>2, <2>3, <1>1
       DEF ListTenants, PassOver, trigger_lifecycle_action, resolve_publisher_kwargs, SoftDelete,
           Recall, ChangeSetting, ClockTicks
<1>5. setting' \in 1 .. MaxRetention
  BY Zenon, <1>1, LifecycleAssumption
     DEF TickFires, TickReturns, SchedulerStops, SchedulerStarts, ListTenants, PassOver,
         trigger_lifecycle_action, resolve_publisher_kwargs, SoftDelete, Recall, ChangeSetting,
         ClockTicks
<1>6. /\ calls' \in [Callers -> Call]
      /\ \A c \in Callers : calls'[c].pc = "publish" => calls'[c].id \in DOMAIN rows
  <2>0. NoCall \in Call /\ NoCall.pc = "idle"
    BY Zenon, <1>1 DEF NoCall
  <2>1. CASE TickFires
    <3>1. [NoCall EXCEPT !.pc = "list", !.slot = sched.wake] \in Call
          /\ [NoCall EXCEPT !.pc = "list", !.slot = sched.wake].pc = "list"
      BY Zenon, <1>1 DEF NoCall
    <3>2. calls' = [calls EXCEPT !["cron"] = [NoCall EXCEPT !.pc = "list", !.slot = sched.wake]]
      BY Zenon, <2>1 DEF TickFires
    <3> QED
      BY Zenon, <3>1, <3>2, <1>1
  <2>2. CASE trigger_lifecycle_action
    <3>1. [NoCall EXCEPT !.pc = "resolve", !.slot = now] \in Call
          /\ [NoCall EXCEPT !.pc = "resolve", !.slot = now].pc = "resolve"
      BY Zenon, <1>1 DEF NoCall
    <3>2. calls' = [calls EXCEPT !["manual"] = [NoCall EXCEPT !.pc = "resolve", !.slot = now]]
      BY Zenon, <2>2 DEF trigger_lifecycle_action
    <3> QED
      BY Zenon, <3>1, <3>2, <1>1
  <2>3. CASE ListTenants
    BY <2>3, <2>0, <1>1 DEF ListTenants, Callers
  <2>4. CASE PassOver
    BY ZenonT(60), <2>4, <2>0, <1>1 DEF PassOver
  <2>5. ASSUME NEW c \in Callers, resolve_publisher_kwargs(c)
        PROVE  /\ calls' \in [Callers -> Call]
               /\ \A d \in Callers : calls'[d].pc = "publish" => calls'[d].id \in DOMAIN rows
    <3>1. CASE calls' = [calls EXCEPT ![c] = NoCall]
      BY Zenon, <3>1, <2>0, <1>1
    <3>2. ASSUME NEW ret \in Nat, calls' = [calls EXCEPT ![c].pc = "begin", ![c].ret = ret]
          PROVE  /\ calls' \in [Callers -> Call]
                 /\ \A d \in Callers : calls'[d].pc = "publish" => calls'[d].id \in DOMAIN rows
      <4> DEFINE new == [calls[c] EXCEPT !.pc = "begin", !.ret = ret]
      <4>1. calls[c] \in Call
        BY Zenon, <1>1
      <4>2. new \in Call /\ new.pc = "begin"
        BY Zenon, <4>1, <3>2
      <4>3. calls' = [calls EXCEPT ![c] = new]
        BY Zenon, <3>2, <1>1
      <4> HIDE DEF new, Call
      <4> QED
        BY Zenon, <4>2, <4>3, <1>1
    <3> QED
      BY <2>5, <3>1, <3>2, <1>1, LifecycleAssumption DEF resolve_publisher_kwargs
  <2>6. CASE UNCHANGED calls
    BY Zenon, <2>6, <1>1
  <2> QED
    BY ZenonT(60), <2>1, <2>2, <2>3, <2>4, <2>5, <2>6
       DEF TickReturns, SchedulerStops, SchedulerStarts, SoftDelete, Recall, ChangeSetting, ClockTicks
<1> QED
  BY ZenonT(60), <1>2, <1>3, <1>4, <1>5, <1>6, Elsewhere

-----------------------------------------------------------------------------
(* The row and its message are appended together. *)
LEMMA BeginStep ==
  ASSUME IInv, NEW c \in Callers, audit_begin(c)
  PROVE  IInv'
<1> DEFINE Call == [pc : {"idle", "list", "resolve", "begin", "publish"},
                    ret : Nat, id : Nat, slot : Nat]
<1>0. /\ TypeOK /\ MaxTime \in Nat /\ MaxRetention \in Nat /\ rows \in Seq(Row) /\ msgs \in Seq(Message)
      /\ Len(msgs) = Len(rows) /\ calls \in [Callers -> Call]
      /\ \A d \in Callers : calls[d].pc = "publish" => calls[d].id \in DOMAIN rows
  BY Zenon, LifecycleAssumption DEF IInv, TypeOK
<1>1. CASE Fault /\ calls' = [calls EXCEPT ![c] = NoCall] /\ UNCHANGED <<rows, msgs>>
  <2>1. NoCall \in Call /\ NoCall.pc = "idle"
    BY Zenon, <1>0 DEF NoCall
  <2>2. /\ calls' \in [Callers -> Call]
        /\ \A d \in Callers : calls'[d].pc = "publish" => calls'[d].id \in DOMAIN rows
    BY Zenon, <2>1, <1>0, <1>1
  <2>3. UNCHANGED <<kind, now, sched, setting, hs>>
    BY Zenon DEF audit_begin
  <2> QED
    BY ZenonT(60), <1>0, <1>1, <2>2, <2>3, Elsewhere DEF TypeOK
<1>2. CASE /\ rows' = Append(rows, lifecycle_audit_create(c, calls[c].ret, calls[c].slot))
           /\ msgs' = Append(msgs, [st |-> "none", tries |-> 0, acked |-> FALSE])
           /\ calls' = [calls EXCEPT ![c].pc = "publish", ![c].id = Len(rows) + 1]
  <2> DEFINE row == lifecycle_audit_create(c, calls[c].ret, calls[c].slot)
             msg == [st |-> "none", tries |-> 0, acked |-> FALSE]
  <2>1. row \in Row /\ RowOK(row) /\ msg \in Message /\ ~msg.acked
    BY <1>0 DEF lifecycle_audit_create, Row, RowOK, None, Message
  <2> HIDE DEF row, msg
  <2>2. /\ rows' \in Seq(Row) /\ msgs' \in Seq(Message) /\ Len(msgs') = Len(rows')
        /\ DOMAIN rows' = DOMAIN rows \cup {Len(rows) + 1}
        /\ DOMAIN msgs' = DOMAIN msgs \cup {Len(rows) + 1}
        /\ \A i \in DOMAIN rows : rows'[i] = rows[i]
        /\ \A i \in DOMAIN msgs : msgs'[i] = msgs[i]
        /\ rows'[Len(rows) + 1] = row /\ msgs'[Len(rows) + 1] = msg
    BY <1>0, <1>2, <2>1 DEF row, msg
  <2>3. UNCHANGED <<kind, now, sched, setting, hs>>
    BY Zenon DEF audit_begin
  <2>4. calls' \in [Callers -> Call]
    <3>0. calls[c] \in Call /\ Len(rows) + 1 \in Nat
      BY <1>0
    <3>1. [calls[c] EXCEPT !.pc = "publish", !.id = Len(rows) + 1] \in Call
      BY Zenon, <3>0
    <3>2. calls' = [calls EXCEPT ![c] = [calls[c] EXCEPT !.pc = "publish", !.id = Len(rows) + 1]]
      BY Zenon, <1>0, <1>2
    <3> QED
      BY Zenon, <3>1, <3>2, <1>0
  <2>5. \A d \in Callers : calls'[d].pc = "publish" => calls'[d].id \in DOMAIN rows'
    BY SMTT(30), <1>0, <1>2, <2>2
  <2>6. \A i \in DOMAIN rows' : RowOK(rows[i])'
    <3> SUFFICES ASSUME NEW i \in DOMAIN rows' PROVE RowOK(rows[i])'
      OBVIOUS
    <3>1. CASE i \in DOMAIN rows
      BY Zenon, <3>1, <2>2, <1>0 DEF TypeOK, RowOK, None
    <3>2. CASE i = Len(rows) + 1
      BY Zenon, <3>2, <2>1, <2>2 DEF RowOK, None
    <3> QED
      BY Zenon, <3>1, <3>2, <2>2
  <2>7. \A h \in Slots : hs'[h].pc # "idle" => hs'[h].id \in DOMAIN msgs' /\ msgs'[hs'[h].id].st # "none"
    BY Zenon, <2>2, <2>3, <1>0 DEF TypeOK, Busy
  <2>8. TypeOK'
    <3>1. kind' \in Kinds /\ now' \in 0 .. MaxTime /\ setting' \in 1 .. MaxRetention /\ hs' \in [Slots -> Delivery]
          /\ sched' \in [pc : {"sleep", "post", "down"}, wake : Nat]
      BY Zenon, <2>3, <1>0 DEF TypeOK
    <3> QED
      BY ZenonT(60), <3>1, <2>2, <2>4, <2>6, <2>7 DEF TypeOK, Busy
  <2>9. Gated' = Gated /\ (SuccessRecorded => SuccessRecorded')
    BY Zenon, <2>2, <2>3 DEF Gated, SuccessRecorded
  <2>10. AckedMeansRecorded'
    BY <2>1, <2>2, <2>9, <1>0 DEF IInv, AckedMeansRecorded
  <2>11. /\ \A h \in Slots : hs'[h].pc = "gate" => Gated'
         /\ \A h \in Slots : hs'[h].pc = "skip" => Gated' /\ SuccessRecorded'
    BY Zenon, <2>3, <2>9 DEF IInv
  <2> QED
    BY ZenonT(60), <2>5, <2>8, <2>10, <2>11 DEF IInv
<1> QED
  BY Zenon, <1>1, <1>2 DEF audit_begin

\* A fan-out publishes its messages.
LEMMA PublishStep ==
  ASSUME IInv, NEW c \in Callers, publish(c)
  PROVE  IInv'
<1> DEFINE Call == [pc : {"idle", "list", "resolve", "begin", "publish"},
                    ret : Nat, id : Nat, slot : Nat]
           id == calls[c].id
<1>0. /\ TypeOK /\ MaxRetention \in Nat /\ msgs \in Seq(Message) /\ Len(msgs) = Len(rows)
      /\ calls \in [Callers -> Call] /\ rows \in Seq(Row)
      /\ \A d \in Callers : calls[d].pc = "publish" => calls[d].id \in DOMAIN rows
  BY Zenon, LifecycleAssumption DEF IInv, TypeOK
<1>1. NoCall \in Call /\ NoCall.pc = "idle"
  BY Zenon, <1>0 DEF NoCall
<1>2. /\ calls' \in [Callers -> Call]
      /\ \A d \in Callers : calls'[d].pc = "publish" => calls'[d].id \in DOMAIN rows
  BY Zenon, <1>0, <1>1 DEF publish
<1>3. UNCHANGED <<kind, now, sched, setting, rows, hs>>
  BY Zenon DEF publish
<1>4. CASE UNCHANGED msgs
  BY Zenon, <1>0, <1>2, <1>3, <1>4, Elsewhere DEF TypeOK
<1>5. CASE msgs' = [msgs EXCEPT ![id].st = "queued"]
  <2>1. id \in DOMAIN msgs
    BY <1>0 DEF publish
  <2> DEFINE msg == [msgs[id] EXCEPT !.st = "queued"]
  <2>a. msgs[id] \in Message
    BY <1>0, <2>1
  <2>b. msg \in Message /\ msg.acked = msgs[id].acked /\ msg.st = "queued" /\ msgs' = [msgs EXCEPT ![id] = msg]
    BY Zenon, <1>5, <2>a DEF Message
  <2> HIDE DEF msg
  <2>2. /\ msgs' \in Seq(Message) /\ Len(msgs') = Len(msgs) /\ DOMAIN msgs' = DOMAIN msgs
        /\ \A i \in DOMAIN msgs : msgs'[i].acked = msgs[i].acked
    BY <1>0, <2>1, <2>b
  <2>3. \A i \in DOMAIN msgs : msgs[i].st # "none" => msgs'[i].st # "none"
    BY Zenon, <1>0, <2>1, <2>b
  <2>4. TypeOK'
    BY ZenonT(60), <1>0, <1>2, <1>3, <2>2, <2>3 DEF TypeOK, Busy, RowOK, None
  <2>5. AckedMeansRecorded'
    BY Zenon, <1>3, <2>2 DEF IInv, AckedMeansRecorded, Gated, SuccessRecorded
  <2>6. /\ \A h \in Slots : hs'[h].pc = "gate" => Gated'
        /\ \A h \in Slots : hs'[h].pc = "skip" => Gated' /\ SuccessRecorded'
    BY Zenon, <1>3 DEF IInv, Gated, SuccessRecorded
  <2> QED
    BY ZenonT(60), <1>2, <1>3, <2>4, <2>5, <2>6 DEF IInv
<1> QED
  BY Zenon, <1>4, <1>5 DEF publish

-----------------------------------------------------------------------------
(* What replacing one message, and one delivery, leaves alone. *)
LEMMA MsgUpdate ==
  ASSUME TypeOK, NEW i \in DOMAIN msgs, NEW msg \in Message, msg.st # "none",
         msgs' = [msgs EXCEPT ![i] = msg]
  PROVE  MsgsGrow /\ \A j \in DOMAIN msgs : msgs'[j] = IF j = i THEN msg ELSE msgs[j]
<1>1. msgs \in Seq(Message)
  BY Zenon DEF TypeOK
<1> QED
  BY <1>1 DEF MsgsGrow

\* No message moved.
LEMMA MsgsStay ==
  ASSUME TypeOK, msgs' = msgs
  PROVE  MsgsGrow
BY Zenon DEF TypeOK, MsgsGrow

\* No audit row moved.
LEMMA RowsStay ==
  ASSUME TypeOK, UNCHANGED rows
  PROVE  RowsGrow
BY Zenon DEF TypeOK, RowsGrow, RowOK, None

(* A delivery moves on to its next await. *)
LEMMA MovesOn ==
  ASSUME IInv, UNCHANGED <<kind, now, sched, calls, setting, msgs>>, RowsGrow,
         NEW h \in Slots, Busy(h), NEW d \in Delivery, hs' = [hs EXCEPT ![h] = d],
         d.id = hs[h].id, d.pc # "gate", d.pc = "skip" => Gated /\ SuccessRecorded
  PROVE  IInv'
<1>1. TypeOK /\ hs \in [Slots -> Delivery] /\ MsgsGrow
  BY Zenon, MsgsStay DEF IInv, TypeOK
<1>2. \A g \in Slots : hs'[g] = IF g = h THEN d ELSE hs[g]
  BY <1>1
<1>3. hs' \in [Slots -> Delivery]
  BY <1>1
<1>4. \A g \in Slots : hs'[g].pc # "idle" => hs'[g].id \in DOMAIN msgs /\ msgs'[hs'[g].id].st # "none"
  BY Zenon, <1>1, <1>2 DEF TypeOK, Busy
<1>5. \A g \in Slots : /\ hs'[g].pc = "gate" => hs[g].pc = "gate"
                       /\ hs'[g].pc = "skip" => hs[g].pc = "skip" \/ (Gated /\ SuccessRecorded)
  BY Zenon, <1>2
<1> QED
  BY ZenonT(60), <1>1, <1>3, <1>4, <1>5, Delivering

(* A delivery ends: its message is acked only if it is recorded. *)
LEMMA Ends ==
  ASSUME IInv, UNCHANGED <<kind, now, sched, calls, setting>>, RowsGrow,
         NEW h \in Slots, Busy(h),
         Nack(h) \/ (Ack(h) /\ (rows'[hs[h].id].status = "success" \/ (Gated /\ SuccessRecorded)))
  PROVE  IInv'
<1> DEFINE i == hs[h].id
           acked == [msgs[i] EXCEPT !.st = "acked", !.acked = TRUE]
           again == [msgs[i] EXCEPT !.st = IF @ = "acked" THEN @
                       ELSE IF msgs[i].tries < MaxDeliveries THEN "queued" ELSE "dead"]
<1>1. TypeOK /\ hs \in [Slots -> Delivery] /\ i \in DOMAIN msgs /\ msgs[i] \in Message /\ msgs \in Seq(Message)
  BY DEF IInv, TypeOK
<1>2. Idle \in Delivery /\ Idle.pc = "idle"
  BY Zenon DEF Idle, Delivery
<1>3. hs' = [hs EXCEPT ![h] = Idle]
  BY Zenon DEF Ack, Nack
<1>4. hs' \in [Slots -> Delivery] /\ \A g \in Slots : hs'[g].pc # "idle" => g # h /\ hs'[g] = hs[g]
  BY Zenon, <1>1, <1>2, <1>3
<1>5. \A g \in Slots : hs'[g].pc \in {"gate", "skip"} => hs'[g].pc = hs[g].pc
  BY Zenon, <1>4
<1>6. CASE Nack(h)
  <2>1. again \in Message /\ again.st # "none" /\ again.acked = msgs[i].acked
    BY Zenon, <1>1 DEF Message
  <2>2. msgs' = [msgs EXCEPT ![i] = again]
    BY Zenon, <1>6, <1>1 DEF Nack, Requeued
  <2> HIDE DEF again, i
  <2>3. MsgsGrow /\ \A j \in DOMAIN msgs : msgs'[j] = IF j = i THEN again ELSE msgs[j]
    BY ZenonT(60), <2>1, <2>2, <1>1, MsgUpdate
  <2>4. \A g \in Slots : hs'[g].pc # "idle" => hs'[g].id \in DOMAIN msgs /\ msgs'[hs'[g].id].st # "none"
    BY ZenonT(60), <1>1, <1>4, <2>3 DEF TypeOK, Busy, MsgsGrow
  <2>5. \A j \in DOMAIN msgs : msgs'[j].acked => msgs[j].acked
    BY Zenon, <2>1, <2>3
  <2> QED
    BY ZenonT(60), <1>4, <1>5, <2>3, <2>4, <2>5, Delivering
<1>7. CASE Ack(h) /\ (rows'[i].status = "success" \/ (Gated /\ SuccessRecorded))
  <2>1. acked \in Message /\ acked.st # "none"
    BY Zenon, <1>1 DEF Message
  <2>2. msgs' = [msgs EXCEPT ![i] = acked]
    BY Zenon, <1>7, <1>1 DEF Ack
  <2> HIDE DEF acked, i
  <2>3. MsgsGrow /\ \A j \in DOMAIN msgs : msgs'[j] = IF j = i THEN acked ELSE msgs[j]
    BY ZenonT(60), <2>1, <2>2, <1>1, MsgUpdate
  <2>4. \A g \in Slots : hs'[g].pc # "idle" => hs'[g].id \in DOMAIN msgs /\ msgs'[hs'[g].id].st # "none"
    BY ZenonT(60), <1>1, <1>4, <2>3 DEF TypeOK, Busy, MsgsGrow
  <2>5. \A j \in DOMAIN msgs : msgs'[j].acked =>
          msgs[j].acked \/ rows'[j].status = "success" \/ (Gated /\ SuccessRecorded)
    BY Zenon, <1>7, <2>3
  <2> QED
    BY ZenonT(60), <1>4, <1>5, <2>3, <2>4, <2>5, Delivering
<1> QED
  BY SMTT(30), <1>6, <1>7

\* The bus delivers a message.
LEMMA DeliverStep ==
  ASSUME IInv, NEW i \in DOMAIN msgs, Deliver(i)
  PROVE  IInv'
<1> DEFINE h == CHOOSE k \in Slots : ~Busy(k)
           d == [Idle EXCEPT !.pc = IF Gated THEN "gate" ELSE "mark", !.id = i, !.gate = now,
                             !.alone = \A k \in Slots : ~Busy(k)]
           out == [msgs[i] EXCEPT !.st = "out", !.tries = @ + 1]
<1>1. /\ TypeOK /\ hs \in [Slots -> Delivery] /\ msgs[i] \in Message /\ msgs \in Seq(Message)
      /\ i \in Nat /\ now \in Nat
  BY LifecycleAssumption DEF IInv, TypeOK
<1>a. msgs[i].tries + 1 \in Nat
  BY <1>1 DEF Message
<1>2. out \in Message /\ out.st # "none" /\ out.acked = msgs[i].acked
  BY Zenon, <1>1, <1>a DEF Message
<1>3. msgs' = [msgs EXCEPT ![i] = out]
  BY Zenon, <1>1 DEF Deliver
<1>4. /\ h \in Slots /\ ~Busy(h)
      /\ hs' = [g \in Slots |-> IF g = h THEN d
                                ELSE IF Busy(g) THEN [hs[g] EXCEPT !.alone = FALSE] ELSE hs[g]]
  BY Zenon DEF Deliver
<1>5. d \in Delivery /\ d.pc \in {"gate", "mark"} /\ d.id = i /\ (d.pc = "gate" => Gated)
  <2>1. (\A k \in Slots : ~Busy(k)) \in BOOLEAN
    OBVIOUS
  <2> QED
    BY Zenon, <1>1, <2>1 DEF Idle, Delivery
<1>6. \A g \in Slots : Busy(g) => /\ [hs[g] EXCEPT !.alone = FALSE] \in Delivery
                                  /\ [hs[g] EXCEPT !.alone = FALSE].pc = hs[g].pc
                                  /\ [hs[g] EXCEPT !.alone = FALSE].id = hs[g].id
  BY ZenonT(60), <1>1 DEF Delivery
<1> HIDE DEF d, out, h
<1>7. MsgsGrow /\ \A j \in DOMAIN msgs : msgs'[j] = IF j = i THEN out ELSE msgs[j]
  BY Zenon, <1>1, <1>2, <1>3, MsgUpdate
<1>8. /\ hs' \in [Slots -> Delivery]
      /\ \A g \in Slots : \/ hs'[g].id = i /\ hs'[g].pc \in {"gate", "mark"} /\ (hs'[g].pc = "gate" => Gated)
                          \/ hs'[g].id = hs[g].id /\ hs'[g].pc = hs[g].pc
  BY ZenonT(60), <1>1, <1>4, <1>5, <1>6
<1>9. \A g \in Slots : hs'[g].pc # "idle" => hs'[g].id \in DOMAIN msgs /\ msgs'[hs'[g].id].st # "none"
  BY ZenonT(60), <1>1, <1>2, <1>7, <1>8 DEF TypeOK, Busy, MsgsGrow
<1>10. \A g \in Slots : /\ hs'[g].pc = "skip" => hs[g].pc = "skip"
                        /\ hs'[g].pc = "gate" => hs[g].pc = "gate" \/ Gated
  BY Zenon, <1>8
<1>11. \A j \in DOMAIN msgs : msgs'[j].acked => msgs[j].acked
  BY Zenon, <1>2, <1>7
<1>12. RowsGrow /\ UNCHANGED <<kind, now, sched, calls, setting>>
  BY Zenon, <1>1, RowsStay DEF Deliver
<1> QED
  BY ZenonT(60), <1>7, <1>8, <1>9, <1>10, <1>11, <1>12, Delivering

\* The lease on a message runs out.
LEMMA LeaseStep ==
  ASSUME IInv, NEW i \in DOMAIN msgs, LeaseExpires(i)
  PROVE  IInv'
<1> DEFINE again == [msgs[i] EXCEPT !.st = "queued"]
<1>1. TypeOK /\ hs \in [Slots -> Delivery] /\ msgs[i] \in Message /\ msgs \in Seq(Message)
  BY DEF IInv, TypeOK
<1>2. again \in Message /\ again.st # "none" /\ again.acked = msgs[i].acked
  BY Zenon, <1>1 DEF Message
<1>3. msgs' = [msgs EXCEPT ![i] = again]
  BY <1>1 DEF LeaseExpires
<1> HIDE DEF again
<1>4. MsgsGrow /\ \A j \in DOMAIN msgs : msgs'[j] = IF j = i THEN again ELSE msgs[j]
  BY Zenon, <1>1, <1>2, <1>3, MsgUpdate
<1>5. RowsGrow /\ UNCHANGED <<kind, now, sched, calls, setting, hs>>
  BY Zenon, <1>1, RowsStay DEF LeaseExpires
<1>6. \A g \in Slots : hs'[g].pc # "idle" => hs'[g].id \in DOMAIN msgs /\ msgs'[hs'[g].id].st # "none"
  BY Zenon, <1>1, <1>4, <1>5 DEF TypeOK, Busy, MsgsGrow
<1>7. \A j \in DOMAIN msgs : msgs'[j].acked => msgs[j].acked
  BY Zenon, <1>2, <1>4
<1> QED
  BY ZenonT(60), <1>1, <1>4, <1>5, <1>6, <1>7, Delivering

\* A handler takes a step, or dies.
LEMMA HandleStep ==
  ASSUME IInv, NEW h \in Slots, Handle(h) \/ HandlerDies(h)
  PROVE  IInv'
<1>1. /\ TypeOK /\ hs \in [Slots -> Delivery] /\ hs[h] \in Delivery /\ hs[h].n \in Nat
      /\ now \in Nat /\ DOMAIN msgs = DOMAIN rows
  <2>1. /\ TypeOK /\ hs \in [Slots -> Delivery] /\ hs[h] \in Delivery /\ now \in 0 .. MaxTime
        /\ rows \in Seq(Row) /\ msgs \in Seq(Message) /\ Len(msgs) = Len(rows)
    BY Zenon DEF IInv, TypeOK
  <2>2. hs[h].n \in Nat
    BY Zenon, <2>1 DEF Delivery
  <2>3. now \in Nat
    BY <2>1
  <2>4. DOMAIN msgs = DOMAIN rows
    BY <2>1
  <2> QED
    BY Zenon, <2>1, <2>2, <2>3, <2>4
<1>2. Busy(h) /\ hs[h].id \in DOMAIN rows /\ UNCHANGED <<kind, now, sched, calls, setting>>
  BY Zenon, <1>1 DEF TypeOK, Busy, Handle, HandlerDies, CheckGate, RecordSkip, MarkInProgress, RunSweep,
              RunPipeline, RecordFailure, RecordSuccess
<1>3. CASE HandlerDies(h)
  BY ZenonT(60), <1>1, <1>2, <1>3, RowsStay, Ends DEF HandlerDies
<1>4. CASE CheckGate(h)
  <2>1. RowsGrow /\ UNCHANGED msgs
    BY Zenon, <1>1, <1>4, RowsStay DEF CheckGate
  <2>2. CASE hs' = [hs EXCEPT ![h].pc = "mark", ![h].blind = TRUE]
    <3> DEFINE d == [hs[h] EXCEPT !.pc = "mark", !.blind = TRUE]
    <3>1. d \in Delivery /\ d.id = hs[h].id /\ d.pc = "mark" /\ hs' = [hs EXCEPT ![h] = d]
      BY Zenon, <1>1, <2>2 DEF Delivery
    <3> HIDE DEF d
    <3> QED
      BY Zenon, <1>2, <2>1, <3>1, MovesOn
  <2>3. CASE hs' = [hs EXCEPT ![h].pc = IF lifecycle_audit_has_recent_success THEN "skip" ELSE "mark",
                              ![h].gate = now]
    <3> DEFINE d == [hs[h] EXCEPT !.pc = IF lifecycle_audit_has_recent_success THEN "skip" ELSE "mark",
                                  !.gate = now]
    <3>1. d \in Delivery /\ d.id = hs[h].id /\ hs' = [hs EXCEPT ![h] = d]
          /\ d.pc \in {"skip", "mark"} /\ (d.pc = "skip" => lifecycle_audit_has_recent_success)
      BY Zenon, <1>1, <2>3 DEF Delivery
    <3>3. Gated
      BY Zenon, <1>4 DEF CheckGate, IInv
    <3>2. lifecycle_audit_has_recent_success => SuccessRecorded
      BY Zenon DEF lifecycle_audit_has_recent_success, SuccessRecorded
    <3> HIDE DEF d
    <3> QED
      BY ZenonT(60), <1>2, <2>1, <3>1, <3>2, <3>3, MovesOn
  <2> QED
    BY Zenon, <1>4, <2>2, <2>3 DEF CheckGate
<1>5. CASE RecordSkip(h)
  <2>1. Ack(h) /\ Gated /\ SuccessRecorded
    BY Zenon, <1>5 DEF RecordSkip, IInv
  <2>2. RowsGrow
    BY ZenonT(60), <1>1, <1>2, <1>5, RowsStay, FinalizeGrows DEF RecordSkip
  <2> QED
    BY ZenonT(60), <1>2, <2>1, <2>2, Ends
<1>6. CASE RecordFailure(h)
  <2>1. RowsGrow /\ Nack(h)
    BY Zenon, <1>1, <1>2, <1>6, RowsStay, FinalizeGrows DEF RecordFailure
  <2> QED
    BY Zenon, <1>2, <2>1, Ends
<1>7. CASE RecordSuccess(h)
  <2>1. CASE Nack(h) /\ UNCHANGED rows
    BY ZenonT(60), <1>1, <1>2, <2>1, RowsStay, Ends
  <2>2. CASE Ack(h) /\ lifecycle_audit_finalize(hs[h].id, "success", FALSE, hs[h].n)
    <3>1. RowsGrow /\ rows'[hs[h].id].status = "success"
      BY Zenon, <1>1, <1>2, <2>2, FinalizeGrows
    <3> QED
      BY Zenon, <1>2, <2>2, <3>1, Ends
  <2> QED
    BY Zenon, <1>7, <2>1, <2>2 DEF RecordSuccess
<1>8. ASSUME NEW pc \in {"op", "record", "fail"}, NEW n \in Nat, RowsGrow, UNCHANGED msgs,
             hs' = [hs EXCEPT ![h].pc = pc, ![h].n = n]
      PROVE  IInv'
  <2> DEFINE d == [hs[h] EXCEPT !.pc = pc, !.n = n]
  <2>1. d \in Delivery /\ d.id = hs[h].id /\ d.pc \notin {"gate", "skip"} /\ hs' = [hs EXCEPT ![h] = d]
    BY Zenon, <1>1, <1>8 DEF Delivery
  <2> HIDE DEF d
  <2> QED
    BY Zenon, <1>2, <1>8, <2>1, MovesOn
<1>9. ASSUME NEW pc \in {"op", "record", "fail"}, RowsGrow, UNCHANGED msgs,
             hs' = [hs EXCEPT ![h].pc = pc]
      PROVE  IInv'
  <2> DEFINE d == [hs[h] EXCEPT !.pc = pc]
  <2>1. d \in Delivery /\ d.id = hs[h].id /\ d.pc \notin {"gate", "skip"} /\ hs' = [hs EXCEPT ![h] = d]
    BY Zenon, <1>1, <1>9 DEF Delivery
  <2> HIDE DEF d
  <2> QED
    BY ZenonT(60), <1>2, <1>9, <2>1, MovesOn
<1>10. CASE MarkInProgress(h)
  <2>1. RowsGrow
    BY Zenon, <1>1, <1>2, <1>10, RowsStay, FinalizeGrows DEF MarkInProgress
  <2> QED
    BY Zenon, <1>9, <1>10, <2>1 DEF MarkInProgress
<1>11. CASE RunPipeline(h)
  BY Zenon, <1>1, <1>9, <1>11, RowsStay DEF RunPipeline
<1>12. CASE RunSweep(h)
  <2>1. RowsGrow /\ UNCHANGED msgs
    BY Zenon, <1>1, <1>12, RowsStay DEF RunSweep
  <2>2. CASE hs' = [hs EXCEPT ![h].pc = "fail"]
    BY Zenon, <1>9, <2>1, <2>2
  <2>3. ASSUME NEW S \in Batches(rows[hs[h].id].ret),
               hs' = [hs EXCEPT ![h].pc = "record", ![h].n = Cardinality(S)]
        PROVE  IInv'
    <3>1. S \subseteq Mem
      BY Zenon, <2>3 DEF Batches, Eligible
    <3>2. Cardinality(S) \in Nat
      BY ZenonT(60), <3>1, LifecycleAssumption, FS_Subset, FS_CardinalityType
    <3> QED
      BY Zenon, <1>8, <2>1, <2>3, <3>2
  <2> QED
    BY Zenon, <1>12, <2>2, <2>3 DEF RunSweep
<1> QED
  BY ZenonT(60), <1>3, <1>4, <1>5, <1>6, <1>7, <1>10, <1>11, <1>12 DEF Handle

-----------------------------------------------------------------------------
(* Whatever is redelivered, lost or retried, by however many triggers: an   *)
(* audit row's columns agree, and the message of a run is acked only when   *)
(* the run is on record as a success that no later delivery takes back.     *)
THEOREM AckIsBacked == Spec => []LedgerTrue
<1>1. Init => IInv
  BY Zenon, InitInv
<1>2. IInv /\ [Next]_vars => IInv'
  <2> SUFFICES ASSUME IInv, [Next]_vars PROVE IInv'
    BY Zenon
  <2>1. CASE UNCHANGED vars
    BY Zenon, <2>1, Elsewhere DEF vars, IInv, TypeOK
  <2>2. CASE Next
    BY ZenonT(60), <2>2, CallerSteps, BeginStep, PublishStep, DeliverStep, LeaseStep, HandleStep DEF Next
  <2> QED
    BY Zenon, <2>1, <2>2
<1>3. IInv => LedgerTrue
  BY Zenon DEF IInv, LedgerTrue
<1> QED
  BY <1>1, <1>2, <1>3, PTL DEF Spec
=============================================================================
