------------------------------ MODULE PubSubBus ------------------------------
(***************************************************************************)
(* The lifecycle of a PubSubEventBus (common/events/pubsub.py): start(),   *)
(* stop() and publish() are coroutines of one event loop that suspend while *)
(* SDK clients are built, closed and drained in executor threads.  An      *)
(* action runs from one await to the next.                                 *)
(*                                                                         *)
(* The bus serves one plain topic and one broadcast topic, whose           *)
(* subscription start() must create first.                                 *)
(***************************************************************************)
EXTENDS Naturals, FiniteSets, Sequences

CONSTANTS
    Publishers,   \* the tasks that call publish(), once each
    MaxStarts,    \* bound: calls of start()
    MaxStops,     \* bound: calls of stop()
    None

ASSUME BusAssumption ==
    /\ MaxStarts \in Nat /\ MaxStops \in Nat
    /\ None \notin Publishers \cup 1..MaxStarts /\ Publishers \cap 1..MaxStarts = {}

BusTopics == {"plain", "broadcast"}
Loops == BusTopics \X (1..MaxStarts)

\* SDK clients, named after the call that built them.
SubClients == 1..MaxStarts
PubClients == Publishers

VARIABLES
    started, stopped, stopping,  \* the lifecycle flags
    generation,                  \* _stop_generation
    subscriber, publisher,       \* the installed clients
    pull_executor, publish_executor,
    broadcast_subs,              \* whether _broadcast_sub_paths holds the subscription
    failed,                      \* _failed_subscriptions
    loops,                       \* the pull tasks
    start, starts,               \* the call of start() under way, and how many there were
    stop, stops,                 \* the call of stop() under way
    pub,                         \* the call of publish() of each publisher
    open,                        \* SDK clients that hold a channel
    background,                  \* clients that a background task is closing
    batch, sent                  \* messages batched in a client, messages transmitted

flags == <<started, stopped, stopping, generation>>
clients == <<subscriber, publisher, pull_executor, publish_executor>>
busVars == <<flags, clients, broadcast_subs, failed, loops, start, starts, stop, stops, pub,
          open, background, batch, sent>>

BusInit ==
    /\ started = FALSE /\ stopped = FALSE /\ stopping = FALSE /\ generation = 0
    /\ subscriber = None /\ publisher = None
    /\ pull_executor = FALSE /\ publish_executor = FALSE
    /\ broadcast_subs = FALSE /\ failed = {}
    /\ loops = [l \in Loops |-> [pc |-> "none", client |-> None]]
    /\ start = [pc |-> "idle", gen |-> 0, result |-> "none"] /\ starts = 0
    /\ stop = [pc |-> "idle", closing |-> None] /\ stops = 0
    /\ pub = [p \in Publishers |-> [pc |-> "idle", gen |-> 0, client |-> None]]
    /\ open = {} /\ background = {}
    /\ batch = [p \in PubClients |-> {}] /\ sent = {}

Ended(ls) == [l \in Loops |-> IF ls[l].pc = "none" THEN ls[l] ELSE [ls[l] EXCEPT !.pc = "ended"]]

-----------------------------------------------------------------------------
(* start() *)

\* Passes the _started guard, takes the generation and awaits SubscriberClient().
StartBegin ==
    /\ start.pc = "idle" /\ starts < MaxStarts
    /\ start.result # "cancelled"
    /\ ~started
    /\ starts' = starts + 1
    /\ start' = [pc |-> "construct", gen |-> generation, result |-> "none"]
    /\ UNCHANGED <<flags, clients, broadcast_subs, failed, loops, stop, stops, pub,
                   open, background, batch, sent>>

Overtaken(gen) == stopped \/ stopping \/ generation # gen

\* The client is built.  If a stop() is running or has run meanwhile, close it
\* and raise; otherwise spawn the pull task of the plain topic and await the
\* broadcast subscription.
StartConstructed ==
    /\ start.pc = "construct"
    /\ open' = open \cup {starts}
    /\ IF Overtaken(start.gen)
       THEN /\ start' = [start EXCEPT !.pc = "abort"]
            /\ subscriber' = None
            /\ UNCHANGED <<pull_executor, loops>>
       ELSE /\ subscriber' = starts /\ pull_executor' = TRUE
            /\ loops' = [loops EXCEPT ![<<"plain", starts>>].pc = "new"]
            /\ start' = [start EXCEPT !.pc = "ensure"]
    /\ UNCHANGED <<flags, publisher, publish_executor, broadcast_subs, failed, starts, stop, stops,
                   pub, background, batch, sent>>

StartAborted ==
    /\ start.pc = "abort"
    /\ open' = open \ {starts}
    /\ start' = [start EXCEPT !.pc = "idle", !.result = "raised"]
    /\ UNCHANGED <<flags, clients, broadcast_subs, failed, loops, starts, stop, stops, pub,
                   background, batch, sent>>

\* start() is cancelled: a background task closes the client that is being
\* built; a client that is already installed stays for stop().
StartCancelled ==
    /\ start.pc \in {"construct", "ensure"}
    /\ start' = [start EXCEPT !.pc = "idle", !.result = "cancelled"]
    /\ IF start.pc = "construct"
       THEN open' = open \cup {starts} /\ background' = background \cup {<<"sub", starts>>}
       ELSE UNCHANGED <<open, background>>
    /\ UNCHANGED <<flags, clients, broadcast_subs, failed, loops, starts, stop, stops, pub,
                   batch, sent>>

\* _ensure_broadcast_subscription returns True, unless the create call failed
\* (as it does on a closed client), and start() returns.
StartEnsured ==
    /\ start.pc = "ensure"
    /\ \/ /\ starts \in open
          /\ broadcast_subs' = TRUE
          /\ loops' = [loops EXCEPT ![<<"broadcast", starts>>].pc = "new"]
       \/ UNCHANGED <<broadcast_subs, loops>>
    /\ started' = TRUE
    /\ start' = [start EXCEPT !.pc = "idle", !.result = "returned"]
    /\ UNCHANGED <<stopped, stopping, generation, clients, failed, starts, stop, stops, pub,
                   open, background, batch, sent>>

-----------------------------------------------------------------------------
(* _pull_loop *)

\* The task runs for the first time: raises on a stopped bus, else captures the client.
LoopBegin(l) ==
    /\ loops[l].pc = "new"
    /\ loops' = [loops EXCEPT ![l] = IF stopped \/ subscriber = None \/ ~pull_executor
                                     THEN [pc |-> "ended", client |-> None]
                                     ELSE [pc |-> "pulling", client |-> subscriber]]
    /\ UNCHANGED <<flags, clients, broadcast_subs, failed, start, starts, stop, stops, pub,
                   open, background, batch, sent>>

\* NotFound, PermissionDenied, InvalidArgument, or a handler that was cancelled:
\* the loop halts and the subscription is recorded.
LoopHalts(l) ==
    /\ loops[l].pc = "pulling" /\ ~stopping
    /\ loops' = [loops EXCEPT ![l].pc = "halted"]
    /\ failed' = failed \cup {l[1]}
    /\ UNCHANGED <<flags, clients, broadcast_subs, start, starts, stop, stops, pub,
                   open, background, batch, sent>>

\* The closed channel wakes the pull thread, and the loop sees _stopping.
LoopStops(l) ==
    /\ loops[l].pc = "pulling" /\ stopping
    /\ loops' = [loops EXCEPT ![l].pc = "ended"]
    /\ UNCHANGED <<flags, clients, broadcast_subs, failed, start, starts, stop, stops, pub,
                   open, background, batch, sent>>

-----------------------------------------------------------------------------
(* stop() *)

Teardown == <<"delete", "close", "gather", "pullexec", "pubexec", "flush", "drain">>
StageNo(s) == CHOOSE i \in DOMAIN Teardown : Teardown[i] = s

\* A step of the teardown is skipped when what it tears down is not there.
Needed(s) ==
    CASE s = "delete" -> subscriber # None /\ broadcast_subs
      [] s = "close" -> subscriber # None
      [] s = "pullexec" -> pull_executor
      [] s = "pubexec" -> publish_executor
      [] s = "flush" -> publisher # None
      [] OTHER -> TRUE

After(i) == CHOOSE j \in DOMAIN Teardown :
                /\ j > i /\ Needed(Teardown[j])
                /\ \A k \in (i + 1)..(j - 1) : ~Needed(Teardown[k])

\* Mutant: the pull tasks are not cancelled.
EnterKeepsTasks(s) ==
    /\ stop' = [pc |-> s, closing |-> IF s = "close" THEN subscriber
                                      ELSE IF s = "flush" THEN publisher ELSE None]
    /\ subscriber' = IF s = "close" THEN None ELSE subscriber
    /\ publisher' = IF s = "flush" THEN None ELSE publisher
    /\ pull_executor' = (pull_executor /\ s # "pullexec")
    /\ publish_executor' = (publish_executor /\ s # "pubexec")
    /\ UNCHANGED loops

\* Detach what the stage tears down and await it; the pull tasks are cancelled
\* before they are gathered, and again in the finally block.
Enter(s) ==
    /\ stop' = [pc |-> s, closing |-> IF s = "close" THEN subscriber
                                      ELSE IF s = "flush" THEN publisher ELSE None]
    /\ subscriber' = IF s = "close" THEN None ELSE subscriber
    /\ publisher' = IF s = "flush" THEN None ELSE publisher
    /\ pull_executor' = (pull_executor /\ s # "pullexec")
    /\ publish_executor' = (publish_executor /\ s # "pubexec")
    /\ loops' = IF s \in {"gather", "drain"} THEN Ended(loops) ELSE loops

StopBegin ==
    /\ stop.pc = "idle" /\ stops < MaxStops
    /\ stops' = stops + 1
    /\ stopped' = TRUE /\ stopping' = TRUE /\ generation' = generation + 1
    /\ Enter(Teardown[After(0)])
    /\ UNCHANGED <<started, broadcast_subs, failed, start, starts, pub, open, background,
                   batch, sent>>

\* What the await of a stage waits for: the executors are shut down with
\* wait=True, so the calls that run in them have returned, and their
\* coroutines have resumed.
StageDone(s) ==
    CASE s = "pullexec" -> start.pc # "ensure"
      [] s = "pubexec" -> \A p \in Publishers : pub[p].pc # "sending"
      [] s = "drain" -> background = {}
      [] OTHER -> TRUE

\* Mutant: the publisher is closed without committing its batches.
StopStepNoCommit ==
    /\ stop.pc \notin {"idle", "drain"} /\ StageDone(stop.pc)
    /\ Enter(Teardown[After(StageNo(stop.pc))])
    /\ broadcast_subs' = (broadcast_subs /\ stop.pc # "delete")
    /\ open' = open \ {stop.closing}
    /\ UNCHANGED <<flags, failed, start, starts, stops, pub, background, batch, sent>>

\* A stage is done; go on to the next one.  publisher.stop() transmits the batch.
StopStep ==
    /\ stop.pc \notin {"idle", "drain"} /\ StageDone(stop.pc)
    /\ Enter(Teardown[After(StageNo(stop.pc))])
    /\ broadcast_subs' = (broadcast_subs /\ stop.pc # "delete")
    /\ open' = open \ {stop.closing}
    /\ IF stop.pc = "flush"
       THEN sent' = sent \cup batch[stop.closing] /\ batch' = [batch EXCEPT ![stop.closing] = {}]
       ELSE UNCHANGED <<batch, sent>>
    /\ UNCHANGED <<flags, failed, start, starts, stops, pub, background>>

\* The end of the finally block after a complete teardown.
StopReturns ==
    /\ stop.pc = "drain" /\ StageDone("drain")
    /\ stop' = [pc |-> "idle", closing |-> None]
    /\ failed' = {}
    /\ stopped' = FALSE /\ stopping' = FALSE /\ started' = FALSE
    /\ start' = [start EXCEPT !.result = "none"]
    /\ UNCHANGED <<generation, clients, broadcast_subs, loops, starts, stops, pub, open, background,
                   batch, sent>>

\* stop() is cancelled: the finally block ends the loops and drains, but leaves
\* _stopped and _started as they are.  The close under way finishes in its thread.
StopCancelled ==
    /\ stop.pc \notin {"idle", "drain"} /\ background = {}
    /\ stop' = [pc |-> "idle", closing |-> None]
    /\ loops' = Ended(loops)
    /\ failed' = {} /\ stopping' = FALSE
    /\ open' = open \ {stop.closing}
    /\ IF stop.pc = "flush"
       THEN sent' = sent \cup batch[stop.closing] /\ batch' = [batch EXCEPT ![stop.closing] = {}]
       ELSE UNCHANGED <<batch, sent>>
    /\ UNCHANGED <<started, stopped, generation, clients, broadcast_subs, start, starts, stops,
                   pub, background>>

-----------------------------------------------------------------------------
(* publish() *)

\* _get_publish_executor and the hand-over to a thread.
SendWith(p, client) ==
    IF stopped
    THEN pub' = [pub EXCEPT ![p].pc = "raised"] /\ UNCHANGED publish_executor
    ELSE pub' = [pub EXCEPT ![p] = [@ EXCEPT !.pc = "sending", !.client = client]]
         /\ publish_executor' = TRUE

PublishBegin(p) ==
    /\ pub[p].pc = "idle"
    /\ IF stopped \/ stopping
       THEN pub' = [pub EXCEPT ![p].pc = "raised"] /\ UNCHANGED publish_executor
       ELSE IF publisher # None THEN SendWith(p, publisher)
       ELSE pub' = [pub EXCEPT ![p] = [@ EXCEPT !.pc = "construct", !.gen = generation]]
            /\ UNCHANGED publish_executor
    /\ UNCHANGED <<flags, subscriber, publisher, pull_executor, broadcast_subs, failed, loops,
                   start, starts, stop, stops, open, background, batch, sent>>

\* Mutant: the loser of a construction race is not closed.
PublishConstructedLeaky(p) ==
    /\ pub[p].pc = "construct"
    /\ open' = open \cup {p}
    /\ IF Overtaken(pub[p].gen)
       THEN /\ pub' = [pub EXCEPT ![p].pc = "raised"]
            /\ background' = background \cup {<<"pub", p>>}
            /\ UNCHANGED <<publisher, publish_executor>>
       ELSE /\ publisher' = IF publisher = None THEN p ELSE publisher
            /\ SendWith(p, publisher')
            /\ UNCHANGED background
    /\ UNCHANGED <<flags, subscriber, pull_executor, broadcast_subs, failed, loops,
                   start, starts, stop, stops, batch, sent>>

\* The client is built: drop it if a stop() came in between or another caller
\* was faster, else install it.
PublishConstructed(p) ==
    /\ pub[p].pc = "construct"
    /\ open' = open \cup {p}
    /\ IF Overtaken(pub[p].gen)
       THEN /\ pub' = [pub EXCEPT ![p].pc = "raised"]
            /\ background' = background \cup {<<"pub", p>>}
            /\ UNCHANGED <<publisher, publish_executor>>
       ELSE /\ publisher' = IF publisher = None THEN p ELSE publisher
            /\ SendWith(p, publisher')
            /\ background' = IF publisher = None THEN background ELSE background \cup {<<"pub", p>>}
    /\ UNCHANGED <<flags, subscriber, pull_executor, broadcast_subs, failed, loops,
                   start, starts, stop, stops, batch, sent>>

PublishCancelled(p) ==
    /\ pub[p].pc = "construct"
    /\ pub' = [pub EXCEPT ![p].pc = "raised"]
    /\ open' = open \cup {p} /\ background' = background \cup {<<"pub", p>>}
    /\ UNCHANGED <<flags, clients, broadcast_subs, failed, loops, start, starts, stop, stops,
                   batch, sent>>

\* The executor thread has put the message into the client's batch; a client
\* that was stopped meanwhile refuses it.
PublishReturns(p) ==
    /\ pub[p].pc = "sending"
    /\ IF pub[p].client \in open
       THEN /\ pub' = [pub EXCEPT ![p].pc = "returned"]
            /\ batch' = [batch EXCEPT ![pub[p].client] = @ \cup {p}]
       ELSE pub' = [pub EXCEPT ![p].pc = "raised"] /\ UNCHANGED batch
    /\ UNCHANGED <<flags, clients, broadcast_subs, failed, loops, start, starts, stop, stops,
                   open, background, sent>>

\* The SDK's commit thread transmits a batch.
Transmit(c) ==
    /\ c \in open /\ batch[c] # {}
    /\ sent' = sent \cup batch[c] /\ batch' = [batch EXCEPT ![c] = {}]
    /\ UNCHANGED <<flags, clients, broadcast_subs, failed, loops, start, starts, stop, stops, pub,
                   open, background>>

\* Mutant: the task that closes a subscriber was garbage-collected.
BackgroundCloseForgotten(b) ==
    /\ b \in background /\ b[1] = "pub"
    /\ background' = background \ {b} /\ open' = open \ {b[2]}
    /\ UNCHANGED <<flags, clients, broadcast_subs, failed, loops, start, starts, stop, stops, pub,
                   batch, sent>>

\* A background task has closed its client.
BackgroundClose(b) ==
    /\ b \in background
    /\ background' = background \ {b} /\ open' = open \ {b[2]}
    /\ UNCHANGED <<flags, clients, broadcast_subs, failed, loops, start, starts, stop, stops, pub,
                   batch, sent>>

-----------------------------------------------------------------------------
StartStep == StartConstructed \/ StartAborted \/ StartEnsured
LoopStep == \E l \in Loops : LoopBegin(l) \/ LoopStops(l)
PublishStep(p) == PublishConstructed(p) \/ PublishReturns(p)
CloseStep == \E b \in background : BackgroundClose(b)

BusNext ==
    \/ StartBegin \/ StartStep \/ StartCancelled
    \/ LoopStep \/ \E l \in Loops : LoopHalts(l)
    \/ StopBegin \/ StopStep \/ StopReturns \/ StopCancelled
    \/ \E p \in Publishers : PublishBegin(p) \/ PublishStep(p) \/ PublishCancelled(p)
    \/ \E c \in PubClients : Transmit(c)
    \/ CloseStep

BusSpec == BusInit /\ [][BusNext]_busVars

\* What the calls under way do next.  The calls are bounded, so these steps run dry.
BusStep == StartStep \/ StopStep \/ StopReturns \/ CloseStep \/ \E p \in Publishers : PublishStep(p)

\* Executor calls return and the event loop resumes their coroutines.
BusFairSpec == BusSpec /\ WF_busVars(BusStep)
-----------------------------------------------------------------------------
BusTypeOK ==
    /\ {started, stopped, stopping, pull_executor, publish_executor, broadcast_subs} \subseteq BOOLEAN
    /\ generation \in 0..MaxStops
    /\ subscriber \in SubClients \cup {None} /\ publisher \in PubClients \cup {None}
    /\ failed \subseteq BusTopics
    /\ loops \in [Loops -> [pc : {"none", "new", "pulling", "halted", "ended"},
                            client : SubClients \cup {None}]]
    /\ start.pc \in {"idle", "construct", "abort", "ensure"} /\ starts \in 0..MaxStarts
    /\ stop.pc \in {"idle"} \cup {Teardown[i] : i \in DOMAIN Teardown} /\ stops \in 0..MaxStops
    /\ \A p \in Publishers : pub[p].pc \in {"idle", "construct", "sending", "returned", "raised"}
    /\ open \subseteq SubClients \cup PubClients
    /\ background \subseteq {"sub", "pub"} \X (SubClients \cup PubClients)
    /\ sent \subseteq Publishers

is_healthy == ~stopped /\ started /\ failed = {}

(***************************************************************************)
(* No SDK client is leaked, however start(), stop(), publish() and their   *)
(* cancellations interleave: a client that holds a channel is installed,   *)
(* is being closed by the teardown or by an aborted start(), or a          *)
(* background task will close it.  (The type invariant rides along.)       *)
(***************************************************************************)
NoOrphanClient ==
    /\ BusTypeOK
    /\ \A c \in open :
        \/ c \in {subscriber, publisher, stop.closing}
        \/ start.pc = "abort" /\ c = starts
        \/ \E kind \in {"sub", "pub"} : <<kind, c>> \in background

(***************************************************************************)
(* The pull tasks match what the bus says of itself.  A bus that reports   *)
(* itself healthy consumes: unless a stop() overtook the start() that      *)
(* returned (StartReturnMeansOperational), the pull task of the plain      *)
(* topic is alive, on a client that is open.  A stopped bus is quiet: once *)
(* stop() has returned and no start() is under way, no pull task is left   *)
(* that would go on consuming; one that has not run yet finds no           *)
(* subscriber.                                                             *)
(***************************************************************************)
LoopsMatchState ==
    /\ is_healthy /\ generation = start.gen =>
        \E n \in 1..MaxStarts : LET l == loops[<<"plain", n>>] IN
            \/ l.pc = "new" /\ subscriber \in open
            \/ l.pc = "pulling" /\ l.client \in open
    /\ ~started /\ stop.pc = "idle" /\ start.pc = "idle" /\ start.result # "cancelled"
        => \A l \in Loops :
              loops[l].pc \in {"none", "ended"} \cup (IF subscriber = None THEN {"new"} ELSE {})

(***************************************************************************)
(* A message whose publish() returned is not lost in the batch of a client *)
(* that stop() has stopped: the teardown joins the publish threads and     *)
(* commits what is batched.                                                *)
(***************************************************************************)
StopFlushesBatches ==
    \A p \in Publishers :
        pub[p].pc = "returned" /\ pub[p].client \notin open => p \in sent

\* The bus leaves nothing behind and claims nothing it does not do, however start(), stop(), publish() and their
\* cancellations overtake each other.
BusConsistent == NoOrphanClient /\ LoopsMatchState /\ StopFlushesBatches

\* stop() always comes to its end.
StopEnds == stop.pc # "idle" ~> stop.pc = "idle"
=============================================================================
