----------------------------- MODULE TaskStream -----------------------------
(***************************************************************************)
(* How a task's changes reach a browser: the `tasks` topic of              *)
(* src/extensions/core.rs, which relays the broadcast channel of Tasks to  *)
(* one browser, and the browser's store (web/src/stores/tasks.ts), which   *)
(* keeps the last TaskInfo it was given for every task.                    *)
(*                                                                         *)
(* The channel holds its last CAPACITY events; a receiver that fell further*)
(* behind is told `Lagged` once and continues with the oldest event left.  *)
(* The socket to a browser is FIFO, so an emitted frame is taken to be     *)
(* applied at once, unless the socket is dead and the server has not       *)
(* noticed yet: then it is lost.                                           *)
(***************************************************************************)
EXTENDS Tasks, FiniteSets

CONSTANTS Browser,       \* browsers with a live gateway socket
          BUser,         \* BUser[b]: the user signed in on b
          CAPACITY,      \* of the broadcast channel (1024)
          SYNC_LIMIT,    \* tasks in one SYNC (200)
          MaxDrops,      \* bound: times a browser's socket dies
          MaxDetails     \* bound: `tasks.detail` calls of a browser

ASSUME StreamAssumption ==
    /\ BUser \in [Browser -> User]
    /\ CAPACITY \in Nat \ {0} /\ SYNC_LIMIT \in Nat \ {0}
    /\ MaxDrops \in Nat /\ MaxDetails \in Nat

VARIABLES
    topic,     \* topic[b]: where the server's topic task for b is
    cursor,    \* cursor[b]: index of the next event its receiver reads
    alive,     \* alive[b]: frames emitted to b still arrive
    view,      \* view[b][t]: what b's store holds for t
    detail,    \* detail[b]: a `tasks.detail` answer read but not yet sent
    drops, details

streamVars == <<topic, cursor, alive, view, detail, drops, details>>
allVars == <<vars, streamVars>>

Unseen == [status |-> "Unseen", progress |-> NoProgress]
NoDetail == [task |-> "none", info |-> Unseen]

StreamTypeOK ==
    /\ topic \in [Browser -> {"off", "subscribed", "listen", "lagged"}]
    /\ cursor \in [Browser -> Nat \ {0}]
    /\ alive \in [Browser -> BOOLEAN]
    /\ view \in [Browser -> [Task -> TaskInfo \cup {Unseen}]]
    /\ detail \in [Browser -> {NoDetail} \cup [task: Task, info: TaskInfo]]
    /\ drops \in [Browser -> 0 .. MaxDrops]
    /\ details \in [Browser -> 0 .. MaxDetails]

StreamInit ==
    /\ topic = [b \in Browser |-> "off"]
    /\ cursor = [b \in Browser |-> 1]
    /\ alive = [b \in Browser |-> TRUE]
    /\ view = [b \in Browser |-> [t \in Task |-> Unseen]]
    /\ detail = [b \in Browser |-> NoDetail]
    /\ drops = [b \in Browser |-> 0]
    /\ details = [b \in Browser |-> 0]

-----------------------------------------------------------------------------
(* The server's topic task.                                                *)

\* TaskManager::list: the user's newest SYNC_LIMIT tasks still in the deque.
Newer(user, i) == {j \in DOMAIN tasks : j >= i /\ Owner[tasks[j]] = user}
List(user) ==
    {tasks[i] : i \in {j \in DOMAIN tasks :
                         Owner[tasks[j]] = user /\ Cardinality(Newer(user, j)) <= SYNC_LIMIT}}

\* The store's `upsert`, over the tasks S of one frame.
Upsert(b, S, new) ==
    view' = [view EXCEPT ![b] = [t \in Task |->
                IF alive[b] /\ t \in S THEN new[t] ELSE view[b][t]]]

EmitSync(b) == Upsert(b, List(BUser[b]), info)

\* Mutant: the receiver starts at the last event already sent.
TopicSubscribeEarly(b) ==
    /\ topic[b] = "off" /\ alive[b]
    /\ cursor' = [cursor EXCEPT ![b] = Len(events)]
    /\ topic' = [topic EXCEPT ![b] = "subscribed"]
    /\ UNCHANGED <<alive, view, detail, drops, details>>

\* `ctx.state.tasks.subscribe()` comes first ...
TopicSubscribe(b) ==
    /\ topic[b] = "off" /\ alive[b]
    /\ cursor' = [cursor EXCEPT ![b] = Len(events) + 1]
    /\ topic' = [topic EXCEPT ![b] = "subscribed"]
    /\ UNCHANGED <<alive, view, detail, drops, details>>

\* ... and the SYNC after it, so nothing falls between the two.
TopicSync(b) ==
    /\ topic[b] = "subscribed"
    /\ EmitSync(b)
    /\ topic' = [topic EXCEPT ![b] = "listen"]
    /\ UNCHANGED <<cursor, alive, detail, drops, details>>

Behind(b) == Len(events) + 1 - cursor[b]

\* Mutant: an UPDATE is emitted whoever owns the task.
TopicRecvAll(b) ==
    /\ topic[b] = "listen"
    /\ Behind(b) \in 1 .. CAPACITY
    /\ LET e == events[cursor[b]] IN Upsert(b, {e.task}, [t \in {e.task} |-> e.info])
    /\ cursor' = [cursor EXCEPT ![b] = @ + 1]
    /\ UNCHANGED <<topic, alive, detail, drops, details>>

TopicRecv(b) ==
    /\ topic[b] = "listen"
    /\ Behind(b) \in 1 .. CAPACITY
    /\ LET e == events[cursor[b]] IN
       Upsert(b, {t \in {e.task} : Owner[t] = BUser[b]}, [t \in {e.task} |-> e.info])
    /\ cursor' = [cursor EXCEPT ![b] = @ + 1]
    /\ UNCHANGED <<topic, alive, detail, drops, details>>

\* Mutant: the server shrugs off what the receiver missed.
TopicLaggedQuiet(b) ==
    /\ topic[b] = "listen"
    /\ Behind(b) > CAPACITY
    /\ cursor' = [cursor EXCEPT ![b] = Len(events) + 1 - CAPACITY]
    /\ UNCHANGED <<topic, alive, view, detail, drops, details>>

TopicLagged(b) ==
    /\ topic[b] = "listen"
    /\ Behind(b) > CAPACITY
    /\ cursor' = [cursor EXCEPT ![b] = Len(events) + 1 - CAPACITY]
    /\ topic' = [topic EXCEPT ![b] = "lagged"]
    /\ UNCHANGED <<alive, view, detail, drops, details>>

\* After the 50 ms pause of the lagged branch.
TopicResync(b) ==
    /\ topic[b] = "lagged"
    /\ EmitSync(b)
    /\ topic' = [topic EXCEPT ![b] = "listen"]
    /\ UNCHANGED <<cursor, alive, detail, drops, details>>

-----------------------------------------------------------------------------
(* `tasks.detail`, answered by a tokio task of its own (store: loadLog).   *)

DetailRead(b, t) ==
    /\ alive[b] /\ detail[b] = NoDetail /\ details[b] < MaxDetails
    /\ Find(BUser[b], t)
    /\ detail' = [detail EXCEPT ![b] = [task |-> t, info |-> info[t]]]
    /\ details' = [details EXCEPT ![b] = @ + 1]
    /\ UNCHANGED <<topic, cursor, alive, view, drops>>

DetailReply(b) ==
    /\ detail[b] # NoDetail
    /\ Upsert(b, {detail[b].task}, [t \in {detail[b].task} |-> detail[b].info])
    /\ detail' = [detail EXCEPT ![b] = NoDetail]
    /\ UNCHANGED <<topic, cursor, alive, drops, details>>

-----------------------------------------------------------------------------
(* The socket dies; the server notices later and cancels the topic         *)
(* (on_close -> cancel_all); the browser reconnects and subscribes again.  *)

SocketDies(b) ==
    /\ alive[b] /\ drops[b] < MaxDrops
    /\ alive' = [alive EXCEPT ![b] = FALSE]
    /\ drops' = [drops EXCEPT ![b] = @ + 1]
    /\ UNCHANGED <<topic, cursor, view, detail, details>>

\* Mutant: the browser takes its subscription to have survived the socket.
ReconnectQuiet(b) ==
    /\ ~alive[b] /\ detail[b] = NoDetail
    /\ alive' = [alive EXCEPT ![b] = TRUE]
    /\ UNCHANGED <<topic, cursor, view, detail, drops, details>>

Reconnect(b) ==
    /\ ~alive[b] /\ detail[b] = NoDetail
    /\ topic' = [topic EXCEPT ![b] = "off"]
    /\ alive' = [alive EXCEPT ![b] = TRUE]
    /\ UNCHANGED <<cursor, view, detail, drops, details>>

-----------------------------------------------------------------------------
Relay(b) ==
    \/ TopicSubscribe(b) \/ TopicSync(b) \/ TopicRecv(b)
    \/ TopicLagged(b) \/ TopicResync(b)

StreamStep(b) ==
    \/ Relay(b)
    \/ \E t \in Task : DetailRead(b, t)
    \/ DetailReply(b) \/ SocketDies(b) \/ Reconnect(b)

StreamNext ==
    \/ Next /\ UNCHANGED streamVars
    \/ (\E b \in Browser : StreamStep(b)) /\ UNCHANGED vars

StreamSpec == Init /\ StreamInit /\ [][StreamNext]_allVars

\* The runtime polls a topic whose receiver has an event; a browser reconnects.
StreamFairSpec ==
    /\ StreamSpec
    /\ Fairness
    /\ \A b \in Browser :
          /\ WF_allVars(Relay(b) /\ UNCHANGED vars)
          /\ WF_allVars((DetailReply(b) \/ Reconnect(b)) /\ UNCHANGED vars)

-----------------------------------------------------------------------------
(* Properties.                                                             *)

Mine(b, t) == Owner[t] = BUser[b]

\* b's topic has relayed all there is.
Drained(b) == topic[b] = "listen" /\ alive[b] /\ Behind(b) = 0

LastWord(t) == events[CHOOSE i \in Sent(t) : \A j \in Sent(t) : j <= i].info.status

\* No gap: when the last event sent about a task that a SYNC would carry says it
\* ended, a browser whose topic has drained shows it ended, whether it got that
\* event, lagged past it, subscribed after it, or lost it with its socket. (What
\* the deque or the limit of a SYNC has dropped is not repeated to anybody. A
\* browser that opened the task's log is in the race that `details` stands for.)
LastWordIsShown ==
    \A b \in Browser, t \in Task :
        /\ Drained(b) /\ Mine(b, t) /\ t \in List(BUser[b]) /\ details[b] = 0
        /\ Sent(t) # {} /\ LastWord(t) \in Ended
        => view[b][t].status = LastWord(t)

\* Tasks are private: no path (SYNC, UPDATE, detail) puts another user's task
\* into a browser's store.
OwnTasksOnly ==
    \A b \in Browser, t \in Task : view[b][t] # Unseen => Mine(b, t)

\* A task that ended is eventually shown as ended by every browser of its owner
\* that follows the topic and asks for no detail meanwhile.
EndIsSeen ==
    \A b \in Browser, t \in Task :
        Mine(b, t) => ((info[t].status \in Ended) ~>
                         (view[b][t].status \in Ended \/ details[b] > 0))

\* No thread is still reporting on t.
Settled(t) ==
    \A th \in Thread : on[th] = t =>
        pc[th] \notin {"abort", "stopping", "logged", "throttle", "send", "finish"}

\* What the header of tasks.rs promises of the stream: it carries how a task
\* ended to every browser. Once all is said and relayed, none shows it running.
EndReachesBrowser ==
    \A b \in Browser, t \in Task :
        /\ Mine(b, t) /\ Drained(b) /\ detail[b] = NoDetail
        /\ Settled(t) /\ info[t].status \in Ended
        => view[b][t].status \in Ended

=============================================================================
