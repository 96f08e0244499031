------------------------------ MODULE Gateway ------------------------------
(***************************************************************************)
(* The server's side of one `/ws` socket: src/gateway/mod.rs (the frame    *)
(* handler), src/rpc.rs (Conn, Ctx, Registry) and the session methods of   *)
(* src/extensions/core.rs.                                                 *)
(*                                                                         *)
(* The framework hands over the frames of a socket one at a time, and      *)
(* `on_close` after the last; every call and every subscription runs as a  *)
(* tokio task of its own. A step is one critical section on the session or *)
(* on the subscription table, or what a task does between two awaits.      *)
(*                                                                         *)
(* A subscription task is named by a member of Sub, a call by a member of  *)
(* Call; the Session object that a call creates is named by the call.      *)
(***************************************************************************)
CONSTANTS Id,          \* the ids a browser gives to its subscriptions
          Sub,         \* subscription tasks that may ever be spawned
          Call,        \* calls of the auth.* methods that may ever arrive
          NoSub, NoSession

ASSUME GatewayAssumption == NoSub \notin Sub /\ NoSession \notin Call

VARIABLES
    socket,     \* "open", "dead" (the browser has gone), "gone" (on_close ran)
    reader,     \* the task that a subscribe has spawned and not yet inserted
    table,      \* Conn.subscriptions
    aborted,    \* subscription tasks told to abort
    subPc, subId,
    session,    \* Conn.session
    expired,    \* sessions past their expiry
    callPc, method,
    wanted      \* history: ids the browser has subscribed and not unsubscribed since

vars == <<socket, reader, table, aborted, subPc, subId, session, expired,
          callPc, method, wanted>>

subVars == <<reader, table, aborted, subPc, subId, wanted>>
callVars == <<session, callPc, method>>

-----------------------------------------------------------------------------
SubPC == {"none", "spawned", "checked", "streaming", "returned", "removed", "done", "cancelled"}
CallPC == {"none", "spawned", "verify", "cancel", "write", "done"}
Method == {"login", "resume", "renew", "logout"}

TypeOK ==
    /\ socket \in {"open", "dead", "gone"}
    /\ reader \in Sub \cup {NoSub}
    /\ table \in [Id -> Sub \cup {NoSub}]
    /\ aborted \subseteq Sub
    /\ subPc \in [Sub -> SubPC]
    /\ subId \in [Sub -> Id]
    /\ session \in Call \cup {NoSession}
    /\ expired \subseteq Call
    /\ callPc \in [Call -> CallPC]
    /\ method \in [Call -> Method]
    /\ wanted \subseteq Id

Init ==
    /\ socket = "open"
    /\ reader = NoSub
    /\ table = [i \in Id |-> NoSub]
    /\ aborted = {}
    /\ subPc = [k \in Sub |-> "none"]
    /\ subId \in [Sub -> Id]
    /\ session = NoSession
    /\ expired = {}
    /\ callPc = [c \in Call |-> "none"]
    /\ method \in [Call -> Method]
    /\ wanted = {}

\* Ctx::session: there is a session and it has not expired.
SignedIn == session # NoSession /\ session \notin expired

\* A task still to be polled: it may stream, now or later.
Live(k) == subPc[k] \in {"spawned", "checked", "streaming"}

-----------------------------------------------------------------------------
(* Gateway::on_message and ::on_close. The reader is busy while a          *)
(* subscribe has spawned its task and not yet put it into the table.       *)

FrameArrives == socket = "open" /\ reader = NoSub

\* A frame may name an id that is in use, or was.
OnSubscribe(k) ==
    /\ FrameArrives /\ subPc[k] = "none"
    /\ subPc' = [subPc EXCEPT ![k] = "spawned"]
    /\ reader' = k
    /\ wanted' = wanted \cup {subId[k]}
    /\ UNCHANGED <<socket, table, aborted, subId, expired, callVars>>

\* Mutant: the task that held the id is dropped with its handle.
SubscribeInsertOver ==
    /\ reader # NoSub
    /\ table' = [table EXCEPT ![subId[reader]] = reader]
    /\ reader' = NoSub
    /\ UNCHANGED <<socket, aborted, subPc, subId, wanted, expired, callVars>>

\* `insert` hands back the task that held the id, which is aborted.
SubscribeInsert ==
    /\ reader # NoSub
    /\ table' = [table EXCEPT ![subId[reader]] = reader]
    /\ aborted' = aborted \cup ({table[subId[reader]]} \ {NoSub})
    /\ reader' = NoSub
    /\ UNCHANGED <<socket, subPc, subId, wanted, expired, callVars>>

\* Mutant: the handle is dropped, which detaches the task instead of ending it.
OnUnsubscribeDrops(i) ==
    /\ FrameArrives
    /\ table' = [table EXCEPT ![i] = NoSub]
    /\ wanted' = wanted \ {i}
    /\ UNCHANGED <<socket, reader, aborted, subPc, subId, expired, callVars>>

OnUnsubscribe(i) ==
    /\ FrameArrives
    /\ table' = [table EXCEPT ![i] = NoSub]
    /\ aborted' = aborted \cup ({table[i]} \ {NoSub})
    /\ wanted' = wanted \ {i}
    /\ UNCHANGED <<socket, reader, subPc, subId, expired, callVars>>

OnCall(c) ==
    /\ FrameArrives /\ callPc[c] = "none"
    /\ callPc' = [callPc EXCEPT ![c] = "spawned"]
    /\ UNCHANGED <<socket, subVars, expired, session, method>>

SocketDies ==
    /\ socket = "open"
    /\ socket' = "dead"
    /\ UNCHANGED <<subVars, expired, callVars>>

\* Mutant: only the ids in use survive the emptying of the table.
CancelAllForgets ==
    /\ aborted' = aborted \cup ({table[i] : i \in Id} \ {NoSub})
    /\ table' = [i \in {j \in Id : table[j] # NoSub} |-> NoSub]

\* Conn::cancel_all
CancelAll ==
    /\ aborted' = aborted \cup ({table[i] : i \in Id} \ {NoSub})
    /\ table' = [i \in Id |-> NoSub]

OnClose ==
    /\ socket = "dead" /\ reader = NoSub
    /\ socket' = "gone"
    /\ CancelAll
    /\ UNCHANGED <<reader, subPc, subId, wanted, expired, callVars>>

-----------------------------------------------------------------------------
(* The task of a subscription. Registry::subscribe reads the session, may  *)
(* await discovery (ensure_available), and the topic reads it again.       *)

SubMoves(k, from, to) ==
    /\ subPc[k] = from
    /\ subPc' = [subPc EXCEPT ![k] = to]

SubCheck(k) ==
    /\ SubMoves(k, "spawned", IF SignedIn THEN "checked" ELSE "returned")
    /\ UNCHANGED <<socket, reader, table, aborted, subId, wanted, expired, callVars>>

SubStart(k) ==
    /\ SubMoves(k, "checked", IF SignedIn THEN "streaming" ELSE "returned")
    /\ UNCHANGED <<socket, reader, table, aborted, subId, wanted, expired, callVars>>

\* The topic ends: its API is absent, the watch is refused, or an emit failed.
SubReturns(k) ==
    /\ \/ SubMoves(k, "checked", "returned")
       \/ SubMoves(k, "streaming", "returned")
    /\ UNCHANGED <<socket, reader, table, aborted, subId, wanted, expired, callVars>>

\* It removes whatever its id names in the table ...
SubRemoves(k) ==
    /\ SubMoves(k, "returned", "removed")
    /\ table' = [table EXCEPT ![subId[k]] = NoSub]
    /\ UNCHANGED <<socket, reader, aborted, subId, wanted, expired, callVars>>

\* ... and sends its `end`.
SubEnds(k) ==
    /\ SubMoves(k, "removed", "done")
    /\ UNCHANGED <<socket, reader, table, aborted, subId, wanted, expired, callVars>>

\* An abort takes effect where the task awaits.
SubCancelled(k) ==
    /\ k \in aborted /\ Live(k)
    /\ subPc' = [subPc EXCEPT ![k] = "cancelled"]
    /\ UNCHANGED <<socket, reader, table, aborted, subId, wanted, expired, callVars>>

-----------------------------------------------------------------------------
(* auth.login, auth.resume, auth.renew and auth.logout. The last two need  *)
(* a session; login and renew ask the API server who the credential is.    *)

CallMoves(c, from, to) ==
    /\ callPc[c] = from
    /\ callPc' = [callPc EXCEPT ![c] = to]

CallStart(c) ==
    /\ CallMoves(c, "spawned",
                 CASE method[c] = "login" -> "verify"
                   [] method[c] = "resume" -> "write"
                   [] method[c] = "renew" -> IF SignedIn THEN "verify" ELSE "done"
                   [] method[c] = "logout" -> IF SignedIn THEN "cancel" ELSE "done")
    /\ UNCHANGED <<socket, subVars, expired, session, method>>

Verified(c) ==
    /\ CallMoves(c, "verify", IF method[c] = "login" THEN "cancel" ELSE "write")
    /\ UNCHANGED <<socket, subVars, expired, session, method>>

\* The API server refuses the credential, or the ticket is no good.
Refused(c) ==
    /\ \/ CallMoves(c, "verify", "done")
       \/ method[c] = "resume" /\ CallMoves(c, "write", "done")
    /\ UNCHANGED <<socket, subVars, expired, session, method>>

CallCancels(c) ==
    /\ CallMoves(c, "cancel", "write")
    /\ CancelAll
    /\ UNCHANGED <<socket, reader, subPc, subId, wanted, expired, session, method>>

CallWrites(c) ==
    /\ CallMoves(c, "write", "done")
    /\ session' = IF method[c] = "logout" THEN NoSession ELSE c
    /\ UNCHANGED <<socket, subVars, expired, method>>

SessionExpires ==
    /\ SignedIn
    /\ expired' = expired \cup {session}
    /\ UNCHANGED <<socket, subVars, callVars>>

-----------------------------------------------------------------------------
SubStep(k) ==
    SubCheck(k) \/ SubStart(k) \/ SubReturns(k) \/ SubRemoves(k) \/ SubEnds(k) \/ SubCancelled(k)

CallStep(c) == CallStart(c) \/ Verified(c) \/ Refused(c) \/ CallCancels(c) \/ CallWrites(c)

Next ==
    \/ SubscribeInsert \/ SocketDies \/ OnClose \/ SessionExpires
    \/ \E k \in Sub : OnSubscribe(k) \/ SubStep(k)
    \/ \E i \in Id : OnUnsubscribe(i)
    \/ \E c \in Call : OnCall(c) \/ CallStep(c)

Spec == Init /\ [][Next]_vars

-----------------------------------------------------------------------------
(* Properties.                                                             *)

\* Another subscription of k's id has ended by itself; it removed whatever the id named.
Displaced(k) ==
    \E j \in Sub \ {k} : subId[j] = subId[k] /\ subPc[j] \in {"removed", "done"}

\* Whatever may still stream can be stopped: it is in the table under its id, or the
\* reader is about to put it there, or it has been told to abort, also when its id
\* was used before or is used again. So no two of one id stream on. Out of reach is
\* at most a subscription whose id another one had that ended by itself.
Stoppable ==
    \A k \in Sub : Live(k) /\ ~Displaced(k) =>
        k \in aborted \/ reader = k \/ table[subId[k]] = k

\* Nothing the browser has unsubscribed, or lost with its socket, goes on streaming
\* without having been told to abort, with the same exception.
NothingUnwanted ==
    \A k \in Sub : Live(k) /\ ~Displaced(k) /\ k \notin aborted =>
        subId[k] \in wanted /\ socket # "gone"
=============================================================================
