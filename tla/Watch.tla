------------------------------- MODULE Watch -------------------------------
(***************************************************************************)
(* One `watch` subscription: the list-then-watch loop of                   *)
(* src/cluster/watch.rs, the API server it reads from, and the copy of the *)
(* collection that web/src/stores/watch.ts keeps in the browser.           *)
(*                                                                         *)
(* The API server is external. It is modelled by what watch.rs relies on:  *)
(* a list is paged from one snapshot, a watch delivers every change of the *)
(* collection after a version in order, history before `compacted` is gone *)
(* (410), and any request may fail or any stream break.                    *)
(*                                                                         *)
(* Frames to the browser arrive in order, so an emitted frame is taken to  *)
(* be applied at once; when the socket is dead `emit` fails and the loop   *)
(* stops.                                                                  *)
(***************************************************************************)
EXTENDS Naturals, Sequences, FiniteSets

CONSTANTS Object, Other,
          PAGE,          \* items per page of a list (500)
          MaxChanges,    \* bound: changes the API server makes
          MaxFaults      \* bound: failed requests, broken streams, lost sockets

ASSUME WatchAssumption ==
    /\ Other \notin Object
    /\ PAGE \in Nat \ {0} /\ MaxChanges \in Nat /\ MaxFaults \in Nat

VARIABLES
    history,     \* the API server's changes
    compacted,   \* versions before this one cannot be watched or paged from
    pc,          \* where `run` is
    snap,        \* the version the list in progress is of
    listed,      \* the items of the pages read so far
    version,     \* the last version seen
    stream,      \* the last version the open stream has passed
    view, at,    \* the browser's copy; history: the version it is of
    alive,       \* the socket to the browser
    faults

apiVars == <<history, compacted>>
runVars == <<pc, snap, listed, version, stream>>
viewVars == <<view, at>>
vars == <<apiVars, runVars, viewVars, alive, faults>>

\* The promise, with the browser's copy for the cache.
Cache == INSTANCE ConsistentCache WITH history <- history, view <- view, at <- at

TypeOK ==
    /\ history \in Seq(Cache!Change)
    /\ compacted \in 0 .. Len(history)
    /\ pc \in {"list", "page", "open", "stream", "stopped", "refused"}
    /\ snap \in 0 .. Len(history) /\ version \in 0 .. Len(history) /\ stream \in 0 .. Len(history)
    /\ listed \in SUBSET Object
    /\ view \in [Object -> 0 .. Len(history)]
    /\ at \in 0 .. Len(history)
    /\ alive \in BOOLEAN
    /\ faults \in 0 .. MaxFaults

Init ==
    /\ Cache!Init
    /\ compacted = 0
    /\ pc = "list" /\ snap = 0 /\ listed = {} /\ version = 0 /\ stream = 0
    /\ alive = TRUE
    /\ faults = 0

-----------------------------------------------------------------------------
(* The API server (external).                                              *)

\* The objects that the collection has at version v.
Present(v) == {o \in Object : Cache!StateAt(v)[o] # Cache!Absent}

ApiWrites(c) ==
    /\ Len(history) < MaxChanges
    /\ c.deleted => c.object \in Present(Len(history))
    /\ history' = Append(history, c)
    /\ UNCHANGED <<compacted, runVars, viewVars, alive, faults>>

ApiCompacts ==
    /\ \E v \in compacted + 1 .. Len(history) : compacted' = v
    /\ UNCHANGED <<history, runVars, viewVars, alive, faults>>

-----------------------------------------------------------------------------
(* run: list every page ...                                                *)

Page(v) == {S \in SUBSET (Present(v) \ listed) :
              \/ Cardinality(S) = PAGE
              \/ Cardinality(S) < PAGE /\ S = Present(v) \ listed}

\* The store replaces its whole map by the items of a SYNC.
EmitSync(v, items) ==
    /\ view' = [o \in Object |-> IF o \in items THEN Cache!StateAt(v)[o] ELSE Cache!Absent]
    /\ at' = v

\* Mutant: the watch starts at the version current when the last page arrived.
ListPageLateVersion(v) ==
    /\ \E S \in Page(v) :
          \/ /\ listed \cup S # Present(v)
             /\ listed' = listed \cup S
             /\ pc' = "page" /\ snap' = v
             /\ UNCHANGED <<version, viewVars>>
          \/ /\ listed \cup S = Present(v)
             /\ listed' = {} /\ snap' = 0
             /\ version' = Len(history)
             /\ \/ alive /\ EmitSync(v, listed \cup S) /\ pc' = "open"
                \/ ~alive /\ pc' = "stopped" /\ UNCHANGED viewVars
    /\ UNCHANGED <<apiVars, stream, alive, faults>>

\* A page of the snapshot at v arrives; after the last one the SYNC is emitted.
ListPage(v) ==
    /\ \E S \in Page(v) :
          \/ /\ listed \cup S # Present(v)
             /\ listed' = listed \cup S
             /\ pc' = "page" /\ snap' = v
             /\ UNCHANGED <<version, viewVars>>
          \/ /\ listed \cup S = Present(v)
             /\ listed' = {} /\ snap' = 0
             /\ version' = v
             /\ \/ alive /\ EmitSync(v, listed \cup S) /\ pc' = "open"
                \/ ~alive /\ pc' = "stopped" /\ UNCHANGED viewVars
    /\ UNCHANGED <<apiVars, stream, alive, faults>>

ListFirst == pc = "list" /\ ListPage(Len(history))

\* The continue token names the snapshot of the first page, unless it expired.
ListNext == pc = "page" /\ snap >= compacted /\ ListPage(snap)

\* An ERROR is emitted and, after a pause, the list starts again.
ListFails ==
    /\ \/ pc = "page" /\ snap < compacted /\ UNCHANGED faults
       \/ pc \in {"list", "page"} /\ faults < MaxFaults /\ faults' = faults + 1
    /\ pc' = IF alive THEN "list" ELSE "stopped"
    /\ listed' = {} /\ snap' = 0
    /\ UNCHANGED <<apiVars, version, stream, viewVars, alive>>

\* 403 or 404, and to a list also 400: retrying cannot fix it. (A 400 to a watch
\* makes it list again, as WatchFails does.)
Refused ==
    /\ pc \in {"list", "page", "open"} /\ faults < MaxFaults
    /\ faults' = faults + 1
    /\ pc' = "refused"
    /\ UNCHANGED <<apiVars, snap, listed, version, stream, viewVars, alive>>

-----------------------------------------------------------------------------
(* ... then watch from the list's version.                                 *)

WatchOpens ==
    /\ pc = "open" /\ version >= compacted
    /\ stream' = version
    /\ pc' = "stream"
    /\ UNCHANGED <<apiVars, snap, listed, version, viewVars, alive, faults>>

\* Mutant: after a 410 the watch goes on from the present, without a list.
WatchExpiredFromNow ==
    /\ pc \in {"open", "stream"} /\ version < compacted
    /\ version' = Len(history)
    /\ pc' = "open"
    /\ UNCHANGED <<apiVars, snap, listed, stream, viewVars, alive, faults>>

\* Mutant: a 410 ends the subscription like any other refusal.
WatchExpiredStops ==
    /\ pc \in {"open", "stream"} /\ version < compacted
    /\ pc' = "stopped"
    /\ UNCHANGED <<apiVars, snap, listed, version, stream, viewVars, alive, faults>>

\* 410 Gone, on opening or as an ERROR event of the stream.
WatchExpired ==
    /\ pc \in {"open", "stream"} /\ version < compacted
    /\ pc' = "list"
    /\ UNCHANGED <<apiVars, snap, listed, version, stream, viewVars, alive, faults>>

\* Any other failure to open, or another ERROR event: pause and list again.
WatchFails ==
    /\ pc \in {"open", "stream"} /\ faults < MaxFaults
    /\ faults' = faults + 1
    /\ pc' = "list"
    /\ UNCHANGED <<apiVars, snap, listed, version, stream, viewVars, alive>>

\* The API server closes the stream (timeoutSeconds) or it breaks: the next one
\* resumes from the last version seen.
StreamEnds ==
    /\ pc = "stream" /\ faults < MaxFaults
    /\ faults' = faults + 1
    /\ pc' = "open"
    /\ UNCHANGED <<apiVars, snap, listed, version, stream, viewVars, alive>>

\* The stream passes over a change that is not the collection's.
StreamSkips ==
    /\ pc = "stream" /\ stream < Len(history)
    /\ history[stream + 1].object = Other
    /\ stream' = stream + 1
    /\ UNCHANGED <<apiVars, pc, snap, listed, version, viewVars, alive, faults>>

\* Mutant: events do not move the version to resume from.
StreamEventForgotten ==
    /\ pc = "stream" /\ stream < Len(history)
    /\ history[stream + 1].object # Other
    /\ LET c == history[stream + 1] IN
       view' = [view EXCEPT ![c.object] = IF c.deleted THEN Cache!Absent ELSE stream + 1]
    /\ at' = stream + 1
    /\ stream' = stream + 1
    /\ UNCHANGED <<apiVars, pc, snap, listed, version, alive, faults>>

\* ADDED, MODIFIED or DELETED: the version is kept, then the event emitted; the
\* store puts the object into its map or takes it out.
StreamEvent ==
    /\ pc = "stream" /\ stream < Len(history)
    /\ history[stream + 1].object # Other
    /\ version' = stream + 1
    /\ LET c == history[stream + 1] IN
       \/ /\ alive
          /\ view' = [view EXCEPT ![c.object] = IF c.deleted THEN Cache!Absent ELSE stream + 1]
          /\ at' = stream + 1
          /\ stream' = stream + 1
          /\ UNCHANGED pc
       \/ /\ ~alive
          /\ pc' = "stopped"
          /\ UNCHANGED <<viewVars, stream>>
    /\ UNCHANGED <<apiVars, snap, listed, alive, faults>>

\* Mutant: a BOOKMARK is taken for the first change not yet seen.
StreamBookmarkNext ==
    /\ pc = "stream" /\ stream > version
    /\ version' = stream + 1
    /\ UNCHANGED <<apiVars, pc, snap, listed, stream, viewVars, alive, faults>>

\* A BOOKMARK moves the version past what the stream has skipped.
StreamBookmark ==
    /\ pc = "stream" /\ stream > version
    /\ version' = stream
    /\ UNCHANGED <<apiVars, pc, snap, listed, stream, viewVars, alive, faults>>

-----------------------------------------------------------------------------
(* The socket dies, taking the subscription with it (on_close aborts it);  *)
(* the browser reconnects and subscribes again, its copy still in place,   *)
(* unless the subscription had ended with an error.                        *)

SocketDies ==
    /\ alive /\ faults < MaxFaults
    /\ alive' = FALSE
    /\ faults' = faults + 1
    /\ UNCHANGED <<apiVars, runVars, viewVars>>

Resubscribe ==
    /\ ~alive /\ pc # "refused"
    /\ alive' = TRUE
    /\ pc' = "list" /\ snap' = 0 /\ listed' = {} /\ version' = 0 /\ stream' = 0
    /\ UNCHANGED <<apiVars, viewVars, faults>>

-----------------------------------------------------------------------------
Run ==
    \/ ListFirst \/ ListNext \/ ListFails \/ Refused
    \/ WatchOpens \/ WatchExpired \/ WatchFails
    \/ StreamEnds \/ StreamSkips \/ StreamEvent \/ StreamBookmark

Next ==
    \/ \E c \in Cache!Change : ApiWrites(c)
    \/ ApiCompacts
    \/ Run
    \/ SocketDies \/ Resubscribe

Spec == Init /\ [][Next]_vars

\* The loop is polled whenever an answer or an event is there, the API server
\* answers, and a browser reconnects. Faults are not fair: they may never come.
FairSpec ==
    /\ Spec
    /\ WF_vars(ListFirst \/ ListNext \/ (ListFails /\ faults' = faults))
    /\ WF_vars(WatchOpens \/ (pc = "open" /\ WatchExpired))
    /\ WF_vars(StreamSkips \/ StreamEvent)
    /\ WF_vars(Resubscribe)

-----------------------------------------------------------------------------
(* Properties.                                                             *)

\* The browser's copy is the whole collection as it was at one version, never a
\* mixture, through relists, pages, broken streams, bookmarks and reconnects.
ViewIsSnapshot == view = Cache!StateAt(at)

\* Nothing is missed: the version a watch resumes from is never past a change
\* that the browser has not been given.
NothingMissed ==
    pc \in {"open", "stream"} =>
        \A n \in at + 1 .. version : history[n].object = Other

\* The copy follows the abstract promise: it only moves to later snapshots.
ImplementsCache == Cache!Spec

\* The copy catches up with a collection that no longer changes, unless the API
\* server refuses the watch for good.
CatchesUp ==
    <>[](pc = "refused") \/ []<>(view = Cache!StateAt(Len(history)))

=============================================================================
