------------------------------- MODULE Upload -------------------------------
(***************************************************************************)
(* One upload of a disk image: the `disk.upload` task of                   *)
(* src/extensions/storage.rs, the upload socket of src/gateway/upload.rs   *)
(* with the `prepare` task it starts, and the browser and CDI's upload     *)
(* proxy at its two ends.                                                  *)
(*                                                                         *)
(* They agree on one `watch` value, the UploadState. `fail` leaves an      *)
(* ended state alone; `set` replaces whatever is there. A read loop runs   *)
(* the handlers of one socket one after the other; the task and `prepare`  *)
(* run beside it. `received` counts bytes in units of the smallest chunk.  *)
(***************************************************************************)
EXTENDS Integers

CONSTANTS Size,        \* the declared size of the file
          MaxChunk     \* bound: the largest chunk a browser sends

ASSUME UploadAssumption == Size \in Nat \ {0} /\ MaxChunk \in Nat \ {0}

VARIABLES
    state,      \* the UploadState
    ticket,     \* the one-time ticket of `upload.begin`
    task,       \* where `run` is in the task
    sock,       \* where the read loop of the upload socket is
    prepare,    \* where the task that `on_connect` spawned is
    upstream,   \* Active.upstream is Some
    received,   \* Active.received
    finished,   \* Active.finished
    proxy,      \* what CDI's upload proxy has made of the request
    told,       \* what the browser was sent
    patient     \* the browser sends nothing before `ready` (uploads.ts)

vars == <<state, ticket, task, sock, prepare, upstream, received, finished,
          proxy, told, patient>>

TaskEnded == {"ok", "error", "stopped"}

TypeOK ==
    /\ state \in {"Preparing", "Ready", "Uploading", "Finished", "Failed"}
    /\ ticket \in {"issued", "redeemed", "expired"}
    /\ task \in {"post", "follow", "token", "receive", "process", "fail"} \cup TaskEnded
    /\ sock \in {"none", "refused", "open", "finish", "closed"}
    /\ prepare \in {"none", "wait", "open", "store", "set", "done", "aborted"}
    /\ upstream \in BOOLEAN /\ finished \in BOOLEAN /\ patient \in BOOLEAN
    /\ received \in 0 .. Size
    /\ proxy \in {"idle", "reading", "stopped", "accepted", "refused", "broken"}
    /\ told \subseteq {"ready", "done", "error"}

\* `begin`: the session, its ticket and the task.
Init ==
    /\ state = "Preparing"
    /\ ticket = "issued"
    /\ task = "post"
    /\ sock = "none"
    /\ prepare = "none"
    /\ upstream = FALSE
    /\ received = 0
    /\ finished = FALSE
    /\ proxy = "idle"
    /\ told = {}
    /\ patient \in BOOLEAN

\* UploadSession::fail.
Failed(s) == IF s \in {"Finished", "Failed"} THEN s ELSE "Failed"

\* The free function `fail`: the session failed, the browser told, a close sent.
FailUpload ==
    /\ state' = Failed(state)
    /\ told' = told \cup {"error"}

-----------------------------------------------------------------------------
(* The task.                                                               *)

socketVars == <<ticket, sock, prepare, upstream, received, finished, proxy, told, patient>>

TaskPosts ==
    /\ task = "post"
    /\ task' \in {"follow", "fail"}
    /\ UNCHANGED <<state, socketVars>>

\* The select! of `run`: CDI reached UploadReady or `follow` gave up ...
TaskFollowed ==
    /\ task = "follow"
    /\ task' \in {"token", "fail"}
    /\ UNCHANGED <<state, socketVars>>

\* ... or the browser gave up first.
TaskAbandoned ==
    /\ task = "follow" /\ state = "Failed"
    /\ task' = "fail"
    /\ UNCHANGED <<state, socketVars>>

\* The token arrives and `set` makes the upload ready, whatever it was by then.
TaskReady ==
    /\ task = "token"
    /\ \/ task' = "receive" /\ state' = "Ready"
       \/ task' = "fail" /\ UNCHANGED state
    /\ UNCHANGED socketVars

TaskReceived ==
    /\ task = "receive" /\ state = "Finished"
    /\ task' = "process"
    /\ UNCHANGED <<state, socketVars>>

\* Mutant: the task waits for the browser without a limit.
TaskGivesUpOnFailure ==
    /\ task = "receive" /\ state = "Failed"
    /\ task' = "fail"
    /\ UNCHANGED <<state, socketVars>>

\* The state has failed, or it has been Ready for ten minutes: an Uploading one
\* is never timed out.
TaskGivesUp ==
    /\ task = "receive" /\ state \in {"Failed", "Ready", "Preparing"}
    /\ task' = "fail"
    /\ UNCHANGED <<state, socketVars>>

TaskProcessed ==
    /\ task = "process"
    /\ task' \in {"ok", "fail"}
    /\ UNCHANGED <<state, socketVars>>

\* `run` returned an error: the session is failed with it, and the task ends.
TaskFails ==
    /\ task = "fail"
    /\ state' = Failed(state)
    /\ task' = "error"
    /\ UNCHANGED socketVars

\* `tasks.stop` drops the future of `run` where it awaits; nothing else is told.
TaskStopped ==
    /\ task \notin TaskEnded \cup {"fail"}
    /\ task' = "stopped"
    /\ UNCHANGED <<state, socketVars>>

-----------------------------------------------------------------------------
(* The socket: the ticket, and the task that waits for CDI.                *)

TicketExpires ==
    /\ ticket = "issued"
    /\ ticket' = "expired"
    /\ UNCHANGED <<state, task, sock, prepare, upstream, received, finished, proxy, told, patient>>

OnConnect ==
    /\ sock = "none"
    /\ \/ /\ ticket = "issued"
          /\ ticket' = "redeemed"
          /\ sock' = "open" /\ prepare' = "wait"
          /\ UNCHANGED told
       \/ /\ ticket = "expired"
          /\ sock' = "refused" /\ told' = {"error"}
          /\ UNCHANGED <<ticket, prepare>>
    /\ UNCHANGED <<state, task, upstream, received, finished, proxy, patient>>

PrepareSeesReady ==
    /\ prepare = "wait" /\ state = "Ready"
    /\ prepare' = "open"
    /\ UNCHANGED <<state, ticket, task, sock, upstream, received, finished, proxy, told, patient>>

\* Mutant: without READY_TIMEOUT.
PrepareSeesFailure ==
    /\ prepare = "wait" /\ state = "Failed"
    /\ prepare' = "done"
    /\ FailUpload
    /\ UNCHANGED <<ticket, task, sock, upstream, received, finished, proxy, patient>>

\* The upload failed, or READY_TIMEOUT passed.
PrepareGivesUp ==
    /\ prepare = "wait" /\ state # "Ready"
    /\ prepare' = "done"
    /\ FailUpload
    /\ UNCHANGED <<ticket, task, sock, upstream, received, finished, proxy, patient>>

PrepareOpens ==
    /\ prepare = "open"
    /\ \/ prepare' = "store" /\ proxy' = "reading" /\ UNCHANGED <<state, told>>
       \/ prepare' = "done" /\ FailUpload /\ UNCHANGED proxy
    /\ UNCHANGED <<ticket, task, sock, upstream, received, finished, patient>>

\* Mutant: the browser is told to send before the upload is marked uploading.
PrepareStoresTelling ==
    /\ prepare = "store"
    /\ prepare' = "set"
    /\ upstream' = (sock # "closed")
    /\ proxy' = IF sock = "closed" THEN "broken" ELSE proxy
    /\ told' = told \cup {"ready"}
    /\ UNCHANGED <<state, ticket, task, sock, received, finished, patient>>

\* Under the lock of Active; after on_close the upstream is dropped with it.
PrepareStores ==
    /\ prepare = "store"
    /\ prepare' = "set"
    /\ upstream' = (sock # "closed")
    /\ proxy' = IF sock = "closed" THEN "broken" ELSE proxy
    /\ UNCHANGED <<state, ticket, task, sock, received, finished, told, patient>>

\* The lock is released by now, and no await is left at which to abort.
PrepareSets ==
    /\ prepare = "set"
    /\ state' = "Uploading"
    /\ told' = told \cup {"ready"}
    /\ prepare' = "done"
    /\ UNCHANGED <<ticket, task, sock, upstream, received, finished, proxy, patient>>

-----------------------------------------------------------------------------
(* The socket: on_message and on_close.                                    *)

MaySend == sock = "open" /\ ~finished /\ (patient => "ready" \in told)

\* `finish` up to the await of the proxy's answer.
StartFinish ==
    /\ upstream' = FALSE
    /\ finished' = TRUE
    /\ sock' = "finish"

ChunkRefused(n) ==
    /\ MaySend
    /\ ~upstream \/ received + n > Size
    /\ FailUpload
    /\ UNCHANGED <<ticket, task, sock, prepare, upstream, received, finished, proxy, patient>>

\* The proxy stopped reading: its answer says why.
ChunkNotRead(n) ==
    /\ MaySend /\ upstream /\ received + n <= Size
    /\ proxy = "stopped"
    /\ StartFinish
    /\ UNCHANGED <<state, ticket, task, prepare, received, proxy, told, patient>>

\* Mutant: nothing looks at the declared size.
ChunkTakenAny(n) ==
    /\ MaySend /\ upstream
    /\ proxy = "reading"
    /\ received' = received + n
    /\ state' = "Uploading"
    /\ \/ received + n = Size /\ StartFinish
       \/ received + n # Size /\ UNCHANGED <<upstream, finished, sock>>
    /\ UNCHANGED <<ticket, task, prepare, proxy, told, patient>>

ChunkTaken(n) ==
    /\ MaySend /\ upstream /\ received + n <= Size
    /\ proxy = "reading"
    /\ received' = received + n
    /\ state' = "Uploading"
    /\ \/ received + n = Size /\ StartFinish
       \/ received + n < Size /\ UNCHANGED <<upstream, finished, sock>>
    /\ UNCHANGED <<ticket, task, prepare, proxy, told, patient>>

\* A text frame `done` before the last byte.
DoneTooEarly ==
    /\ MaySend /\ received # Size
    /\ FailUpload
    /\ UNCHANGED <<ticket, task, sock, prepare, upstream, received, finished, proxy, patient>>

\* Mutant: whatever the proxy answers ends the upload.
FinishIsFinish ==
    /\ sock = "finish"
    /\ proxy' = IF received = Size THEN "accepted" ELSE "refused"
    /\ state' = "Finished" /\ told' = told \cup {"done"}
    /\ sock' = "open"
    /\ UNCHANGED <<ticket, task, prepare, upstream, received, finished, patient>>

\* The answer: 2xx, another status, a broken connection or none in 600 s.
FinishAnswered ==
    /\ sock = "finish"
    /\ \/ /\ proxy = "reading"
          /\ proxy' = "accepted"
          /\ state' = "Finished" /\ told' = told \cup {"done"}
       \/ /\ proxy' = "refused"
          /\ FailUpload
    /\ sock' = "open"
    /\ UNCHANGED <<ticket, task, prepare, upstream, received, finished, patient>>

\* External: the proxy gives up on the request and reads no further.
ProxyStops ==
    /\ proxy = "reading"
    /\ proxy' = "stopped"
    /\ UNCHANGED <<state, ticket, task, sock, prepare, upstream, received, finished, told, patient>>

\* An abort reaches `prepare` where it awaits; past its last await it runs on.
AbortPrepare ==
    \/ prepare \in {"wait", "open", "store"} /\ prepare' = "aborted"
    \/ prepare \notin {"wait", "open"} /\ UNCHANGED prepare

\* The browser closed, or the close the server asked for is done.
OnClose ==
    /\ sock = "open"
    /\ sock' = "closed"
    /\ AbortPrepare
    /\ state' = IF finished THEN state ELSE Failed(state)
    /\ upstream' = (upstream /\ finished)
    /\ proxy' = IF (~finished /\ upstream) \/ (prepare = "store" /\ prepare' = "aborted")
                THEN "broken" ELSE proxy
    /\ UNCHANGED <<ticket, task, received, finished, told, patient>>

-----------------------------------------------------------------------------
TaskRuns ==
    \/ TaskPosts \/ TaskFollowed \/ TaskAbandoned \/ TaskReady
    \/ TaskReceived \/ TaskGivesUp \/ TaskProcessed \/ TaskFails

PrepareRuns ==
    PrepareSeesReady \/ PrepareGivesUp \/ PrepareOpens \/ PrepareStores \/ PrepareSets

OnMessage ==
    \/ \E n \in 1 .. MaxChunk : ChunkRefused(n) \/ ChunkNotRead(n) \/ ChunkTaken(n)
    \/ DoneTooEarly

Next ==
    \/ TaskRuns \/ TaskStopped
    \/ TicketExpires \/ OnConnect \/ PrepareRuns
    \/ OnMessage \/ FinishAnswered \/ OnClose
    \/ ProxyStops

Spec == Init /\ [][Next]_vars

Closing == "done" \in told \/ "error" \in told

\* The API server answers what it is asked; every other wait of the task has a time
\* limit, but for the one for more bytes. `prepare` waits no longer than
\* READY_TIMEOUT, and `finish` 600 s for the proxy's answer. Nothing is assumed of
\* reaching the proxy, of its reading the body, or of the browser: none is bounded.
FairSpec ==
    /\ Spec
    /\ WF_vars(TaskRuns)
    /\ WF_vars(PrepareSeesReady \/ PrepareGivesUp \/ PrepareStores \/ PrepareSets)
    /\ WF_vars(FinishAnswered)

-----------------------------------------------------------------------------
(* Properties.                                                             *)

\* Neither the browser nor the task takes an upload for done unless CDI's proxy
\* has accepted all of the declared bytes, whoever failed, closed or stopped
\* what on the way.
SuccessIsWhole ==
    (state = "Finished" \/ "done" \in told \/ task \in {"process", "ok"})
        => proxy = "accepted" /\ received = Size

\* A browser that waits for `ready` and is told `done` can rely on it: no late
\* `set` or `fail` of the task or of `prepare` takes the ending back.
DoneIsKept == patient /\ "done" \in told => state = "Finished"

\* The task ends whatever the browser, CDI and the user do, with one exception: an
\* upload that stays Uploading for ever, because its browser is silent or its proxy
\* does not read, or because `prepare` marked it so after the socket had closed.
TaskSettles == (task = "post") ~> (task \in TaskEnded \/ [](state = "Uploading"))

\* No browser waits in vain for CDI or for the verdict on its bytes: also when the
\* task that was to prepare the disk has been stopped, it is told that the upload
\* failed unless the proxy is being reached or the browser has gone; and whatever
\* the proxy makes of the body, it is told `done` or an error.
WaitsAreAnswered ==
    /\ (prepare = "wait") ~> ("error" \in told \/ prepare \in {"open", "aborted"})
    /\ (sock = "finish") ~> Closing

\* What docs/features/storage.md says of a socket that opens and then sends nothing:
\* the task gives up. (A browser that waits for `ready`, and a proxy that reads.)
SilenceEndsTask ==
    (patient /\ task = "receive" /\ sock = "open" /\ received = 0)
        ~> (task \in TaskEnded \/ received > 0 \/ sock # "open" \/ proxy = "stopped")
=============================================================================
