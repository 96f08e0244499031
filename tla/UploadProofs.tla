---------------------------- MODULE UploadProofs ----------------------------
(***************************************************************************)
(* Upload is type correct, takes only whole uploads for done, and never    *)
(* takes back a `done`, for every declared size and every chunk size.      *)
(***************************************************************************)
EXTENDS Upload, TLAPS

\* Until the token arrives nobody has been offered to send.
NotOffered ==
    task \in {"post", "follow", "token"} =>
        /\ state \in {"Preparing", "Failed"}
        /\ prepare \in {"none", "wait", "done", "aborted"}
        /\ ~upstream /\ ~finished

\* What each place of `prepare` implies about the request it opens.
PrepareInv ==
    /\ sock = "none" => prepare = "none"
    /\ prepare \in {"none", "wait", "open"} => proxy = "idle"
    /\ prepare \in {"none", "wait", "open", "store"} => ~upstream /\ ~finished /\ received = 0
    /\ prepare = "store" => proxy \in {"reading", "stopped"}
    /\ prepare = "aborted" => ~upstream /\ sock = "closed"

\* Only `prepare` says `ready`, as the last thing it does.
ReadyInv ==
    /\ "ready" \in told => prepare = "done" /\ task \notin {"post", "follow", "token"}
    /\ patient /\ (received > 0 \/ finished) => "ready" \in told

\* An open request that has been answered is nobody's to answer again.
RequestInv ==
    /\ upstream => proxy \in {"reading", "stopped"} /\ ~finished
    /\ sock = "finish" => finished /\ proxy \in {"reading", "stopped"}
    /\ sock = "finish" /\ proxy = "reading" => received = Size
    /\ proxy \in {"accepted", "refused"} => finished /\ sock # "finish"
    /\ proxy = "accepted" => received = Size
    /\ finished => ~upstream
    /\ finished /\ sock # "finish" => proxy \in {"accepted", "refused"}
    /\ task \in {"process", "ok"} \/ state = "Finished" => proxy = "accepted"
    /\ "done" \in told => proxy = "accepted"

UploadInv == TypeOK /\ NotOffered /\ PrepareInv /\ ReadyInv /\ RequestInv /\ DoneIsKept

\* The invariant holds when `begin` returns.
LEMMA UploadInit == Init => UploadInv
  <1> SUFFICES ASSUME Init PROVE UploadInv
    OBVIOUS
  <1>1. TypeOK
    <2>1. received \in 0 .. Size BY UploadAssumption DEF Init
    <2> QED BY <2>1, Zenon DEF Init, TypeOK, TaskEnded
  <1>2. NotOffered /\ PrepareInv BY DEF Init, NotOffered, PrepareInv
  <1>3. ReadyInv BY DEF Init, ReadyInv
  <1>4. RequestInv /\ DoneIsKept BY DEF Init, RequestInv, DoneIsKept
  <1> QED BY <1>1, <1>2, <1>3, <1>4 DEF UploadInv

\* No step of the task, `prepare`, the read loop or the proxy breaks it.
LEMMA UploadStep == UploadInv /\ [Next]_vars => UploadInv'
  <1> SUFFICES ASSUME UploadInv, [Next]_vars PROVE UploadInv'
    OBVIOUS
  <1> USE UploadAssumption DEF UploadInv, TypeOK, NotOffered, PrepareInv, ReadyInv, RequestInv, DoneIsKept, TaskEnded
  <1>1. CASE TaskRuns
    <2>1. CASE TaskPosts BY <2>1 DEF TaskPosts, socketVars
    <2>2. CASE TaskFollowed BY <2>2 DEF TaskFollowed, socketVars
    <2>3. CASE TaskAbandoned BY <2>3 DEF TaskAbandoned, socketVars
    <2>4. CASE TaskReady BY <2>4 DEF TaskReady, socketVars
    <2>5. CASE TaskReceived BY <2>5 DEF TaskReceived, socketVars
    <2>6. CASE TaskGivesUp BY <2>6 DEF TaskGivesUp, socketVars
    <2>7. CASE TaskProcessed BY <2>7 DEF TaskProcessed, socketVars
    <2>8. CASE TaskFails BY <2>8 DEF TaskFails, socketVars, Failed
    <2> QED BY <1>1, <2>1, <2>2, <2>3, <2>4, <2>5, <2>6, <2>7, <2>8 DEF TaskRuns
  <1>2. CASE TaskStopped BY <1>2 DEF TaskStopped, socketVars
  <1>3. CASE TicketExpires BY <1>3 DEF TicketExpires
  <1>4. CASE OnConnect BY <1>4 DEF OnConnect
  <1>5. CASE PrepareRuns
    <2>1. CASE PrepareSeesReady BY <2>1 DEF PrepareSeesReady
    <2>2. CASE PrepareGivesUp BY <2>2 DEF PrepareGivesUp, FailUpload, Failed
    <2>3. CASE PrepareOpens
      <3>1. CASE prepare' = "store" /\ proxy' = "reading" /\ UNCHANGED <<state, told>>
        BY <2>3, <3>1 DEF PrepareOpens
      <3>2. CASE prepare' = "done" /\ FailUpload /\ UNCHANGED proxy
        BY <2>3, <3>2 DEF PrepareOpens, FailUpload, Failed
      <3> QED BY <2>3, <3>1, <3>2 DEF PrepareOpens
    <2>4. CASE PrepareStores BY <2>4 DEF PrepareStores
    <2>5. CASE PrepareSets BY <2>5 DEF PrepareSets
    <2> QED BY <1>5, <2>1, <2>2, <2>3, <2>4, <2>5 DEF PrepareRuns
  <1>6. CASE OnMessage
    <2>1. ASSUME NEW n \in 1 .. MaxChunk, ChunkRefused(n) PROVE UploadInv'
      BY <2>1 DEF ChunkRefused, MaySend, FailUpload, Failed
    <2>2. ASSUME NEW n \in 1 .. MaxChunk, ChunkNotRead(n) PROVE UploadInv'
      <3>1. /\ sock = "open" /\ ~finished /\ (patient => "ready" \in told)
            /\ upstream /\ proxy = "stopped"
            /\ ~upstream' /\ finished' /\ sock' = "finish"
            /\ UNCHANGED <<state, ticket, task, prepare, received, proxy, told, patient>>
        BY <2>2 DEF ChunkNotRead, MaySend, StartFinish
      <3>2. TypeOK'
        <4>1. upstream' \in BOOLEAN /\ finished' \in BOOLEAN
          BY <2>2, Zenon DEF ChunkNotRead, StartFinish
        <4> QED BY <3>1, <4>1
      <3>3. NotOffered' /\ PrepareInv' BY <3>1
      <3>4. ReadyInv' /\ DoneIsKept' BY <3>1
      <3>5. RequestInv' BY <3>1
      <3> QED BY <3>2, <3>3, <3>4, <3>5
    <2>3. ASSUME NEW n \in 1 .. MaxChunk, ChunkTaken(n) PROVE UploadInv'
      <3>1. n \in Nat /\ received \in Nat /\ received' \in 0 .. Size /\ received' > 0
        BY <2>3 DEF ChunkTaken
      <3>2. prepare \in {"set", "done"} /\ proxy = "reading" /\ ~finished
        BY <2>3 DEF ChunkTaken, MaySend
      <3>3. state' = "Uploading" /\ UNCHANGED <<task, prepare, proxy, told, patient>>
        BY <2>3 DEF ChunkTaken
      <3>4. task \notin {"post", "follow", "token", "process", "ok"} /\ "done" \notin told
        BY <2>3, <3>2 DEF ChunkTaken
      <3>5. patient => "ready" \in told
        BY <2>3 DEF ChunkTaken, MaySend
      <3>6. \/ received' = Size /\ ~upstream' /\ finished' /\ sock' = "finish"
            \/ ~finished' /\ sock' = "open"
        BY <2>3, <3>1, <3>2 DEF ChunkTaken, MaySend, StartFinish
      <3>7. TypeOK' BY <2>3, <3>1, <3>3 DEF ChunkTaken, MaySend, StartFinish
      <3>8. NotOffered' /\ PrepareInv' BY <3>2, <3>3, <3>4, <3>6
      <3>9. ReadyInv' BY <3>2, <3>3, <3>4, <3>5
      <3>10. RequestInv' BY <3>2, <3>3, <3>4, <3>6
      <3>11. DoneIsKept' BY <3>3, <3>4
      <3> QED BY <3>7, <3>8, <3>9, <3>10, <3>11
    <2>4. CASE DoneTooEarly BY <2>4 DEF DoneTooEarly, MaySend, FailUpload, Failed
    <2> QED BY <1>6, <2>1, <2>2, <2>3, <2>4 DEF OnMessage
  <1>7. CASE FinishAnswered
    <2>1. /\ sock = "finish" /\ sock' = "open"
          /\ UNCHANGED <<ticket, task, prepare, upstream, received, finished, patient>>
      BY <1>7 DEF FinishAnswered
    <2>2. CASE /\ proxy = "reading" /\ proxy' = "accepted"
               /\ state' = "Finished" /\ told' = told \cup {"done"}
      <3>1. TypeOK' BY <2>1, <2>2
      <3>2. NotOffered' /\ PrepareInv' BY <2>1, <2>2
      <3>3. ReadyInv' /\ RequestInv' /\ DoneIsKept' BY <2>1, <2>2
      <3> QED BY <3>1, <3>2, <3>3
    <2>3. CASE proxy' = "refused" /\ FailUpload
      <3>1. TypeOK' BY <2>1, <2>3 DEF FailUpload, Failed
      <3>2. NotOffered' /\ PrepareInv' BY <2>1, <2>3 DEF FailUpload, Failed
      <3>3. ReadyInv' /\ RequestInv' /\ DoneIsKept' BY <2>1, <2>3 DEF FailUpload, Failed
      <3> QED BY <3>1, <3>2, <3>3
    <2> QED BY <1>7, <2>2, <2>3 DEF FinishAnswered
  <1>8. CASE OnClose BY <1>8 DEF OnClose, AbortPrepare, Failed
  <1>9. CASE ProxyStops BY <1>9 DEF ProxyStops
  <1>10. CASE UNCHANGED vars BY <1>10 DEF vars
  <1> QED
    BY <1>1, <1>2, <1>3, <1>4, <1>5, <1>6, <1>7, <1>8, <1>9, <1>10 DEF Next

\* UploadInv holds in every reachable state.
THEOREM UploadInvariant == Spec => []UploadInv
  BY UploadInit, UploadStep, PTL DEF Spec

\* Type correctness, for every declared size.
THEOREM UploadTypeCorrect == Spec => []TypeOK
  <1>1. UploadInv => TypeOK
    BY DEF UploadInv
  <1> QED BY <1>1, UploadInvariant, PTL

\* Only a whole upload that CDI's proxy accepted is taken for done, by the
\* browser (`done`), by the session (Finished) or by the task (TASK OK).
THEOREM UploadsAreWhole == Spec => []SuccessIsWhole
  <1>1. UploadInv => SuccessIsWhole
    BY DEF UploadInv, RequestInv, SuccessIsWhole
  <1> QED BY <1>1, UploadInvariant, PTL

\* What a patient browser was told stays true: no `set` comes after Finished.
THEOREM UploadsStayDone == Spec => []DoneIsKept
  <1>1. UploadInv => DoneIsKept
    BY DEF UploadInv
  <1> QED BY <1>1, UploadInvariant, PTL

=============================================================================
