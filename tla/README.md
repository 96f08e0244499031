# kubevirt-webgui: a TLA+ model of the server and its browser

This directory models the parts of kubevirt-webgui in which several things happen
at once: the task manager and the stream that shows tasks to browsers, the gateway
socket with its subscriptions and sessions, the watch loop behind every live table,
the upload of disk images, the long tasks on a virtual machine, node maintenance,
the import from Proxmox and the network agents. TLC checks the models on small
instances, TLAPS proves their safety properties for every instance, three disagreements
between the code and its documentation are kept as runs that must fail, and others are
described in section 4.

Source paths below are relative to the repository (`src/tasks.rs` is the server's,
`web/src/...` the browser's); `PROJECT.json` maps every definition to its lines.

## 1. The system

The server is one Rust process on tokio's multi-threaded runtime. It holds no
database: every user brings a Kubernetes credential, and the server acts with it. A
browser keeps one WebSocket, the *gateway*, and opens one more for each console and
each upload.

| Component | Source | State | Operations |
|---|---|---|---|
| Task manager | `src/tasks.rs` | deque of the last 1000 tasks, each with status, progress, a ring of 2000 log lines and an abort handle; one broadcast channel | `spawn`, `log`, `progress`, `clear_progress`, `finish`, `stop`, `list`, `find` |
| Task stream | `src/extensions/core.rs`, `web/src/stores/tasks.ts` | a receiver of the channel per subscription; the browser's map of tasks | `tasks` topic (SYNC, UPDATE, lag), `tasks.list`, `tasks.detail`, `tasks.stop` |
| Gateway socket | `src/gateway/mod.rs`, `src/rpc.rs` | a session and a table of subscription tasks per socket | `call`, `subscribe`, `unsubscribe`, `ping`, close |
| Sessions | `src/extensions/core.rs`, `src/auth.rs` | the session of a socket; sealed tickets held by the browser | `auth.login`, `resume`, `renew`, `logout`, expiry |
| Watch | `src/cluster/watch.rs`, `web/src/stores/watch.ts` | the last resource version; the browser's copy of a collection | list in pages, watch, bookmarks, 410, retry, resubscribe |
| Gateway client | `web/src/api/gateway.ts`, `web/src/stores/session.ts` | socket, queue of frames, pending calls, subscriptions, ticket | connect, hello, resume, call with time limit, subscribe, reconnect with backoff |
| Shared watches | `web/src/stores/watch.ts` | entries with reference counts and linger timers | acquire, release, `resetWatches` |
| Uploads | `src/gateway/upload.rs`, `src/extensions/storage.rs`, `web/src/plugins/core/create/uploads.ts` | one `UploadState` per upload in a `watch` channel; tickets; the open request to CDI | `upload.begin`, connect, chunk, done, close, the `disk.upload` task |
| Consoles | `src/gateway/console.rs` | one-time tickets; an upstream per socket | issue, redeem, two pumps, close |
| Discovery and client cache | `src/cluster/discovery.rs`, `src/cluster/mod.rs` | the API groups found, with their age | get, refresh, refresh unless recent |
| VM lifecycle | `src/extensions/kubevirt.rs`, `clone_access.rs` | none of its own: tasks that poll the cluster | power, create, disk create, delete, hotplug, unplug, snapshot, restore, clone |
| DataVolume progress | `src/extensions/datavolumes.rs` | none | `follow` |
| Migration and drain | `src/extensions/nodes.rs`, `kubevirt.rs` | none | migrate, cancel, cordon, uncordon, drain |
| Proxmox import | `src/extensions/proxmox.rs` | a guard that removes a half-made VM | plan, import disk by disk over ssh |
| Network agent | `src/netagent/` | the statuses it wrote, the MACs it remembers | list, read, plan, run commands, report |
| Metrics, paths, boot, screens | see `PROJECT.json` | samples, strings, settings | sampling, validation, rendering |

How they interact. A *call* or a *subscribe* frame is answered by a tokio task of
its own, so answers leave in any order. A method that takes long hands its work to
the task manager and returns the task's id; the work reports through the broadcast
channel, the `tasks` topic relays what belongs to the user, and the browser's store
keeps the last thing it was told about each task. A `watch` topic runs one
list-then-watch loop per subscription. An upload is shared by three actors, its
task, the read loop of its socket and a helper that waits for CDI, which meet in one
`watch` value. Stopping anything means aborting a tokio task, which takes effect
only where that task awaits.

What is hard to get right, and what makes each part correct:

* **Tasks.** Every lock is released before the copy made under it is sent. A task
  must end exactly once although its runner and any number of stops may finish it;
  the line that explains an ending must be out before the status; a throttle must
  not swallow a completed progress bar; a task that nobody but a stop can end any
  more, because its work hangs or has panicked, must end by it.
* **Task stream.** A receiver that lags loses events, a socket may be dead for a
  while before the server knows, and the channel carries the tasks of all users. A
  browser must still see each ending of its user's tasks, and nobody else's.
* **Gateway.** A subscription may run, and end, before its handle is in the table;
  an id may be used again, while it is in use and after; closing, logging out and
  expiring can fall between any two steps. Whatever can stream must be stoppable, and
  what is no longer wanted must not go on.
* **Watch.** Lists are paged while objects change, streams break, history is
  compacted under the loop, bookmarks move the version without an event. The
  browser's copy must at all times be one true snapshot, only move forward, and
  catch up.
* **Uploads.** `fail` respects an ended state and `set` does not. A short image must
  never count as uploaded; nobody may wait in vain for what has a time limit.
* **VM tasks.** Every request is awaited, names are reused, instances come and go
  between two polls, and anybody may work on the same VM. What a task says at its end
  must be true of the instance it meant, and disks must not go before their VM.
* **Drain.** Guests migrate, arrive and are cancelled while the node is counted out.
* **Import.** The task may be stopped at every await; an export may break off without
  an error. A VM that is kept must be whole, and one that is not whole must go.
* **Network agent.** Two nodes act on one VM during a migration, every command may
  fail half way, and the pod changes under the plan made for it.

The hazards, each at its line, are in `PROJECT.json`.

## 2. Plan

In place, in the order in which they were built:

1. `Tasks` - the task manager (`TasksProofs`).
2. `TaskStream` - extends `Tasks` with the topic and the browsers' stores (also in
   `TasksProofs`).
3. `Gateway` - one socket: frames, subscription table, sessions (`GatewayProofs`).
4. `ConsistentCache` (abstract) and `Watch`, which implements it (`WatchProofs`).
5. `Upload` - one upload across task, socket and proxy (`UploadProofs`).
6. `VmTasks` - the tasks of one virtual machine against KubeVirt (`VmTasksProofs`).
7. `Drain` - node maintenance beside migrations (`DrainProofs`).
8. `Import` - `proxmox.import` and its guard (`ImportProofs`).
9. `NetAgent` - the agents of all nodes and the pods they configure (`NetAgentProofs`).

`TaskStream` composes the task manager with its viewers, `Gateway` a socket with its
session methods, `Drain` the tasks of two source files, `NetAgent` the agents of
several nodes. The abstract specification is `ConsistentCache`.

Left: the browser's side of the gateway (`gateway.ts`, `session.ts`), its shared
watches with their linger timers, and `Discovery`. Every safety property of a passing
run has its theorem.

## 3. Modules and the code

**`Tasks`.** A thread is a task's runner or one call of `tasks.stop`. The grain is
one critical section or one send: `spawn` is four steps (push, announce, start, keep
the abort handle), `log` is push-a-line, copy-the-task, send; `progress` is record,
throttle, send; `finish` is decide, send; `stop` is find, abort, log, finish.
`abort` takes effect where the runner awaits (`Cancel`); between awaits the runner
goes on. The work may await for ever, never return, or panic (`Panic`), in which case
no `finish` comes of it. A stop is called with an id, which its caller has from the
event that announces the task or from the answer of the method that spawned it, so
that `StopFind` comes after the announcement. A `TaskInfo` is its status and progress,
a log line is a step of the work or a verdict. Progress counts to `Total`; a progress without a total never completes and
is the same as one below it. `recent` says that a progress event went out less than
`PROGRESS_EVERY` ago. `events` is everything ever sent.

**`TaskStream`.** `cursor` is the receiver of a topic. It reads the next event, or is
told `Lagged` when more than `CAPACITY` are waiting, and then sends a SYNC. A SYNC
reads `tasks.list` in one step. The browser's socket may be dead (`alive`) before the
server notices; frames emitted then are lost. `tasks.detail` reads at one time and is
applied at another, because it is answered by a task of its own. The log lines a
viewer shows are not modelled.

**`Gateway`.** `reader` is the subscription that the read loop has spawned and not
yet put into the table. A subscription checks the session, may await discovery, reads
the session again, streams, and at its end removes *whatever its id names*. The
`auth.*` methods run as calls: verify at the API server, cancel the subscriptions
(login, logout), write the session. A subscribe may name any id, one in use or used
before included: the project's browser counts its ids up
(`web/src/api/gateway.ts:250`), the server and the protocol do not ask for it.
`wanted` is history. Pings, malformed frames and calls of other methods change none
of this state.

**`Watch`.** The API server is external: a history of changes, a compaction point,
lists paged from one snapshot. `run` lists, emits a SYNC, watches from the list's
version, and on an error pauses and lists again; a stream that ends is resumed from
the last version; 410 forces a list; 403 and 404 end the subscription. `Other` stands
for objects outside the collection, which streams pass over and bookmarks account
for. `at` is a history variable: the version the copy is of. Selectors, the slimming
of objects and the length of pauses are left out.

**`ConsistentCache`.** The abstract promise: a copy that is always the whole
collection at one version and only moves to later ones. `Watch` maps to it with its
own `history`, `view` and `at`.

**`Upload`.** `task` follows `run` of `storage.rs`, `prepare` the helper that
`on_connect` spawns, `sock` the read loop (which handles one message or the close at
a time, and waits in `finish` for the proxy). `PrepareStores` and `PrepareSets` are
apart because the lock on `Active` is released between them and no await is left at
which an abort could stop the helper. `patient` distinguishes the project's own
browser, which waits for `ready`, from any other client. `follow`, reaching the
proxy and TLS are one outcome each. CDI's proxy is assumed to answer 2xx only to a
whole body, as `Content-Length` makes it.

**`VmTasks`.** One virtual machine, any number of tasks of any kinds. A task is a
`pc` that names the request it makes next; each request and each poll that decides
something is a step, and between them everybody else may act. `before` is the uid the
task found first, which is how the code tells one instance from the next. Power is
`Find`, the subresource `PUT` and the wait; a delete finds the VM, deletes it, waits
for that uid to go, and only then deletes claims; a create dry-runs the definition,
grants access to the sources of its clones, posts the extras and the VM, and follows
its disks; `disk` is `datavolume.create`; hotplug and unplug call the subresource
and then read and patch the definition's list of volumes; snapshot, restore and clone post
an object and poll it. `GivesUp` is a refused request or a wait whose time is over,
`Aborted` is `tasks.stop`. KubeVirt is external: it starts an instance of a VM that
is wanted, lets it run and end, removes a deleted VM, plugs volumes and finishes jobs.
A claim is a DataVolume with its PVC.

**`Drain`.** One node is drained. `place` says where each guest is, `object[o]` is the
migration made by `o`, a guest (for the drain's own) or a `vm.migrate` task. The drain
cordons, lists, posts one migration per guest it can move, waits for all of them,
lists pods, evicts them, and gives its verdict. `late` records the guests on their
way to the node when it was listed, `uncordoned` that somebody opened the node again.

**`Import`.** The task runs from reading the source to the last disk; `Post` and
`Posted` are apart because the answer to the POST is awaited. `Leave` drops the
`Cleanup` guard with whatever ends the task. The export's data (`Chunk`), `dd`'s own
count on stderr (`Counted`) and the exit status are three things that `pump` is told
apart from each other; it compares the count with the size. That the count says what
was sent rests on the export command's `pipefail` (`proxmox.rs:391`): with a zero
status, and only then, all that `dd` has read came through the pipe (`ExportEnds`). A
disk the storage's listing did not size has nothing to compare with. Bytes are units,
compression and SSH are one outcome.

**`NetAgent`.** One VM instance with the pod it runs in and the pod it may migrate
to. A pass of an agent is a chain of steps: `Tick` (the list), `Enter` (which process,
which MACs), `Read` (the plan: what is desired minus what is there, as a set of
commands in stages), `Run` or `RunFails` (one command), `RunsOut`, `Visited` (the status to
report), `Report` or `Unsay` (the PATCH). A rule may be there several times, as in iptables;
`Works` says which commands the kernel refuses. What is there is known by the text that
`iptables` and `ip` print, and some ranges are printed otherwise than they are given: a
single address without its length, and every address (`0.0.0.0/0`) not at all in a rule
and as `default` in a route. What is misprinted is never found, so that each pass
removes it and puts it back (`FoundRules`, `Found`). A setting is any set of entries,
several for one interface or of one range included, as `plan::parse` takes them; what
such a setting asks for is then several rules or routes that compete, of which a pod
holds all the rules and one of the routes. The run's settings have one entry for each
interface; of the others speak the proofs. `rival` records the pods that were read for
such a setting and to which no other has been applied since. The three reads of
`host::current` are one step: what others change between them they change in one kind
of object at a time, so such a change can be moved before or after all three.
`RulesAfter`, `RoutesAfter` and `NeighboursAfter` are the kernel's side of a command.
Parsing and the text of commands are abstracted.

## 4. Runs

Every passing run's properties each have a mutant in `PROJECT.json`: a plausible slip
in one mapped definition that makes TLC report that property.

| Run | Shows | Bounds |
|---|---|---|
| `tasks` | `EndIsFinal`, `EndIsExplained`, `CompletionIsTold`, `TaskEnds`, `TypeOK` | one task, one stop by either of two users, two log or progress calls: enough for a stop in every gap of log, progress, finish and return, for one of a task that has panicked, and for a second progress inside the throttle |
| `stream` | `EndIsSeen`, `OwnTasksOnly`, `LastWordIsShown` (of tasks a SYNC would carry), `StreamTypeOK` | two users' tasks on a channel of one event, so that the receiver can lag at every event and one task's events push out the other's ending; one dead socket, one `tasks.detail`; the work itself logs nothing, the line that explains an ending is enough to lag behind |
| `gateway` | `Stoppable`, `NothingUnwanted`, `TypeOK` | two ids, three subscriptions, two calls of any `auth` method; an id can be taken over twice, or be used again after its end, beside another; symmetric in all three |
| `watch` | `ViewIsSnapshot`, `NothingMissed`, `CatchesUp`, `ImplementsCache`, `TypeOK` | two objects and pages of one, so a list has a middle; four changes; two faults. The end of a stream by its own time limit counts as a fault |
| `upload` | `SuccessIsWhole`, `DoneIsKept`, `TaskSettles`, `WaitsAreAnswered`, `TypeOK` | three units in chunks of one or two, so that chunks fit, fill and overrun |
| `vm_tasks` | `StartIsTrue`, `StopIsTrue`, `RestartIsTrue`, `DisksOutliveTheirVm`, `TypeOK` | any two tasks of the twelve kinds on a VM with one disk; four uids, so that a VM and its instance can both be replaced |
| `drain` | `DrainedIsEmpty`, `DrainSettles`, `TypeOK` | two guests, one of them also migrated by hand, one pod to evict and one exempt |
| `import` | `ImportedIsWhole`, `ImportIsKept`, `HalfImportsGo` | three disks of three units, one of unknown size: a first, a middle and a last disk, each cut off anywhere |
| `netagent` | `OneRulePerClient`, `AppliedIsExact`, `NetSettles`, `StatusSettles`, `TypeOK` | two nodes, two settings that differ in ranges (a single address and every address among them), gateway, MAC and switch; a migration to the other node or within one; one fault and one change, each at any step |
| `stream_stop_race` | violated: `EndReachesBrowser` | one task, one stop, one log line, no fault |
| `upload_silence` | violated: `SilenceEndsTask` | two units in chunks of one |
| `netagent_removed` | violated: `RemovedIsRemoved` | as `netagent`, no fault, two changes |

Eviction from the deque of tasks does not happen in these runs (`KEEP` holds all
tasks there are); the theorems of `TasksProofs` are for every `KEEP`, `SYNC_LIMIT`
and `CAPACITY`. What the deque has dropped no SYNC repeats, so `LastWordIsShown`
speaks of the tasks that are in the browser's list.

`CHECK_DEADLOCK FALSE` is used in all runs but those of `NetAgent`, whose agents never
stop: a task that has ended, a socket that has closed and a collection that no longer
changes (`MaxChanges`) rightly do nothing.

**Fairness.** `Tasks`: the steps of `spawn`, of `stop` and of reporting happen once
begun (`log`, `finish` and `stop` never await). Of the work nothing is assumed: it may
await for ever, never return, or panic. `TaskEnds` therefore starts where somebody
has decided: the work has returned, or a stop has found the task. No fairness is
assumed of anyone calling `spawn` or `stop`. `TaskStream`: the topic is polled, an
answer that was computed is sent, and a browser whose socket died reconnects
(`gateway.ts` retries for ever). `Watch`: requests are answered, streams deliver, the
browser reconnects; faults are never fair. `Upload`: the task goes on, `prepare` goes on
except while it reaches the proxy, and `finish` gets an answer or its 600 seconds pass.
Nothing is assumed of reaching the proxy (`open_upstream`), of its reading the body
(`body.send`), or of the browser, because the code bounds none of them; the properties
say what is left: `TaskSettles` lets an upload stay Uploading for ever, and
`WaitsAreAnswered` lets the proxy be reached for ever. `Drain`: the drain's own loop
goes on (`DrainStep`, without its failures and its time limit) and KubeVirt ends every
migration. `Import`: the delete that a dropped guard spawns is made, and answered one
way or the other; nothing is assumed of the import itself. `NetAgent`: the ticker of
each agent fires again and again and every request or command is answered or times out
(`Pass`), and the five minutes of a remembered MAC pass (`MacExpires`); faults and
changes are bounded and never fair.

That the API server answers what it is asked is an assumption about its other end: the
client has no read timeout (`cluster/mod.rs:139`), since watches live long. It is made
for the requests of `Upload`'s task, of a drain, of the guard's delete and of the agents.

**What the failing runs show.**

* `stream_stop_race` - `log` copies the task, releases the lock, and sends. A stop
  can finish and send in between; the late copy says running, the store keeps the
  last one, and the browser shows the task running for good. The trace is that of a
  log line of the work; `progress` and `clear_progress` send in the same way.
* `upload_silence` - the ten minutes of `storage.rs:229` count for a Ready state only,
  and `prepare` sets Uploading before the first byte. A browser that then sends nothing
  holds the task, against `docs/features/storage.md:183`.
* `netagent_removed` - the setting has been applied; somebody removes it, and then one
  of the agent's rules by hand under the agent's cleanup. The command that was to remove
  that rule fails, the commands after it are skipped, and the status annotation is
  removed all the same. It was the only thing that made a later pass look at the pod, so
  the other rules stay. The guest has not migrated (the property leaves that case out).

**Observations without a run of their own.** Most came up as
counterexamples that TLC gave to stronger forms of the properties, and where a property
excepts one, it names it. Those that contradict a document come first.

* An id used three times. A subscription has returned and not yet removed its table entry
  when its id is used again. The removal then takes out the new one's entry, and a third
  subscribe with the id finds nothing to cancel: two stream on under one id.
  `docs/extending/gateway-protocol.md:103-104` allows it and says that the previous one is
  cancelled; the browser's counter avoids it. `Stoppable` and `NothingUnwanted` hold of
  every other subscription and name this one (`Displaced`).
* A sign-out beside a subscribe. A logout cancels what is in the table and takes the
  session in its next step. A subscription that runs already, but whose handle comes into
  the table after it was emptied, streams on with nobody signed in, and so does one that is
  subscribed between the two steps; `docs/authentication.md:136-137` says that none does.
* A stop of an upload. `tasks.stop` drops the future of `run` and nothing else. The
  browser, whether its socket is open by then or not, is told `ready`, sends everything and
  is told `done`, against `docs/features/tasks.md:204`. (The project's own browser closes
  its socket when its user cancels; a stop from the task viewer, or from another browser,
  does not.)
* Two hotplugs. Both read the definition before either patches it, and each patches its
  whole list (`kubevirt.rs:1114`; `:1143` does the same for an unplug). One disk is attached
  and not in the definition, and goes with the next restart, against
  `docs/features/storage.md:238-239`.
* A stop of an import. It drops the guard, which removes the VM and with it its
  DataVolumes. `docs/features/tasks.md:206` says that they and the VM carry on; the guard's
  comment and `docs/features/proxmox-import.md:163-168` (of failures) say what the code
  does, and `HalfImportsGo` states that.
* Tasks. A task is announced before its abort handle is kept (`tasks.rs:331`); a stop
  in that gap aborts nothing and marks the task stopped, while its work runs on
  (`docs/features/tasks.md:194` says otherwise). A stop of a task that has ended
  appends `TASK STOPPED` to its log. A task whose work panics stays running until it is
  stopped. `LastWordIsShown` and `EndIsSeen` except browsers that asked for
  `tasks.detail`: an answer read before an ending can be applied after it.
* Gateway. A `renew` in flight writes a session back after a logout (`core.rs:114`).
* Uploads. When the socket closes between `PrepareStores` and `PrepareSets`, the late
  `set` puts a failed upload back to uploading; it stays so, and the task with it, which
  is one of the cases that `TaskSettles` excepts. `TaskReady` overwrites a failure that
  came during the token request. Neither reaching the proxy nor sending it a chunk has a
  time limit.
* VM tasks. A restore that fails is not noticed until its hour is over. A create that
  loses the race for a name, or whose later posts fail, leaves the disks it had made. A
  snapshot that is deleted between the two reads of its task is told as ready.
* Import. A stop between the POST of the VM and the arming of the guard
  (`proxmox.rs:636`) leaves a halted VM with empty disks, against
  `docs/features/proxmox-import.md:166`; `HalfImportsGo` starts at the arming. A disk
  of unknown size that is cut off with a zero status counts as whole: there is nothing
  to compare with, and `ImportedIsWhole` promises sizes only of sized disks.
* Network agent. `written` is updated even when the PATCH fails, so a status may stay
  stale; so may one that the node the VM has left writes late (`StatusSettles` excepts
  both). The target pod of a migration is not cleaned when the setting goes, because
  its agent does not own the status, and an agent that has read the setting before it
  was removed may apply it after; nor is a pod whose status was never written, because
  a PATCH failed or the agent was restarted. Of two entries that share a range both
  say Applied while each pass puts the one route in the place of the other;
  `AppliedIsExact` promises routes and neighbours only where the setting asks for one.
  The rules and routes of `0.0.0.0/0`, and the routes of single addresses, are deleted
  and added again in every pass. Permanent neighbours on the bridges cannot be told
  from anybody else's.

## 5. Proofs

All are proved for every value of the constants: any number of tasks, stops,
browsers, subscriptions, objects, disks, guests, nodes, settings, failures and
changes. A theorem rests on nothing but the assumption that its module names.

* **`TasksProofs`, the task manager**, from `TasksAssumption` (limits are positive,
  every task has an owner, stops are not tasks). The invariant `TasksInv` joins
  `TypeOK`, `RunnerInv` (what a place of the runner says about the event it holds),
  `VerdictHeld` (whoever is about to finish holds a verdict line), `VerdictSent` (and
  has sent it), `EndIsExplained` and `CompletionHeld` (a completed progress is in
  hand or sent). `EndIsExplained` is not inductive alone: `finish` trusts that its
  caller logged first. Results: `TasksTypeCorrect`, `TasksExplainEndings`,
  `TasksTellCompletion`, and `TasksEndOnce` for the action property `EndIsFinal`.
* **`TasksProofs`, the stream**, from `StreamAssumption` as well. `ViewersOnlyWatch`
  is the refinement: `TaskStream` does to the tasks what `Tasks` does, so the results
  above hold with any viewers. `StreamInv` keeps privacy through every path: an answer
  of `tasks.detail` in flight is the user's own (`DetailInv`), and no cursor is ahead
  of the channel (`CursorInv`). That no ending is lost takes two more invariants.
  `ToldInv` is about the senders: an event that shows an ending, in the channel or
  still in the hand of a thread, shows the one that its task has. `ShownInv` is about
  the receivers: while a browser listens, its store shows the ending that the last
  event *before its cursor* tells, of each task that a SYNC would carry now. For a lag
  it needs that such a task was in the list when the SYNC was made, which is
  `ListOnlyShrinks`: a task is pushed once, and every later push moves it towards the
  old end of the deque. Results: `StreamTypeCorrect`,
  `TasksArePrivate`, `LastWordsAreShown`.
* **`GatewayProofs`**, from `GatewayAssumption`. `GatewayInv` joins `TypeOK`,
  `Stoppable`, `NothingUnwanted` and `ReaderInv` (what the read loop is about to insert
  was spawned, and before the socket was closed). Ids may be used any number of times:
  an insert aborts the task it displaces, and a removal takes out another's entry only
  when a subscription of that id has ended by itself, which is the exception
  (`Displaced`) that both properties name. Results: `GatewayTypeCorrect`,
  `SubscriptionsStoppable`, `NothingUnwantedStreams`.
* **`WatchProofs`**, from `WatchAssumption`. `WatchInv` adds `PageInv` (the pages
  read so far belong to the snapshot) and `StreamInv` (the stream has passed nothing
  of the collection that was not emitted). Lemmas say that `StateAt` does not depend
  on later history and does not change over versions of other objects. Results:
  `WatchTypeCorrect`, `ViewsAreSnapshots`, `NothingIsMissed`, and the refinement
  `WatchImplementsCache`:
  initial states map to initial states, and each step to a step of `ConsistentCache`
  or a stutter.
* **`UploadProofs`**, from `UploadAssumption`. `UploadInv` says what each place of the
  task and of `prepare` implies about the request (`NotOffered`, `PrepareInv`,
  `ReadyInv`, `RequestInv`). Results: `UploadTypeCorrect`, `UploadsAreWhole`,
  `UploadsStayDone`.
* **`VmTasksProofs`**, from `VmTasksAssumption`, for any number of tasks of any kinds.
  `Inv` is one part about the machine (`Instances`: uids only grow, what runs is on
  record) and one part per task, `TaskInv`: `OlderInv` (the instance there is now is
  none older than the one the task found), `PowerInv` (what a power task relies on
  while it waits: an instance there when a start was accepted had ended), `DeleteInv`
  and `EndInv` (a task claims nothing before it has ended). A step is looked at for the
  task that makes it; all others keep their part because the machine only moves `Onward`. `StartIsTrue` needs the first three: the
  code compares no uids for a start and trusts that KubeVirt refuses one while an
  instance runs. Results: `VmTasksTypeOK`, `StartsAreTrue`, `StopsAreTrue`,
  `RestartsAreTrue`, `DisksAreSafe`.
* **`DrainProofs`**, from `DrainAssumption`. `DrainInv` adds `Phases` (each loop has
  emptied what it works through) and `Accounted` (while the cordon holds, every guest
  on the node is late, listed, pending or stuck). Results: `DrainTypeOK`,
  `DrainEmpties`.
* **`ImportProofs`**, from `ImportAssumption`. `ImportInv` adds `OneAtATime` (which also
  keeps what the export's zero status says: the proxy has taken what `dd` counted),
  `WholeSoFar` (what is ticked off is accepted, and whole where its size is known) and
  `Guarded` (the guard is armed while there is something to remove, disarmed before
  success). Results: `ImportTypeOK`, `ImportIsWhole`, `ImportKept`.
* **`NetAgentProofs`**, from `NetAgentAssumption`. That an Applied pod is exact speaks
  of the end of a plan; `NetInv` says what holds at each command before. `PlanInv`:
  the books balance (`RulesBalance`: of every rule, the copies there and the one to
  come are those still to be removed and the one wanted); where the setting asks for one
  route of a range and one neighbour of an address (`OneWayWanted`), what is not wanted
  will go and what is wanted is there or will come after any removal of it
  (`RoutesPlanned`, `NeighboursPlanned`). Settings may be any: the balance of rules does
  not need that they ask for one of a range, and a pod that is not `rival` has been read
  for one that does. If somebody removes a rule under the agent, `RulesCovered` keeps one
  half of the balance, and that half is enough for `OneRulePerClient`: a rule is added
  only when nothing is left to be removed, and then all that is there is wanted. That a
  pod is no longer `rival` when a setting with one rule for each range has been applied
  to it is `RunsOutKeeps`. `PlaceInv` says that one agent alone works on a pod,
  and `OneNeighbour` that an address has one neighbour per bridge, without which
  `neigh-replace` could leave a second one behind. Lemmas say what a command
  does to each part of the plan (`BooksKept`, `RoutesKept`, `NeighboursKept`), that
  `commands` makes such a plan from any pod (`PlanIsMade`) and that an empty plan is
  exactness (`PlanIsDone`). Results: `NetTypeCorrect` (no count of a rule goes below
  zero), `RulesNeverClash`, `AppliedMeansExact`.

Each invariant was checked by TLC on the module's run before it was proved.

Only model-checked: all liveness (`TaskEnds`, `EndIsSeen`, `CatchesUp`,
`TaskSettles`, `WaitsAreAnswered`, `DrainSettles`, `HalfImportsGo`, `NetSettles`,
`StatusSettles`), which is out of the proof system's reach under fairness. The
failing runs are counterexamples and need no proof.

## 6. Not modelled

* The browser's side of the gateway (`gateway.ts`, `session.ts`) and its shared
  watches: what a reconnect means for a stream is in `TaskStream` and `Watch`, the
  queue of frames, the hello and the linger timers are not.
* Consoles: one-time tickets, as in `Upload`, and two pumps that copy bytes.
* Discovery and client cache: any refresh may overwrite them, and only hints depend
  on them.
* The polling loop of `follow` with its figures and its bound on pod restarts: one
  outcome in `Upload`, `VmTasks` and `Import`.
* Proxmox sessions, inventory and configuration parser, the image probe, API paths,
  settings, certificates and static files: string work or pure I/O, with unit tests.
* Migration figures and metrics feed no decision. USB attach and detach is one PATCH.
* Screens are rendering and forms over the stores.
