---------------------------- MODULE WatchProofs ----------------------------
(***************************************************************************)
(* A watch keeps its promise for every collection, page size, number of    *)
(* changes and number of faults: Watch implements ConsistentCache.         *)
(***************************************************************************)
EXTENDS Watch, TLAPS

\* While a list is paged, its snapshot is no older than the browser's copy.
PageInv == pc = "page" => at <= snap

\* While a watch is open, the copy is also that of the version to resume from and
\* that of where the stream is: what lies between is not the collection's.
StreamInv ==
    /\ pc \in {"open", "stream"} => at <= version /\ view = Cache!StateAt(version)
    /\ pc = "stream" => /\ version <= stream /\ view = Cache!StateAt(stream)
                        /\ \A n \in at + 1 .. stream : history[n].object = Other

WatchInv == TypeOK /\ PageInv /\ StreamInv /\ NothingMissed /\ ViewIsSnapshot

-----------------------------------------------------------------------------
(* The collection at a version.                                            *)

\* Later changes do not alter it.
LEMMA StateAtStable ==
    ASSUME history \in Seq(Cache!Change), NEW c \in Cache!Change,
           history' = Append(history, c), NEW v \in 0 .. Len(history)
    PROVE  Cache!StateAt(v)' = Cache!StateAt(v)
  <1>1. \A n \in 1 .. v : history'[n] = history[n]
    OBVIOUS
  <1>2. \A o \in Object : Cache!Writes(o, v)' = Cache!Writes(o, v)
    BY <1>1 DEF Cache!Writes
  <1>3. ASSUME NEW S \in SUBSET (1 .. v) PROVE Cache!Leaves(S)' <=> Cache!Leaves(S)
    BY <1>1 DEF Cache!Leaves
  <1>4. \A o \in Object : Cache!Writes(o, v) \in SUBSET (1 .. v)
    BY DEF Cache!Writes
  <1> QED
    BY <1>2, <1>3, <1>4 DEF Cache!StateAt, Cache!Absent

\* A version is where an object was last written, or 0.
LEMMA StateAtType ==
    ASSUME NEW v \in Nat
    PROVE  Cache!StateAt(v) \in [Object -> 0 .. v]
  BY DEF Cache!StateAt, Cache!Leaves, Cache!Last, Cache!Writes, Cache!Absent

\* A change of another object leaves an object as it was.
LEMMA StateAtOther ==
    ASSUME NEW v \in Nat, NEW o \in Object, history[v + 1].object # o
    PROVE  Cache!StateAt(v + 1)[o] = Cache!StateAt(v)[o]
  <1>1. Cache!Writes(o, v + 1) = Cache!Writes(o, v)
    BY DEF Cache!Writes
  <1> QED
    BY <1>1 DEF Cache!StateAt

\* A change of an object decides what it is.
LEMMA StateAtWrite ==
    ASSUME NEW v \in Nat, NEW o \in Object, history[v + 1].object = o
    PROVE  Cache!StateAt(v + 1)[o] = IF history[v + 1].deleted THEN Cache!Absent ELSE v + 1
  <1> DEFINE S == Cache!Writes(o, v + 1)
  <1>1. v + 1 \in S /\ \A m \in S : m <= v + 1 /\ m \in Nat
    BY DEF Cache!Writes
  <1> HIDE DEF S
  <1>2. Cache!Last(S) = v + 1
    BY <1>1 DEF Cache!Last
  <1>3. Cache!Leaves(S) <=> ~history[v + 1].deleted
    BY <1>1 DEF Cache!Leaves
  <1> QED
    BY <1>2, <1>3 DEF Cache!StateAt, S

\* A version's objects are those of its complete list.
LEMMA CompleteList ==
    ASSUME NEW v \in Nat, NEW items, items = Present(v)
    PROVE  [o \in Object |-> IF o \in items THEN Cache!StateAt(v)[o] ELSE Cache!Absent]
             = Cache!StateAt(v)
  <1>1. Cache!StateAt(v) \in [Object -> 0 .. v]
    BY StateAtType
  <1>2. \A o \in Object : o \notin items => Cache!StateAt(v)[o] = Cache!Absent
    BY DEF Present
  <1> QED
    BY <1>1, <1>2

\* Passing over a change of another collection.
LEMMA StateAtSkip ==
    ASSUME NEW v \in Nat, history[v + 1].object = Other
    PROVE  Cache!StateAt(v + 1) = Cache!StateAt(v)
  <1>1. \A o \in Object : Cache!StateAt(v + 1)[o] = Cache!StateAt(v)[o]
    BY StateAtOther, WatchAssumption
  <1>2. Cache!StateAt(v + 1) \in [Object -> 0 .. v + 1] /\ Cache!StateAt(v) \in [Object -> 0 .. v]
    BY StateAtType
  <1> QED
    BY <1>1, <1>2

\* Applying a change of the collection.
LEMMA StateAtEvent ==
    ASSUME NEW v \in Nat, history[v + 1].object \in Object
    PROVE  Cache!StateAt(v + 1) =
             [Cache!StateAt(v) EXCEPT ![history[v + 1].object] =
                IF history[v + 1].deleted THEN Cache!Absent ELSE v + 1]
  <1>1. \A o \in Object : o # history[v + 1].object =>
          Cache!StateAt(v + 1)[o] = Cache!StateAt(v)[o]
    BY StateAtOther
  <1>2. Cache!StateAt(v + 1)[history[v + 1].object] =
          IF history[v + 1].deleted THEN Cache!Absent ELSE v + 1
    BY StateAtWrite
  <1>3. Cache!StateAt(v + 1) \in [Object -> 0 .. v + 1] /\ Cache!StateAt(v) \in [Object -> 0 .. v]
    BY StateAtType
  <1> QED
    BY <1>1, <1>2, <1>3

\* As long as the API server writes nothing, no version changes.
LEMMA StateAtSame ==
    ASSUME UNCHANGED history
    PROVE  \A v : Cache!StateAt(v)' = Cache!StateAt(v)
  BY DEF Cache!StateAt, Cache!Leaves, Cache!Last, Cache!Writes, Cache!Absent

-----------------------------------------------------------------------------
(* The invariant.                                                          *)

LEMMA InitWatchInv == Init => WatchInv
  <1> SUFFICES ASSUME Init PROVE WatchInv
    OBVIOUS
  <1>1. TypeOK
    BY WatchAssumption DEF Init, Cache!Init, TypeOK, Cache!Absent
  <1>2. Cache!StateAt(0) \in [Object -> 0 .. 0]
    BY StateAtType
  <1>3. view = Cache!StateAt(0)
    BY <1>2 DEF Init, Cache!Init, Cache!Absent
  <1> QED
    BY <1>1, <1>3 DEF Init, Cache!Init, WatchInv, PageInv, StreamInv, NothingMissed, ViewIsSnapshot

\* A change at the API server: everything seen so far is as it was.
LEMMA ApiKeepsInv ==
    ASSUME WatchInv, NEW c \in Cache!Change, ApiWrites(c)
    PROVE  WatchInv'
  <1> USE DEF WatchInv
  <1>1. /\ history \in Seq(Cache!Change) /\ history' = Append(history, c)
        /\ UNCHANGED <<compacted, pc, snap, listed, version, stream, view, at, alive, faults>>
    BY DEF TypeOK, ApiWrites, runVars, viewVars
  <1>2. /\ history' \in Seq(Cache!Change) /\ Len(history') = Len(history) + 1
        /\ Len(history) \in Nat
        /\ \A n \in 1 .. Len(history) : history'[n] = history[n]
    BY <1>1
  <1>3. TypeOK'
    BY <1>1, <1>2 DEF TypeOK
  <1>4. \A v \in 0 .. Len(history) : Cache!StateAt(v)' = Cache!StateAt(v)
    BY <1>1, StateAtStable
  <1>6. PageInv'
    BY <1>1 DEF PageInv
  <1>7. StreamInv' /\ NothingMissed'
    BY <1>1, <1>2, <1>4 DEF StreamInv, NothingMissed, TypeOK
  <1>8. ViewIsSnapshot'
    BY <1>1, <1>4 DEF ViewIsSnapshot, TypeOK
  <1> QED
    BY <1>3, <1>6, <1>7, <1>8

\* A page of a list: with the last one the browser gets the whole snapshot.
LEMMA ListKeepsInv ==
    ASSUME WatchInv, NEW v \in 0 .. Len(history), at <= v, ListPage(v),
           UNCHANGED history
    PROVE  WatchInv'
  <1> USE DEF WatchInv
  <1>0. Len(history) \in Nat /\ v \in Nat /\ at \in Nat
    BY DEF TypeOK
  <1>1. PICK S \in Page(v) :
          \/ /\ listed \cup S # Present(v)
             /\ listed' = listed \cup S
             /\ pc' = "page" /\ snap' = v
             /\ UNCHANGED <<version, viewVars>>
          \/ /\ listed \cup S = Present(v)
             /\ listed' = {} /\ snap' = 0
             /\ version' = v
             /\ \/ alive /\ EmitSync(v, listed \cup S) /\ pc' = "open"
                \/ ~alive /\ pc' = "stopped" /\ UNCHANGED viewVars
    BY DEF ListPage
  <1>2. UNCHANGED <<history, compacted, stream, alive, faults>>
    BY DEF ListPage, apiVars
  <1>3. S \subseteq Present(v) /\ Present(v) \subseteq Object
    BY DEF Page, Present
  <1>4. CASE pc' = "page"
    BY <1>0, <1>1, <1>2, <1>3, <1>4, StateAtSame
       DEF TypeOK, PageInv, StreamInv, NothingMissed, ViewIsSnapshot, viewVars
  <1>5. CASE pc' = "open"
    <2>1. /\ view' = Cache!StateAt(v) /\ at' = v /\ version' = v /\ listed' = {} /\ snap' = 0
      BY <1>0, <1>1, <1>5, CompleteList DEF EmitSync
    <2>2. view' \in [Object -> 0 .. Len(history)]
      BY <1>0, <2>1, StateAtType
    <2> QED
      BY <1>0, <1>2, <1>5, <2>1, <2>2, StateAtSame
         DEF TypeOK, PageInv, StreamInv, NothingMissed, ViewIsSnapshot
  <1>6. CASE pc' = "stopped"
    BY <1>0, <1>1, <1>2, <1>6, StateAtSame
       DEF TypeOK, PageInv, StreamInv, NothingMissed, ViewIsSnapshot, viewVars
  <1> QED
    BY <1>1, <1>4, <1>5, <1>6

\* An event of the stream, or the passing of a change that makes none.
LEMMA StreamKeepsInv ==
    ASSUME WatchInv, StreamSkips \/ StreamEvent \/ StreamBookmark
    PROVE  WatchInv'
  <1> USE DEF WatchInv
  <1>0. Len(history) \in Nat /\ stream \in Nat /\ version \in Nat /\ at \in Nat /\ pc = "stream"
    BY DEF TypeOK, StreamSkips, StreamEvent, StreamBookmark
  <1>1. CASE StreamSkips
    <2>1. Cache!StateAt(stream + 1) = Cache!StateAt(stream)
      BY <1>0, <1>1, StateAtSkip DEF StreamSkips
    <2>2. /\ history[stream + 1].object = Other /\ stream < Len(history) /\ stream' = stream + 1
          /\ UNCHANGED <<history, compacted, pc, snap, listed, version, view, at, alive, faults>>
      BY <1>1 DEF StreamSkips, apiVars, viewVars
    <2>3. \A n \in at + 1 .. stream + 1 : history[n].object = Other
      <3>1. \A n \in at + 1 .. stream + 1 : n = stream + 1 \/ n \in at + 1 .. stream
        BY <1>0
      <3> QED
        BY <1>0, <2>2, <3>1 DEF StreamInv
    <2>4. TypeOK' /\ PageInv' /\ NothingMissed'
      BY <1>0, <2>2 DEF TypeOK, PageInv, NothingMissed
    <2>5. StreamInv' /\ ViewIsSnapshot'
      <3>1. Cache!StateAt(stream)' = Cache!StateAt(stream + 1)
        BY <2>2 DEF Cache!StateAt, Cache!Leaves, Cache!Last, Cache!Writes, Cache!Absent
      <3>2. Cache!StateAt(version)' = Cache!StateAt(version) /\ Cache!StateAt(at)' = Cache!StateAt(at)
        BY <2>2 DEF Cache!StateAt, Cache!Leaves, Cache!Last, Cache!Writes, Cache!Absent
      <3>3. ViewIsSnapshot'
        BY <2>2, <3>2 DEF ViewIsSnapshot
      <3>4. (pc \in {"open", "stream"} => at <= version /\ view = Cache!StateAt(version))'
        BY <2>2, <3>2 DEF StreamInv
      <3>5. (version <= stream)' /\ (view = Cache!StateAt(stream))'
        <4>1. version <= stream /\ view = Cache!StateAt(stream) /\ view' = view
          BY <1>0, <2>2 DEF StreamInv
        <4>2. (version <= stream)'
          BY <1>0, <2>2, <4>1
        <4> QED
          BY <2>1, <3>1, <4>1, <4>2
      <3>6. (\A n \in at + 1 .. stream : history[n].object = Other)'
        BY <2>2, <2>3
      <3> QED
        BY <3>3, <3>4, <3>5, <3>6 DEF StreamInv
    <2> QED
      BY <2>4, <2>5
  <1>2. CASE StreamEvent /\ alive
    <2> DEFINE c == history[stream + 1]
    <2>1. /\ stream < Len(history) /\ c.object # Other
          /\ view' = [view EXCEPT ![c.object] = IF c.deleted THEN Cache!Absent ELSE stream + 1]
          /\ version' = stream + 1 /\ at' = stream + 1 /\ stream' = stream + 1
          /\ UNCHANGED <<history, compacted, pc, snap, listed, alive, faults>>
      BY <1>2 DEF StreamEvent, apiVars
    <2>2. c \in Cache!Change
      BY <1>0, <2>1 DEF TypeOK
    <2>3. c.object \in Object
      BY <2>1, <2>2 DEF Cache!Change
    <2>4. view' = Cache!StateAt(stream + 1)
      BY <1>0, <2>1, <2>3, StateAtEvent DEF StreamInv
    <2>5. Cache!StateAt(stream + 1) \in [Object -> 0 .. stream + 1]
      BY <1>0, StateAtType
    <2>6. view' \in [Object -> 0 .. Len(history)]
      <3>1. 0 .. stream + 1 \subseteq 0 .. Len(history)
        BY <1>0, <2>1
      <3>2. \A o \in Object : Cache!StateAt(stream + 1)[o] \in 0 .. Len(history)
        BY <2>5, <3>1
      <3> QED
        BY <2>4, <2>5, <3>2
    <2> HIDE DEF c
    <2>7. TypeOK' /\ PageInv'
      BY <1>0, <2>1, <2>6 DEF TypeOK, PageInv
    <2>8. StreamInv' /\ NothingMissed' /\ ViewIsSnapshot'
      <3>1. /\ Cache!StateAt(stream)' = Cache!StateAt(stream + 1)
            /\ Cache!StateAt(version)' = Cache!StateAt(stream + 1)
            /\ Cache!StateAt(at)' = Cache!StateAt(stream + 1)
        BY <2>1 DEF Cache!StateAt, Cache!Leaves, Cache!Last, Cache!Writes, Cache!Absent
      <3>2. ViewIsSnapshot'
        BY <2>4, <3>1 DEF ViewIsSnapshot
      <3>3. (view = Cache!StateAt(version))' /\ (view = Cache!StateAt(stream))'
        BY <2>4, <3>1
      <3>4. (at <= version)' /\ (version <= stream)'
        BY <1>0, <2>1
      <3>5. (\A n \in at + 1 .. stream : history[n].object = Other)'
        BY <1>0, <2>1
      <3>6. (\A n \in at + 1 .. version : history[n].object = Other)'
        BY <1>0, <2>1
      <3> QED
        BY <3>2, <3>3, <3>4, <3>5, <3>6 DEF StreamInv, NothingMissed
    <2> QED
      BY <2>7, <2>8
  <1>3. CASE StreamEvent /\ ~alive
    <2>1. /\ stream < Len(history) /\ version' = stream + 1 /\ pc' = "stopped"
          /\ UNCHANGED <<history, compacted, stream, snap, listed, view, at, alive, faults>>
      BY <1>3 DEF StreamEvent, apiVars, viewVars
    <2> QED
      BY <1>0, <2>1, StateAtSame DEF TypeOK, PageInv, StreamInv, NothingMissed, ViewIsSnapshot
  <1>4. CASE StreamBookmark
    <2>1. /\ version' = stream /\ version < stream
          /\ UNCHANGED <<history, compacted, pc, stream, snap, listed, view, at, alive, faults>>
      BY <1>0, <1>4 DEF StreamBookmark, apiVars, viewVars
    <2> QED
      BY <1>0, <2>1, StateAtSame DEF TypeOK, PageInv, StreamInv, NothingMissed, ViewIsSnapshot
  <1> QED
    BY <1>1, <1>2, <1>3, <1>4

\* The steps that touch neither the collection nor the copy.
LEMMA QuietKeepsInv ==
    ASSUME WatchInv,
           \/ ApiCompacts \/ ListFails \/ Refused \/ WatchOpens \/ WatchExpired
           \/ WatchFails \/ StreamEnds \/ SocketDies \/ Resubscribe
    PROVE  WatchInv' /\ UNCHANGED <<history, view, at>>
  <1> USE DEF WatchInv
  <1>0. /\ Len(history) \in Nat /\ compacted \in Nat /\ version \in Nat /\ stream \in Nat
        /\ at \in Nat /\ faults \in Nat /\ MaxFaults \in Nat
    BY WatchAssumption DEF TypeOK
  <1>1. UNCHANGED <<history, view, at>>
    BY DEF ApiCompacts, ListFails, Refused, WatchOpens, WatchExpired, WatchFails, StreamEnds,
           SocketDies, Resubscribe, apiVars, viewVars
  <1>2. CASE ApiCompacts
    BY <1>0, <1>2, StateAtSame
       DEF ApiCompacts, runVars, viewVars, TypeOK, PageInv, StreamInv, NothingMissed, ViewIsSnapshot
  <1>3. CASE ListFails
    <2>1. faults' \in 0 .. MaxFaults BY <1>0, <1>3 DEF ListFails, TypeOK
    <2>2. /\ pc' \in {"list", "stopped"} /\ listed' = {} /\ snap' = 0
          /\ UNCHANGED <<apiVars, version, stream, viewVars, alive>>
      BY <1>3 DEF ListFails
    <2> QED
      BY <1>0, <2>1, <2>2, StateAtSame
         DEF apiVars, viewVars, TypeOK, PageInv, StreamInv, NothingMissed, ViewIsSnapshot
  <1>4. CASE WatchOpens
    BY <1>0, <1>4, StateAtSame
       DEF WatchOpens, apiVars, viewVars, TypeOK, PageInv, StreamInv, NothingMissed, ViewIsSnapshot
  <1>5. CASE WatchExpired \/ WatchFails \/ StreamEnds
    <2>1. faults' \in 0 .. MaxFaults
      BY <1>0, <1>5 DEF WatchExpired, WatchFails, StreamEnds, TypeOK
    <2>2. /\ pc' = "list" \/ (pc = "stream" /\ pc' = "open")
          /\ UNCHANGED <<apiVars, snap, listed, version, stream, viewVars, alive>>
      BY <1>5 DEF WatchExpired, WatchFails, StreamEnds
    <2> QED
      BY <1>0, <2>1, <2>2, StateAtSame
         DEF apiVars, viewVars, TypeOK, PageInv, StreamInv, NothingMissed, ViewIsSnapshot
  <1>6. CASE SocketDies
    <2>1. alive' \in BOOLEAN
      BY <1>6 DEF SocketDies
    <2> QED
      BY <1>0, <1>6, <2>1, StateAtSame
         DEF SocketDies, apiVars, runVars, viewVars, TypeOK, PageInv, StreamInv, NothingMissed,
             ViewIsSnapshot
  <1>7. CASE Resubscribe
    <2>1. alive' \in BOOLEAN
      BY <1>7 DEF Resubscribe
    <2> QED
      BY <1>0, <1>7, <2>1, StateAtSame
         DEF Resubscribe, apiVars, viewVars, TypeOK, PageInv, StreamInv, NothingMissed,
             ViewIsSnapshot
  <1>8. CASE Refused
    BY <1>0, <1>8, StateAtSame
       DEF Refused, apiVars, viewVars, TypeOK, PageInv, StreamInv, NothingMissed, ViewIsSnapshot
  <1> QED
    BY <1>1, <1>2, <1>3, <1>4, <1>5, <1>6, <1>7, <1>8

LEMMA NextWatchInv == WatchInv /\ [Next]_vars => WatchInv'
  <1> SUFFICES ASSUME WatchInv, [Next]_vars PROVE WatchInv'
    OBVIOUS
  <1>0. Len(history) \in Nat /\ at \in 0 .. Len(history) /\ snap \in 0 .. Len(history)
    BY DEF WatchInv, TypeOK
  <1>1. CASE ListFirst
    <2>1. ListPage(Len(history)) /\ UNCHANGED history
      BY <1>1 DEF ListFirst, ListPage, apiVars
    <2> QED
      BY <1>0, <2>1, ListKeepsInv
  <1>2. CASE ListNext
    <2>1. ListPage(snap) /\ UNCHANGED history /\ at <= snap
      BY <1>2 DEF ListNext, ListPage, apiVars, WatchInv, PageInv
    <2> QED
      BY <1>0, <2>1, ListKeepsInv
  <1>3. CASE UNCHANGED vars
    BY <1>3, StateAtSame DEF vars, apiVars, runVars, viewVars, WatchInv, TypeOK, PageInv,
       StreamInv, NothingMissed, ViewIsSnapshot
  <1> QED
    BY <1>1, <1>2, <1>3, ApiKeepsInv, StreamKeepsInv, QuietKeepsInv DEF Next, Run

\* Every step of a watch is a step, or a stutter, of the promised cache.
LEMMA NextImplements == WatchInv /\ [Next]_vars => [Cache!Next]_<<history, view, at>>
  <1> SUFFICES ASSUME WatchInv, [Next]_vars, ~UNCHANGED <<history, view, at>>
               PROVE  Cache!Next
    OBVIOUS
  <1>0. /\ Len(history) \in Nat /\ at \in 0 .. Len(history) /\ snap \in 0 .. Len(history)
        /\ stream \in 0 .. Len(history)
    BY DEF WatchInv, TypeOK
  <1>1. ASSUME NEW c \in Cache!Change, ApiWrites(c) PROVE Cache!Next
    BY <1>1 DEF ApiWrites, viewVars, Cache!Next, Cache!Write
  <1>2. ASSUME NEW v \in 0 .. Len(history), at <= v, ListPage(v) PROVE Cache!Next
    <2>1. PICK S \in Page(v) : listed \cup S = Present(v) /\ EmitSync(v, listed \cup S)
      BY <1>2 DEF ListPage, apiVars, viewVars
    <2>2. view' = Cache!StateAt(v) /\ at' = v /\ UNCHANGED history
      BY <1>0, <1>2, <2>1, CompleteList DEF EmitSync, ListPage, apiVars
    <2> QED
      BY <1>0, <1>2, <2>2 DEF Cache!Next, Cache!Advance
  <1>3. CASE ListFirst
    BY <1>0, <1>2, <1>3 DEF ListFirst
  <1>4. CASE ListNext
    BY <1>0, <1>2, <1>4 DEF ListNext, WatchInv, PageInv
  <1>5. CASE StreamEvent
    <2>1. WatchInv' /\ UNCHANGED history
      BY <1>5, StreamKeepsInv DEF StreamEvent, apiVars
    <2>2. at' = stream + 1 /\ stream < Len(history) /\ pc = "stream"
      BY <1>5 DEF StreamEvent, apiVars, viewVars
    <2>3. view' = Cache!StateAt(stream + 1)
      BY <2>1, <2>2, StateAtSame DEF WatchInv, ViewIsSnapshot
    <2>4. at <= stream + 1
      BY <1>0, <2>2 DEF WatchInv, StreamInv, TypeOK
    <2> QED
      BY <1>0, <2>1, <2>2, <2>3, <2>4 DEF Cache!Next, Cache!Advance
  <1>6. CASE StreamSkips \/ StreamBookmark
    BY <1>6 DEF StreamSkips, StreamBookmark, apiVars, viewVars
  <1>7. CASE UNCHANGED vars
    BY <1>7 DEF vars, apiVars, viewVars
  <1> QED
    BY <1>1, <1>3, <1>4, <1>5, <1>6, <1>7, QuietKeepsInv DEF Next, Run

-----------------------------------------------------------------------------
(* Theorems.                                                               *)

\* The strengthened invariant holds in every reachable state of a watch.
THEOREM WatchInvariant == Spec => []WatchInv
  <1> QED
    BY InitWatchInv, NextWatchInv, PTL DEF Spec

\* No version that the loop remembers or the browser holds runs ahead of the API
\* server, through any relists, broken streams and reconnects.
THEOREM WatchTypeCorrect == Spec => []TypeOK
  <1>1. WatchInv => TypeOK
    BY DEF WatchInv
  <1> QED
    BY <1>1, WatchInvariant, PTL

\* Through any faults, the browser's copy is the collection at one version.
THEOREM ViewsAreSnapshots == Spec => []ViewIsSnapshot
  <1>1. WatchInv => ViewIsSnapshot
    BY DEF WatchInv
  <1> QED
    BY <1>1, WatchInvariant, PTL

\* No watch resumes past a change that the browser was not given.
THEOREM NothingIsMissed == Spec => []NothingMissed
  <1>1. WatchInv => NothingMissed
    BY DEF WatchInv
  <1> QED
    BY <1>1, WatchInvariant, PTL

\* A watch implements the cache it promises: snapshots that only move forward.
THEOREM WatchImplementsCache == Spec => ImplementsCache
  <1>1. Init => Cache!Init
    BY DEF Init
  <1> QED
    BY <1>1, NextImplements, WatchInvariant, PTL DEF Spec, ImplementsCache, Cache!Spec
=============================================================================
