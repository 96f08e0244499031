--------------------------- MODULE GatewayProofs ---------------------------
(***************************************************************************)
(* What the subscription table of Gateway guarantees for any number of     *)
(* subscriptions and calls, whatever ids the browser gives them, and       *)
(* however often it gives the same.                                        *)
(***************************************************************************)
EXTENDS Gateway, TLAPS

\* The reader inserts a task it has spawned, and does so before `on_close`.
ReaderInv == reader # NoSub => subPc[reader] # "none" /\ socket # "gone"

GatewayInv == TypeOK /\ ReaderInv /\ Stoppable /\ NothingUnwanted

LEMMA InitGatewayInv == Init => GatewayInv
  <1> SUFFICES ASSUME Init PROVE GatewayInv
    OBVIOUS
  <1>1. TypeOK
    BY GatewayAssumption DEF Init, TypeOK, SubPC, CallPC
  <1> QED
    BY <1>1 DEF Init, GatewayInv, ReaderInv, Stoppable, NothingUnwanted, Live, Displaced

\* What a frame of the browser, or its going, does to the table.
LEMMA ReaderKeepsInv ==
    ASSUME GatewayInv,
           \/ SubscribeInsert \/ SocketDies \/ OnClose
           \/ \E k \in Sub : OnSubscribe(k)
           \/ \E i \in Id : OnUnsubscribe(i)
    PROVE  GatewayInv'
  <1> USE GatewayAssumption DEF GatewayInv, TypeOK, SubPC
  <1>1. ASSUME NEW k \in Sub, OnSubscribe(k) PROVE GatewayInv'
    <2>1. TypeOK'
      BY <1>1 DEF OnSubscribe, callVars
    <2>2. /\ reader = NoSub /\ reader' = k /\ socket = "open" /\ socket' = "open"
          /\ subPc[k] = "none"
          /\ subPc' = [subPc EXCEPT ![k] = "spawned"]
          /\ wanted' = wanted \cup {subId[k]}
          /\ UNCHANGED <<table, aborted, subId>>
      BY <1>1 DEF OnSubscribe, FrameArrives
    <2>3. ReaderInv'
      BY <2>2 DEF ReaderInv
    <2>4. Stoppable' /\ NothingUnwanted'
      BY <2>2 DEF Stoppable, NothingUnwanted, Live, Displaced
    <2> QED
      BY <2>1, <2>3, <2>4
  <1>2. CASE SubscribeInsert
    <2>1. TypeOK'
      BY <1>2 DEF SubscribeInsert, callVars
    <2>2. ReaderInv'
      BY <1>2 DEF SubscribeInsert, ReaderInv
    <2>3. Stoppable' /\ NothingUnwanted'
      BY <1>2 DEF SubscribeInsert, Stoppable, NothingUnwanted, Live, Displaced
    <2> QED
      BY <2>1, <2>2, <2>3
  <1>3. ASSUME NEW i \in Id, OnUnsubscribe(i) PROVE GatewayInv'
    <2>1. TypeOK'
      BY <1>3 DEF OnUnsubscribe, callVars
    <2>2. ReaderInv'
      BY <1>3 DEF OnUnsubscribe, ReaderInv
    <2>3. Stoppable' /\ NothingUnwanted'
      BY <1>3 DEF OnUnsubscribe, FrameArrives, Stoppable, NothingUnwanted, Live, Displaced
    <2> QED
      BY <2>1, <2>2, <2>3
  <1>4. CASE SocketDies
    BY <1>4 DEF SocketDies, subVars, callVars, ReaderInv, Stoppable, NothingUnwanted, Live, Displaced
  <1>5. CASE OnClose
    <2>1. TypeOK'
      BY <1>5 DEF OnClose, CancelAll, callVars
    <2>2. ReaderInv'
      BY <1>5 DEF OnClose, ReaderInv
    <2>3. \A k \in Sub : Live(k)' /\ ~Displaced(k)' => k \in aborted'
      BY <1>5 DEF OnClose, CancelAll, Stoppable, Live, Displaced
    <2>4. Stoppable' /\ NothingUnwanted'
      BY <2>3 DEF Stoppable, NothingUnwanted
    <2> QED
      BY <2>1, <2>2, <2>4
  <1> QED
    BY <1>1, <1>2, <1>3, <1>4, <1>5

\* A subscription's own steps never make another one unstoppable.
LEMMA SubKeepsInv ==
    ASSUME GatewayInv, NEW k \in Sub, SubStep(k)
    PROVE  GatewayInv'
  <1> USE GatewayAssumption DEF GatewayInv, TypeOK, SubPC
  <1>1. /\ UNCHANGED <<socket, reader, aborted, subId, wanted>>
        /\ subPc[k] # "none"
        /\ \E to \in SubPC \ {"none"} : subPc' = [subPc EXCEPT ![k] = to]
        /\ \A j \in Sub : Live(j)' => Live(j)
        /\ subPc[k] \in {"removed", "done"} => subPc'[k] \in {"removed", "done"}
    BY DEF SubStep, SubCheck, SubStart, SubReturns, SubRemoves, SubEnds, SubCancelled, SubMoves, Live
  <1>0. \A j \in Sub : Displaced(j) => Displaced(j)'
    BY <1>1 DEF Displaced
  <1>2. TypeOK'
    <2>1. UNCHANGED <<session, expired, callPc, method>>
      BY DEF SubStep, SubCheck, SubStart, SubReturns, SubRemoves, SubEnds, SubCancelled, callVars
    <2>2. table' \in [Id -> Sub \cup {NoSub}]
      BY DEF SubStep, SubCheck, SubStart, SubReturns, SubRemoves, SubEnds, SubCancelled
    <2> QED
      BY <1>1, <2>1, <2>2
  <1>3. ReaderInv' /\ NothingUnwanted'
    BY <1>0, <1>1 DEF ReaderInv, NothingUnwanted
  <1>4. Stoppable'
    <2>1. CASE UNCHANGED table
      BY <1>0, <1>1, <2>1 DEF Stoppable
    <2>2. CASE SubRemoves(k)
      <3>1. subPc'[k] = "removed" /\ table' = [table EXCEPT ![subId[k]] = NoSub]
        BY <2>2 DEF SubRemoves, SubMoves
      <3>2. ASSUME NEW j \in Sub, Live(j)', ~Displaced(j)' PROVE subId[j] # subId[k]
        BY <1>1, <3>1, <3>2 DEF Live, Displaced
      <3> QED
        BY <1>0, <1>1, <3>1, <3>2 DEF Stoppable
    <2> QED
      BY <2>1, <2>2 DEF SubStep, SubCheck, SubStart, SubReturns, SubEnds, SubCancelled
  <1> QED
    BY <1>2, <1>3, <1>4

\* Calls touch subscriptions only by cancelling all of them.
LEMMA CallKeepsInv ==
    ASSUME GatewayInv, NEW c \in Call, OnCall(c) \/ CallStep(c)
    PROVE  GatewayInv'
  <1> USE GatewayAssumption DEF GatewayInv, TypeOK, CallPC, Method
  <1>1. CASE CallCancels(c)
    <2>1. TypeOK'
      BY <1>1 DEF CallCancels, CancelAll, CallMoves
    <2>2. ReaderInv'
      BY <1>1 DEF CallCancels, ReaderInv
    <2>3. Stoppable' /\ NothingUnwanted'
      BY <1>1 DEF CallCancels, CancelAll, Stoppable, NothingUnwanted, Live, Displaced
    <2> QED
      BY <2>1, <2>2, <2>3
  <1>2. CASE ~CallCancels(c)
    <2>1. UNCHANGED <<socket, subVars, expired, method>>
      BY <1>2 DEF OnCall, CallStep, CallStart, Verified, Refused, CallWrites
    <2>2. callPc' \in [Call -> CallPC] /\ session' \in Call \cup {NoSession}
      BY <1>2 DEF OnCall, CallStep, CallStart, Verified, Refused, CallWrites, CallMoves
    <2> QED
      BY <2>1, <2>2 DEF subVars, ReaderInv, Stoppable, NothingUnwanted, Live, Displaced
  <1> QED
    BY <1>1, <1>2

LEMMA NextGatewayInv == GatewayInv /\ [Next]_vars => GatewayInv'
  <1> SUFFICES ASSUME GatewayInv, [Next]_vars PROVE GatewayInv'
    OBVIOUS
  <1>1. CASE UNCHANGED vars
    BY <1>1 DEF vars, GatewayInv, TypeOK, ReaderInv, Stoppable, NothingUnwanted, Live, Displaced
  <1>2. CASE SessionExpires
    BY <1>2 DEF SessionExpires, SignedIn, subVars, callVars, GatewayInv, TypeOK,
                ReaderInv, Stoppable, NothingUnwanted, Live, Displaced
  <1> QED
    BY <1>1, <1>2, ReaderKeepsInv, SubKeepsInv, CallKeepsInv DEF Next

\* The strengthened invariant of a socket.
THEOREM GatewayInvariant == Spec => []GatewayInv
  BY InitGatewayInv, NextGatewayInv, PTL DEF Spec

\* Frames, calls and subscription tasks keep the state of a socket type correct,
\* in whatever order they run.
THEOREM GatewayTypeCorrect == Spec => []TypeOK
  <1>1. GatewayInv => TypeOK
    BY DEF GatewayInv
  <1> QED
    BY <1>1, GatewayInvariant, PTL

\* No subscription task can slip out of the reach of unsubscribe, of a subscribe that
\* takes its id over and of cancel_all, unless another of its id ended by itself.
THEOREM SubscriptionsStoppable == Spec => []Stoppable
  <1>1. GatewayInv => Stoppable
    BY DEF GatewayInv
  <1> QED
    BY <1>1, GatewayInvariant, PTL

\* Nothing the browser unsubscribed, or lost with its socket, goes on streaming, with
\* the same exception.
THEOREM NothingUnwantedStreams == Spec => []NothingUnwanted
  <1>1. GatewayInv => NothingUnwanted
    BY DEF GatewayInv
  <1> QED
    BY <1>1, GatewayInvariant, PTL
=============================================================================
