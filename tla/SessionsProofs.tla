---------------------------- MODULE SessionsProofs ----------------------------
(***************************************************************************)
(* What TLAPS proves of Sessions, for any number of instances,             *)
(* subscriptions, RPCs and emitters.                                       *)
(***************************************************************************)
EXTENDS Sessions, TLAPS

\* An RPC holds the instance it starts or stops, and the subscription it
\* cancels; one that reports the end of a call has a report to make; what was
\* started or stopped had been built.
Holds ==
    \A t \in Threads :
        /\ pc[t] \in StopLabels \cup {"add_handler", "connect"} => local[t].inst \in built
        /\ pc[t] = "cancel_sub" => local[t].sub # None
        /\ pc[t] = "emit" => local[t].emits # 0

UsedIsBuilt ==
    /\ sessions # None => sessions \in built
    /\ \A i \in Instances : events[i] # "open" \/ i \in cancelled => i \in built

\* The inductive invariant.
IInv == TypeOK /\ Holds /\ UsedIsBuilt /\ MappedIsLive /\ StoppedOnce /\ NoStrayReader

\* The initial states satisfy the invariant: nothing is built, nobody reads.
LEMMA InitIInv == Init => IInv
<1> SUFFICES ASSUME Init PROVE IInv
    OBVIOUS
<1> USE SessionsAssumption DEF Init
<1>1. TypeOK
  <2>1. 0 \in 0 .. MaxCalls /\ 0 \in 0 .. Capacity /\ 0 \in 0 .. 2
    OBVIOUS
  <2> QED
    BY <2>1 DEF TypeOK, Readers, Stages, Labels, Locals, NoLocal
<1>2. Holds /\ StoppedOnce
  BY DEF Holds, StoppedOnce, StopLabels
<1>3. UsedIsBuilt /\ MappedIsLive
  BY DEF UsedIsBuilt, MappedIsLive
<1>4. NoStrayReader
  BY DEF NoStrayReader, Listening
<1> QED
  BY <1>1, <1>2, <1>3, <1>4 DEF IInv

-----------------------------------------------------------------------------
\* Counters stay in their range.
LEMMA Increments ==
  ASSUME NEW S, NEW f \in [S -> Nat], NEW i \in S
  PROVE  [f EXCEPT ![i] = @ + 1] \in [S -> Nat]
OBVIOUS

\* A counter that is not decremented below 0 stays a natural number.
LEMMA Decrements ==
  ASSUME NEW S, NEW f \in [S -> Nat], NEW i \in S
  PROVE  [f EXCEPT ![i] = IF @ = 0 THEN 0 ELSE @ - 1] \in [S -> Nat]
OBVIOUS

\* A buffer that has room takes one more.
LEMMA IncrementsBelow ==
  ASSUME NEW S, NEW n \in Nat, NEW f \in [S -> 0 .. n], NEW i \in S, f[i] < n
  PROVE  [f EXCEPT ![i] = @ + 1] \in [S -> 0 .. n]
<1>1. f[i] + 1 \in 0 .. n
  OBVIOUS
<1> QED
  BY <1>1

\* The steps of an RPC keep the types.
LEMMA StepType ==
  ASSUME IInv, NEW t \in Threads, Build(t) \/ StopSession(t) \/ Step(t)
  PROVE  TypeOK'
<1> USE SessionsAssumption DEF IInv, TypeOK, Labels, StopLabels, Goto
<1>a. local[t] \in Locals /\ NoLocal \in Locals
  <2>1. 0 \in 0 .. MaxCalls /\ 0 \in 0 .. 2
    OBVIOUS
  <2> QED
    BY <2>1 DEF Locals, NoLocal
<1>b. ASSUME NEW i \in Instances \cup {None}
      PROVE  [local EXCEPT ![t].inst = i] \in [Threads -> Locals]
  BY <1>a DEF Locals
<1>c. ASSUME NEW s \in Subs \cup {None}
      PROVE  [local EXCEPT ![t].sub = s] \in [Threads -> Locals]
  BY <1>a DEF Locals
<1>d. [local EXCEPT ![t] = NoLocal] \in [Threads -> Locals]
  BY <1>a
<1>1. CASE Build(t)
  <2>1. sessions' \in Instances \cup {None} /\ built' \in SUBSET Instances
    BY <1>1 DEF Build
  <2> QED
    BY <2>1, <1>1, <1>b DEF Build, instVars, chanVars
<1>2. CASE StopSession(t)
  BY <1>2, <1>c DEF StopSession, instVars, chanVars
<1>3. CASE Subscribe(t)
  <2>1. reader' \in [Subs -> Readers] /\ eventSubs' \in Subs \cup {None}
    BY <1>3, <1>a DEF Subscribe, Readers, Stages, Locals
  <2> QED
    BY <2>1, <1>3 DEF Subscribe, instVars, chanVars
<1>4. CASE ManagerStart(t)
  BY <1>4, <1>b, <1>d DEF ManagerStart, Finish, mapVars, instVars, chanVars
<1>5. CASE AddHandler(t)
  <2>1. local[t].inst \in Instances
    BY <1>5 DEF Holds, AddHandler
  <2>2. handlers' \in [Instances -> Nat]
    BY <2>1, <1>5, Increments DEF AddHandler
  <2> QED
    BY <2>2, <1>5 DEF AddHandler, mapVars, chanVars
<1>6. CASE Connect(t)
  <2>1. local[t].inst \in Instances
    BY <1>6 DEF Holds, Connect
  <2> QED
    BY <2>1, <1>6, <1>d DEF Connect, Finish, mapVars, chanVars
<1>7. CASE CancelSub(t)
  <2>1. local[t].sub \in Subs
    BY <1>7, <1>a DEF Holds, CancelSub, Locals
  <2> QED
    BY <2>1, <1>7 DEF CancelSub, mapVars, instVars, chanVars
<1>8. CASE ManagerStop(t)
  BY <1>8, <1>b, <1>d DEF ManagerStop, Finish, instVars, chanVars
<1>9. CASE RemoveHandler(t)
  <2>1. local[t].inst \in Instances
    BY <1>9 DEF Holds, RemoveHandler
  <2>2. [local EXCEPT ![t].ending = calls[local[t].inst]] \in [Threads -> Locals]
    BY <2>1, <1>a DEF Locals
  <2>3. handlers' \in [Instances -> Nat]
    BY <2>1, <1>9, Decrements DEF RemoveHandler
  <2> QED
    BY <2>2, <2>3, <1>9 DEF RemoveHandler, mapVars, chanVars
<1>10. CASE Shutdown(t)
  <2>1. local[t].ending - 1 \in 0 .. MaxCalls /\ 2 \in 0 .. 2
    BY <1>10, <1>a DEF Shutdown, Locals
  <2>2. CASE pc' = [pc EXCEPT ![t] = "emit"]
    <3>1. calls' \in [Instances -> 0 .. MaxCalls]
      BY <1>10 DEF Shutdown
    <3>2. [local EXCEPT ![t].ending = @ - 1, ![t].emits = 2] \in [Threads -> Locals]
      BY <2>1, <1>a DEF Locals
    <3>3. [local EXCEPT ![t].ending = @ - 1] \in [Threads -> Locals]
      BY <2>1, <1>a DEF Locals
    <3> QED
      BY <3>1, <3>2, <3>3, <2>2, <1>10 DEF Shutdown, mapVars, chanVars
  <2>3. CASE UNCHANGED <<calls, pc>> /\ local' = [local EXCEPT ![t].ending = @ - 1]
    <3>1. [local EXCEPT ![t].ending = @ - 1] \in [Threads -> Locals]
      BY <2>1, <1>a DEF Locals
    <3> QED
      BY <3>1, <2>3, <1>10 DEF Shutdown, mapVars, chanVars
  <2> QED
    BY <2>2, <2>3, <1>10 DEF Shutdown
<1>11. CASE EndEmits(t)
  <2>1. queue' \in [Instances -> 0 .. Capacity]
    <3>1. local[t].inst \in Instances
      BY <1>11 DEF Holds, EndEmits
    <3> QED
      BY <3>1, <1>11, IncrementsBelow DEF EndEmits
  <2>2. local[t].emits - 1 \in 0 .. 2
    BY <1>a, <1>11 DEF Locals, Holds, EndEmits
  <2>3. [local EXCEPT ![t].emits = @ - 1] \in [Threads -> Locals]
    BY <2>2, <1>a DEF Locals
  <2> QED
    BY <2>1, <2>3, <1>11 DEF EndEmits, mapVars, instVars
<1>12. CASE ShutdownReturns(t)
  BY <1>12 DEF ShutdownReturns, mapVars, instVars, chanVars
<1>13. CASE Disconnect(t)
  BY <1>13 DEF Disconnect, mapVars, chanVars
<1>14. CASE CloseEvents(t)
  BY <1>14 DEF CloseEvents, mapVars, instVars
<1>15. CASE ForgetEvents(t)
  BY <1>15 DEF ForgetEvents, mapVars, instVars
<1>16. CASE CancelContext(t)
  <2>1. local[t].inst \in Instances
    BY <1>16 DEF Holds, CancelContext
  <2> QED
    BY <2>1, <1>16, <1>d DEF CancelContext, Finish, mapVars, instVars, chanVars
<1> QED
  BY <1>1, <1>2, <1>3, <1>4, <1>5, <1>6, <1>7, <1>8, <1>9, <1>10, <1>11, <1>12, <1>13,
     <1>14, <1>15, <1>16 DEF Step

\* What the goroutines of events and subscriptions do.
Background ==
    \/ \E g \in Emitters, i \in Instances : Event(g, i)
    \/ \E g \in Emitters : Send(g) \/ Drop(g)
    \/ \E s \in Subs : ReaderStarts(s) \/ Read(s) \/ ReaderEnds(s)

\* They keep the types.
LEMMA BackgroundType == IInv /\ Background => TypeOK'
<1> SUFFICES ASSUME IInv, Background PROVE TypeOK'
  OBVIOUS
<1> USE SessionsAssumption DEF IInv, TypeOK
<1>1. CASE \E g \in Emitters, i \in Instances : Event(g, i)
  <2> PICK g \in Emitters, i \in Instances : Event(g, i)
    BY <1>1
  <2>1. calls' \in [Instances -> 0 .. MaxCalls]
    <3>1. calls[i] < MaxCalls => calls[i] + 1 \in 0 .. MaxCalls
      OBVIOUS
    <3>2. calls[i] > 0 => calls[i] - 1 \in 0 .. MaxCalls
      OBVIOUS
    <3> QED
      BY <3>1, <3>2 DEF Event
  <2> QED
    BY <2>1 DEF Event, mapVars, chanVars, thrVars
<1>2. CASE \E g \in Emitters : Send(g)
  <2> PICK g \in Emitters : Send(g)
    BY <1>2
  <2>1. queue' \in [Instances -> 0 .. Capacity]
    BY IncrementsBelow DEF Send
  <2> QED
    BY <2>1 DEF Send, mapVars, instVars, thrVars
<1>3. CASE \E g \in Emitters : Drop(g)
  BY <1>3 DEF Drop, mapVars, instVars, chanVars, thrVars
<1>4. CASE \E s \in Subs : ReaderStarts(s)
  <2> PICK s \in Subs : ReaderStarts(s)
    BY <1>4
  <2>1. reader' \in [Subs -> Readers]
    BY DEF ReaderStarts, Readers, Stages
  <2> QED
    BY <2>1 DEF ReaderStarts, mapVars, instVars, chanVars, thrVars
<1>5. CASE \E s \in Subs : Read(s)
  <2> PICK s \in Subs : Read(s)
    BY <1>5
  <2>1. queue' \in [Instances -> 0 .. Capacity]
    <3>1. CASE reader[s].inst \in Instances
      <4>1. queue[reader[s].inst] - 1 \in 0 .. Capacity
        BY <3>1 DEF Read
      <4> QED
        BY <4>1 DEF Read
    <3>2. CASE reader[s].inst \notin Instances
      BY <3>2 DEF Read
    <3> QED
      BY <3>1, <3>2
  <2> QED
    BY <2>1 DEF Read, mapVars, instVars, thrVars
<1>6. CASE \E s \in Subs : ReaderEnds(s)
  <2> PICK s \in Subs : ReaderEnds(s)
    BY <1>6
  <2>1. reader' \in [Subs -> Readers]
    BY DEF ReaderEnds, Readers, Stages
  <2> QED
    BY <2>1 DEF ReaderEnds, mapVars, instVars, chanVars, thrVars
<1> QED
  BY <1>1, <1>2, <1>3, <1>4, <1>5, <1>6 DEF Background

\* They touch neither the maps nor the RPCs nor the life of an instance, and
\* start no reader.
LEMMA BackgroundFrame ==
  IInv /\ Background =>
    /\ UNCHANGED <<sessions, built, eventSubs, events, cancelled, pc, local>>
    /\ \A s \in Subs : Listening(s)' => Listening(s)
<1> SUFFICES ASSUME IInv, Background
             PROVE  /\ UNCHANGED <<sessions, built, eventSubs, events, cancelled, pc, local>>
                    /\ \A s \in Subs : Listening(s)' => Listening(s)
  OBVIOUS
<1>1. CASE \E g \in Emitters, i \in Instances : Event(g, i)
  BY <1>1 DEF Event, mapVars, chanVars, thrVars, Listening
<1>2. CASE \E g \in Emitters : Send(g) \/ Drop(g)
  BY <1>2 DEF Send, Drop, mapVars, chanVars, thrVars, Listening
<1>3. CASE \E s \in Subs : Read(s)
  BY <1>3 DEF Read, mapVars, thrVars, Listening
<1>4. CASE \E s \in Subs : ReaderStarts(s) \/ ReaderEnds(s)
  <2> PICK s \in Subs : ReaderStarts(s) \/ ReaderEnds(s)
    BY <1>4
  <2>1. reader[s].stage \in {"starting", "reading", "deaf"}
    BY DEF ReaderStarts, ReaderEnds
  <2>2. \A r \in Subs : r # s => reader'[r] = reader[r]
    BY DEF ReaderStarts, ReaderEnds, IInv, TypeOK
  <2>3. UNCHANGED <<sessions, built, eventSubs, events, cancelled, pc, local>>
    BY DEF ReaderStarts, ReaderEnds, mapVars, chanVars, thrVars
  <2> QED
    BY <2>1, <2>2, <2>3 DEF Listening
<1> QED
  BY <1>1, <1>2, <1>3, <1>4 DEF Background

\* So they keep the rest of the invariant.
LEMMA BackgroundIInv == IInv /\ Background => IInv'
<1> SUFFICES ASSUME IInv, Background PROVE IInv'
  OBVIOUS
<1>1. UNCHANGED <<sessions, built, eventSubs, events, cancelled, pc, local>>
  BY BackgroundFrame
<1>2. Holds' /\ UsedIsBuilt' /\ MappedIsLive' /\ StoppedOnce'
  BY <1>1 DEF IInv, Holds, UsedIsBuilt, MappedIsLive, StoppedOnce
<1>3. NoStrayReader'
  BY <1>1, BackgroundFrame DEF IInv, NoStrayReader
<1> QED
  BY <1>2, <1>3, BackgroundType DEF IInv

-----------------------------------------------------------------------------
\* What an RPC does between two labels leaves the others alone.
LEMMA OthersKeep ==
  ASSUME IInv, NEW t \in Threads, Build(t) \/ StopSession(t) \/ Step(t),
         NEW u \in Threads, u # t
  PROVE  pc'[u] = pc[u] /\ local'[u] = local[u]
BY DEF IInv, TypeOK, Step, Goto, Finish, Build, StopSession, Subscribe, ManagerStart,
       AddHandler, Connect, CancelSub, ManagerStop, RemoveHandler, Shutdown, EndEmits,
       ShutdownReturns, Disconnect, CloseEvents, ForgetEvents, CancelContext

\* Instances are never unbuilt.
LEMMA BuiltGrows ==
  ASSUME IInv, NEW t \in Threads, Build(t) \/ StopSession(t) \/ Step(t)
  PROVE  built \subseteq built'
BY DEF Step, Build, StopSession, Subscribe, ManagerStart, mapVars,
       AddHandler, Connect, CancelSub, ManagerStop, RemoveHandler, Shutdown, EndEmits,
       ShutdownReturns, Disconnect, CloseEvents, ForgetEvents, CancelContext

\* An RPC gets to hold an instance from the map, and keeps it.
LEMMA StepHolds ==
  ASSUME IInv, NEW t \in Threads, Build(t) \/ StopSession(t) \/ Step(t)
  PROVE  Holds'
<1> USE DEF IInv, TypeOK, Labels, StopLabels, Goto, Finish
<1>1. ASSUME NEW u \in Threads, u # t
      PROVE  /\ (pc[u] \in StopLabels \cup {"add_handler", "connect"} =>
                   local[u].inst \in built)'
             /\ (pc[u] = "cancel_sub" => local[u].sub # None)'
             /\ (pc[u] = "emit" => local[u].emits # 0)'
  BY <1>1, OthersKeep, BuiltGrows DEF Holds
<1>2. /\ (pc[t] \in StopLabels \cup {"add_handler", "connect"} =>
            local[t].inst \in built)'
      /\ (pc[t] = "cancel_sub" => local[t].sub # None)'
      /\ (pc[t] = "emit" => local[t].emits # 0)'
  <2>1. local[t] \in Locals
    OBVIOUS
  <2>2. CASE Build(t) \/ Subscribe(t) \/ CancelSub(t) \/ Connect(t) \/ CancelContext(t)
    BY <2>2 DEF Build, Subscribe, CancelSub, Connect, CancelContext
  <2>3. CASE StopSession(t)
    BY <2>3, <2>1 DEF StopSession, Locals
  <2>4. CASE ManagerStart(t) \/ ManagerStop(t)
    BY <2>4, <2>1 DEF ManagerStart, ManagerStop, Locals, mapVars, UsedIsBuilt
  <2>5. CASE AddHandler(t) \/ RemoveHandler(t) \/ ShutdownReturns(t) \/ Disconnect(t)
             \/ CloseEvents(t) \/ ForgetEvents(t)
    BY <2>5, <2>1 DEF AddHandler, RemoveHandler, ShutdownReturns, Disconnect, CloseEvents,
       ForgetEvents, Locals, mapVars, Holds
  <2>6. CASE Shutdown(t)
    BY <2>6, <2>1 DEF Shutdown, Locals, mapVars, Holds
  <2>7. CASE EndEmits(t)
    <3>1. local[t].emits \in Nat
      BY <2>1 DEF Locals
    <3>2. local'[t].inst = local[t].inst /\ local'[t].emits = local[t].emits - 1
      BY <2>7, <2>1 DEF EndEmits, Locals
    <3> QED
      BY <3>1, <3>2, <2>7 DEF EndEmits, mapVars, Holds
  <2> QED
    BY <2>2, <2>3, <2>4, <2>5, <2>6, <2>7 DEF Step
<1> QED
  BY <1>1, <1>2 DEF Holds

\* What is mapped, closed or cancelled had been built.
LEMMA StepUsed ==
  ASSUME IInv, NEW t \in Threads, Build(t) \/ StopSession(t) \/ Step(t)
  PROVE  UsedIsBuilt'
<1> USE SessionsAssumption DEF IInv, TypeOK, UsedIsBuilt
<1>1. CASE Build(t)
  BY <1>1 DEF Build, chanVars
<1>2. CASE CancelSub(t)
  <2>1. local[t].sub \in Subs
    BY <1>2 DEF CancelSub, Holds, Locals
  <2> QED
    BY <2>1, <1>2 DEF CancelSub, mapVars, chanVars
<1>3. CASE CloseEvents(t) \/ ForgetEvents(t) \/ CancelContext(t)
  <2>1. local[t].inst \in built
    BY <1>3 DEF CloseEvents, ForgetEvents, CancelContext, Holds, StopLabels
  <2> QED
    BY <2>1, <1>3 DEF CloseEvents, ForgetEvents, CancelContext, mapVars, chanVars
<1>4. CASE ManagerStop(t)
  BY <1>4 DEF ManagerStop, chanVars
<1>5. CASE StopSession(t) \/ Subscribe(t) \/ ManagerStart(t) \/ AddHandler(t) \/ Connect(t)
           \/ RemoveHandler(t) \/ Shutdown(t) \/ EndEmits(t) \/ ShutdownReturns(t)
           \/ Disconnect(t)
  BY <1>5 DEF StopSession, Subscribe, ManagerStart, AddHandler, Connect, RemoveHandler,
     Shutdown, EndEmits, ShutdownReturns, Disconnect, mapVars, chanVars
<1> QED
  BY <1>1, <1>2, <1>3, <1>4, <1>5 DEF Step

\* The label and the instance of an RPC that stops a session: it already did,
\* or it has just taken the session out of the map.
LEMMA StopperIsOldOrTakes ==
  ASSUME IInv, NEW t \in Threads, Build(t) \/ StopSession(t) \/ Step(t),
         (pc[t] \in StopLabels)'
  PROVE  \/ pc[t] \in StopLabels /\ local'[t].inst = local[t].inst /\ UNCHANGED sessions
         \/ sessions # None /\ local'[t].inst = sessions /\ sessions' = None
              /\ UNCHANGED <<events, cancelled>>
<1> USE DEF IInv, TypeOK, Labels, StopLabels, Goto, Finish, Locals
<1>1. local[t] \in Locals
  OBVIOUS
<1>2. CASE ManagerStop(t)
  BY <1>1, <1>2 DEF ManagerStop, chanVars
<1>3. CASE Build(t) \/ StopSession(t) \/ Subscribe(t) \/ ManagerStart(t) \/ AddHandler(t)
           \/ Connect(t) \/ CancelSub(t) \/ CancelContext(t)
  BY <1>1, <1>3 DEF Build, StopSession, Subscribe, ManagerStart, AddHandler, Connect,
     CancelSub, CancelContext
<1>4. CASE RemoveHandler(t) \/ Shutdown(t) \/ EndEmits(t) \/ ShutdownReturns(t)
           \/ Disconnect(t) \/ CloseEvents(t) \/ ForgetEvents(t)
  BY <1>1, <1>4 DEF RemoveHandler, Shutdown, EndEmits, ShutdownReturns, Disconnect,
     CloseEvents, ForgetEvents, mapVars
<1> QED
  BY <1>2, <1>3, <1>4 DEF Step

\* The instance that is stopped is nobody else's: it was taken from the map
\* under the lock, and what is in the map nobody is stopping.
LEMMA StepStoppedOnce ==
  ASSUME IInv, NEW t \in Threads, Build(t) \/ StopSession(t) \/ Step(t)
  PROVE  StoppedOnce'
<1>1. ASSUME NEW u \in Threads, u # t, (pc[t] \in StopLabels)', (pc[u] \in StopLabels)',
             local'[t].inst = local'[u].inst
      PROVE  FALSE
  <2>1. pc[u] \in StopLabels /\ local'[u].inst = local[u].inst
    BY <1>1, OthersKeep
  <2>2. CASE pc[t] \in StopLabels /\ local'[t].inst = local[t].inst
    BY <1>1, <2>1, <2>2 DEF IInv, StoppedOnce
  <2>3. CASE sessions # None /\ local'[t].inst = sessions
    BY <1>1, <2>1, <2>3 DEF IInv, MappedIsLive
  <2> QED
    BY <1>1, <2>2, <2>3, StopperIsOldOrTakes
<1>2. ASSUME NEW u \in Threads, NEW v \in Threads, u # t, v # t, u # v,
             (pc[u] \in StopLabels)', (pc[v] \in StopLabels)',
             local'[u].inst = local'[v].inst
      PROVE  FALSE
  BY <1>2, OthersKeep DEF IInv, StoppedOnce
<1> QED
  BY <1>1, <1>2 DEF StoppedOnce

\* The map changes when a new instance comes, which nobody holds, or when it
\* empties; the stopper's writes are to an instance that is not in it.
LEMMA StepMappedIsLive ==
  ASSUME IInv, NEW t \in Threads, Build(t) \/ StopSession(t) \/ Step(t)
  PROVE  MappedIsLive'
<1> SUFFICES ASSUME (sessions # None)'
             PROVE  /\ events'[sessions'] = "open" /\ sessions' \notin cancelled'
                    /\ \A u \in Threads : pc'[u] \in StopLabels => local'[u].inst # sessions'
  BY DEF MappedIsLive
<1>1. CASE Build(t) /\ sessions = None
  <2>1. sessions' \in Instances \ built /\ UNCHANGED <<events, cancelled>>
    BY <1>1 DEF Build, chanVars, IInv, TypeOK
  <2>2. events[sessions'] = "open" /\ sessions' \notin cancelled
    BY <2>1 DEF IInv, UsedIsBuilt
  <2>3. \A u \in Threads : pc[u] \in StopLabels => local[u].inst # sessions'
    BY <2>1 DEF IInv, Holds
  <2>4. pc'[t] \notin StopLabels
    BY <1>1 DEF Build, Goto, IInv, TypeOK, StopLabels
  <2> QED
    BY <2>1, <2>2, <2>3, <2>4, OthersKeep
<1>2. ASSUME ~(Build(t) /\ sessions = None)
      PROVE  /\ UNCHANGED sessions
             /\ events'[sessions] = "open" /\ sessions \notin cancelled'
  <2>1. UNCHANGED sessions
    BY <1>2 DEF Step, Build, StopSession, Subscribe, ManagerStart, mapVars, AddHandler,
       Connect, CancelSub, ManagerStop, RemoveHandler, Shutdown, EndEmits,
       ShutdownReturns, Disconnect, CloseEvents, ForgetEvents, CancelContext
  <2>2. events[sessions] = "open" /\ sessions \notin cancelled /\ sessions \in Instances
    BY <2>1 DEF IInv, TypeOK, MappedIsLive
  <2>3. CASE CloseEvents(t) \/ ForgetEvents(t) \/ CancelContext(t)
    <3>1. local[t].inst # sessions
      BY <2>1, <2>3 DEF IInv, MappedIsLive, CloseEvents, ForgetEvents, CancelContext,
         StopLabels
    <3> QED
      BY <2>1, <2>2, <2>3, <3>1 DEF CloseEvents, ForgetEvents, CancelContext, chanVars,
         IInv, TypeOK
  <2>4. CASE CancelSub(t)
    <3>1. local[t].sub \in Subs
      BY <2>4 DEF CancelSub, IInv, TypeOK, Holds, Locals
    <3> QED
      BY <2>1, <2>2, <2>4, <3>1, SessionsAssumption DEF CancelSub, chanVars
  <2>5. CASE Build(t) \/ StopSession(t) \/ Subscribe(t) \/ ManagerStart(t) \/ AddHandler(t)
             \/ Connect(t) \/ ManagerStop(t) \/ RemoveHandler(t) \/ Shutdown(t)
             \/ EndEmits(t) \/ ShutdownReturns(t) \/ Disconnect(t)
    <3>1. UNCHANGED <<events, cancelled>>
      BY <2>5 DEF Build, StopSession, Subscribe, ManagerStart, AddHandler, Connect,
         ManagerStop, RemoveHandler, Shutdown, EndEmits, ShutdownReturns, Disconnect,
         chanVars
    <3> QED
      BY <2>1, <2>2, <3>1
  <2> QED
    BY <2>3, <2>4, <2>5 DEF Step
<1>3. ASSUME ~(Build(t) /\ sessions = None), NEW u \in Threads, pc'[u] \in StopLabels
      PROVE  local'[u].inst # sessions'
  <2>1. CASE u = t
    BY <1>2, <1>3, <2>1, StopperIsOldOrTakes DEF IInv, MappedIsLive
  <2>2. CASE u # t
    BY <1>2, <1>3, <2>2, OthersKeep DEF IInv, MappedIsLive
  <2> QED
    BY <2>1, <2>2
<1> QED
  BY <1>1, <1>2, <1>3

\* A reader is registered when it starts; whoever unregisters it holds it until
\* it is cancelled.
LEMMA StepNoStrayReader ==
  ASSUME IInv, NEW t \in Threads, Build(t) \/ StopSession(t) \/ Step(t)
  PROVE  NoStrayReader'
<1> SUFFICES ASSUME NEW s \in Subs, Listening(s)'
             PROVE  \/ eventSubs' = s
                    \/ \E u \in Threads : pc'[u] = "cancel_sub" /\ local'[u].sub = s
  BY DEF NoStrayReader
<1> USE DEF IInv, TypeOK, Listening
<1>1. CASE Subscribe(t)
  <2>1. CASE Listening(s)
    <3>1. eventSubs = s => eventSubs' = s
      BY <1>1, SessionsAssumption DEF Subscribe
    <3>2. ASSUME NEW u \in Threads, pc[u] = "cancel_sub", local[u].sub = s
          PROVE  pc'[u] = "cancel_sub" /\ local'[u].sub = s
      <4>1. u # t
        BY <1>1, <3>2 DEF Subscribe
      <4> QED
        BY <3>2, <4>1, OthersKeep DEF Step
    <3> QED
      BY <2>1, <3>1, <3>2 DEF NoStrayReader
  <2>2. CASE ~Listening(s)
    <3>1. ~(UNCHANGED <<reader, cancelled>>)
      BY <2>2
    <3> QED
      BY <1>1, <2>2, <3>1 DEF Subscribe
  <2> QED
    BY <2>1, <2>2
<1>2. CASE ~Subscribe(t)
  <2>1. UNCHANGED reader
    BY <1>2 DEF Step, Build, StopSession, ManagerStart, AddHandler, Connect, CancelSub,
       ManagerStop, RemoveHandler, Shutdown, EndEmits, ShutdownReturns, Disconnect,
       CloseEvents, ForgetEvents, CancelContext
  <2>2. cancelled \subseteq cancelled'
    BY <1>2 DEF Step, Build, StopSession, ManagerStart, AddHandler, Connect, CancelSub,
       ManagerStop, RemoveHandler, Shutdown, EndEmits, ShutdownReturns, Disconnect,
       CloseEvents, ForgetEvents, CancelContext
  <2>3. Listening(s)
    BY <2>1, <2>2
  <2>4. CASE eventSubs = s
    <3>1. CASE StopSession(t)
      <4>1. eventSubs # None
        BY <2>4, SessionsAssumption
      <4>2. pc'[t] = "cancel_sub"
        BY <4>1, <3>1 DEF StopSession, Goto
      <4>3. local' = [local EXCEPT ![t].sub = eventSubs] /\ local[t] \in Locals
        BY <3>1 DEF StopSession
      <4>4. local'[t].sub = s
        BY <4>3, <2>4 DEF Locals
      <4> QED
        BY <4>2, <4>4
    <3>2. CASE ~StopSession(t)
      BY <1>2, <2>4, <3>2 DEF Step, Build, ManagerStart, AddHandler, Connect, CancelSub,
         ManagerStop, RemoveHandler, Shutdown, EndEmits, ShutdownReturns, Disconnect,
         CloseEvents, ForgetEvents, CancelContext, mapVars
    <3> QED
      BY <3>1, <3>2
  <2>5. ASSUME NEW u \in Threads, pc[u] = "cancel_sub", local[u].sub = s
        PROVE  pc'[u] = "cancel_sub" /\ local'[u].sub = s
    <3>1. CASE u = t
      <4>1. CancelSub(t)
        BY <1>2, <2>5, <3>1 DEF Step, Build, StopSession, ManagerStart, AddHandler, Connect,
           ManagerStop, RemoveHandler, Shutdown, EndEmits, ShutdownReturns, Disconnect,
           CloseEvents, ForgetEvents, CancelContext
      <4>2. s \in cancelled'
        BY <4>1, <2>5, <3>1 DEF CancelSub
      <4> QED
        BY <4>2
    <3>2. CASE u # t
      BY <2>5, <3>2, OthersKeep
    <3> QED
      BY <3>1, <3>2
  <2> QED
    BY <2>3, <2>4, <2>5 DEF NoStrayReader
<1> QED
  BY <1>1, <1>2

-----------------------------------------------------------------------------
\* The invariant is inductive: in every reachable state, for any number of
\* RPCs, instances, subscriptions and emitters.
THEOREM InductiveInvariant == Spec => []IInv
<1>1. IInv /\ [Next]_vars => IInv'
  <2> SUFFICES ASSUME IInv, [Next]_vars PROVE IInv'
    OBVIOUS
  <2>1. CASE \E t \in Threads : Build(t) \/ StopSession(t) \/ Step(t)
    BY <2>1, StepType, StepHolds, StepUsed, StepMappedIsLive, StepStoppedOnce,
       StepNoStrayReader DEF IInv
  <2>2. CASE Background
    BY <2>2, BackgroundIInv
  <2>3. CASE UNCHANGED vars
    BY <2>3 DEF vars, mapVars, instVars, chanVars, thrVars, IInv, TypeOK, Holds, UsedIsBuilt,
       MappedIsLive, StoppedOnce, NoStrayReader, Listening
  <2> QED
    BY <2>1, <2>2, <2>3 DEF Next, Background
<1> QED
  BY <1>1, InitIInv, PTL DEF Spec

\* Type correctness of sessions, channels, readers and RPCs.
THEOREM TypeCorrect == Spec => []TypeOK
<1>1. IInv => TypeOK
  BY DEF IInv
<1> QED
  BY <1>1, InductiveInvariant, PTL

\* An instance found in the map is one that nobody is stopping.
THEOREM MappedLive == Spec => []MappedIsLive
<1>1. IInv => MappedIsLive
  BY DEF IInv
<1> QED
  BY <1>1, InductiveInvariant, PTL

\* No instance is stopped twice, so no channel is closed twice.
THEOREM StopsOnce == Spec => []StoppedOnce
<1>1. IInv => StoppedOnce
  BY DEF IInv
<1> QED
  BY <1>1, InductiveInvariant, PTL

\* No reader runs that neither the server nor a StopSession holds.
THEOREM ReadersAreHeld == Spec => []NoStrayReader
<1>1. IInv => NoStrayReader
  BY DEF IInv
<1> QED
  BY <1>1, InductiveInvariant, PTL
===============================================================================
