------------------------ MODULE CallControllerProofs --------------------------
(***************************************************************************)
(* What TLAPS proves of CallController, for any number of call ids,        *)
(* activeCalls, bridges and goroutines, and for every limit: the overshoot *)
(* of the limit, the one cleanup that releases a call, the cleanup that is *)
(* on its way for an ended call, and the bridges that nobody loses.        *)
(***************************************************************************)
EXTENDS CallController, FiniteSetTheorems, TLAPS

\* The labels at which a goroutine works on the activeCall it has found.
OnCall == Requests \cup
    {"offer_out", "offer_in", "query", "on_ended", "release", "sink", "install"}

\* A goroutine that is not idle and not between two ids of Shutdown has a
\* call id; one at work on an activeCall has it, and it was created.
Fits(t) ==
    /\ pc[t] \notin {"idle", "shutdown"} => local[t].id # None
    /\ pc[t] \in OnCall => local[t].ac # None
    /\ local[t].ac # None => id[local[t].ac] # None

LocalsFit == \A t \in Threads : Fits(t)

\* Only an activeCall that createCall made has a call, a bridge or goroutines,
\* and the map has it under its own id.
Created ==
    /\ \A a \in ActiveCalls : state[a] # "none" => id[a] # None
    /\ \A a \in ActiveCalls : bridge[a] # None => id[a] # None
    /\ \A kind \in Kinds, a \in ActiveCalls : pending[<<kind, a>>] > 0 => id[a] # None
    /\ \A i \in CallIds : calls[i] # None => id[calls[i]] = i

\* The inductive invariant.
IInv ==
    /\ TypeOK /\ LocalsFit /\ Created
    /\ OvershootIsBounded /\ OneCleanupReleases
    /\ EndedIsCleanedUp /\ NoOrphanBridge

\* The initial states satisfy the invariant: no call, all goroutines idle.
LEMMA InitIInv == Init => IInv
<1> SUFFICES ASSUME Init PROVE IInv
    OBVIOUS
<1> USE CallControllerAssumption DEF Init
<1>1. TypeOK
  BY DEF TypeOK, Labels, Locals, NoLocal
<1>2. LocalsFit /\ Created
  <2>1. \A kind \in Kinds, a \in ActiveCalls : pending[<<kind, a>>] = 0
    BY Zenon
  <2>2. LocalsFit
    BY DEF LocalsFit, Fits, OnCall, Requests, NoLocal
  <2>3. ~(0 > 0)
    OBVIOUS
  <2> QED
    BY <2>1, <2>2, <2>3, Zenon DEF Created
<1>3. Mapped = {} /\ Creators = {}
  BY DEF Mapped, Creators
<1>4. OvershootIsBounded
  <2>1. Cardinality(Mapped) = 0 /\ Cardinality(Creators) = 0
    BY <1>3, FS_EmptySet
  <2>2. Cardinality(Threads) \in Nat
    BY FS_CardinalityType
  <2> QED
    BY <2>1, <2>2 DEF OvershootIsBounded
<1>5. OneCleanupReleases /\ EndedIsCleanedUp /\ NoOrphanBridge
  BY <1>3 DEF OneCleanupReleases, EndedIsCleanedUp, NoOrphanBridge
<1> QED
  BY <1>1, <1>2, <1>4, <1>5 DEF IInv

-----------------------------------------------------------------------------
(* What the helpers do, whatever action calls them.                        *)

\* The frames: what a step of a goroutine does to the locals keeps their type.
LEMMA LocalTypes ==
  ASSUME TypeOK, NEW t \in Threads
  PROVE  /\ local[t] \in Locals
         /\ NoLocal \in Locals
         /\ [local EXCEPT ![t] = NoLocal] \in [Threads -> Locals]
         /\ \A i \in CallIds \cup {None} :
              [local EXCEPT ![t].id = i] \in [Threads -> Locals]
         /\ \A a \in ActiveCalls \cup {None} :
              [local EXCEPT ![t].ac = a] \in [Threads -> Locals]
         /\ \A i \in CallIds \cup {None}, a \in ActiveCalls \cup {None} :
              [local EXCEPT ![t].id = i, ![t].ac = a] \in [Threads -> Locals]
         /\ \A a \in ActiveCalls \cup {None}, x \in BOOLEAN :
              [local EXCEPT ![t].ac = a, ![t].audio = x] \in [Threads -> Locals]
         /\ \A b \in Bridges :
              [local EXCEPT ![t].bridge = b] \in [Threads -> Locals]
         /\ \A s \in SUBSET CallIds :
              [local EXCEPT ![t].ids = s] \in [Threads -> Locals]
         /\ \A s \in SUBSET CallIds, i \in CallIds, a \in ActiveCalls \cup {None} :
              [local EXCEPT ![t].ids = s, ![t].id = i, ![t].ac = a] \in [Threads -> Locals]
<1>0. local \in [Threads -> Locals]
  BY Zenon DEF TypeOK
<1>1. NoLocal \in Locals
  BY DEF NoLocal, Locals
<1>2. local[t] \in Locals /\ [local EXCEPT ![t] = NoLocal] \in [Threads -> Locals]
  BY <1>0, <1>1
<1>3. ASSUME NEW i \in CallIds \cup {None}
      PROVE  [local EXCEPT ![t].id = i] \in [Threads -> Locals]
  BY <1>0 DEF Locals
<1>4. ASSUME NEW a \in ActiveCalls \cup {None}
      PROVE  [local EXCEPT ![t].ac = a] \in [Threads -> Locals]
  BY <1>0 DEF Locals
<1>5. ASSUME NEW i \in CallIds \cup {None}, NEW a \in ActiveCalls \cup {None}
      PROVE  [local EXCEPT ![t].id = i, ![t].ac = a] \in [Threads -> Locals]
  <2>1. PICK q \in Locals : q = local[t]
    BY <1>0
  <2>2. PICK r \in Locals : r = [q EXCEPT !.id = i, !.ac = a]
    BY DEF Locals
  <2>3. [local EXCEPT ![t].id = i, ![t].ac = a] = [local EXCEPT ![t] = r]
    BY <1>0, <2>1, <2>2
  <2> QED
    BY <1>0, <2>2, <2>3
<1>6. ASSUME NEW a \in ActiveCalls \cup {None}, NEW x \in BOOLEAN
      PROVE  [local EXCEPT ![t].ac = a, ![t].audio = x] \in [Threads -> Locals]
  <2>1. PICK q \in Locals : q = local[t]
    BY <1>0
  <2>2. PICK r \in Locals : r = [q EXCEPT !.ac = a, !.audio = x]
    BY DEF Locals
  <2>3. [local EXCEPT ![t].ac = a, ![t].audio = x] = [local EXCEPT ![t] = r]
    BY <1>0, <2>1, <2>2
  <2> QED
    BY <1>0, <2>2, <2>3
<1>7. ASSUME NEW b \in Bridges
      PROVE  [local EXCEPT ![t].bridge = b] \in [Threads -> Locals]
  BY <1>0 DEF Locals
<1>8. ASSUME NEW s \in SUBSET CallIds
      PROVE  [local EXCEPT ![t].ids = s] \in [Threads -> Locals]
  BY <1>0 DEF Locals
<1>9. ASSUME NEW s \in SUBSET CallIds, NEW i \in CallIds, NEW a \in ActiveCalls \cup {None}
      PROVE  [local EXCEPT ![t].ids = s, ![t].id = i, ![t].ac = a] \in [Threads -> Locals]
  <2>1. PICK q \in Locals : q = local[t]
    BY <1>0
  <2>2. PICK r \in Locals : r = [q EXCEPT !.ids = s, !.id = i, !.ac = a]
    BY DEF Locals
  <2>3. [local EXCEPT ![t].ids = s, ![t].id = i, ![t].ac = a] = [local EXCEPT ![t] = r]
    BY <1>0, <2>1, <2>2
  <2> QED
    BY <1>0, <2>2, <2>3
<1> QED
  BY <1>1, <1>2, <1>3, <1>4, <1>5, <1>6, <1>7, <1>8, <1>9, Zenon

\* Goto, Finish and Return lead a goroutine to a label.
LEMMA ThreadTypes ==
  ASSUME TypeOK, NEW t \in Threads
  PROVE  /\ \A l \in Labels : Goto(t, l) =>
              pc' \in [Threads -> Labels] /\ closer' \in Threads \cup {None}
         /\ Finish(t) => /\ pc' \in [Threads -> Labels]
                         /\ closer' \in Threads \cup {None}
                         /\ local' \in [Threads -> Locals]
         /\ \A l \in Labels : Return(t, l) =>
              /\ pc' \in [Threads -> Labels]
              /\ closer' \in Threads \cup {None}
              /\ local' \in [Threads -> Locals]
<1>1. "idle" \in Labels
  BY DEF Labels
<1>2. [local EXCEPT ![t] = NoLocal] \in [Threads -> Locals]
  BY LocalTypes
<1> QED
  BY <1>1, <1>2 DEF TypeOK, Goto, Finish, Return

\* A goroutine started for a callback is one more of its kind.
LEMMA Spawns ==
  ASSUME TypeOK, NEW kind \in Kinds, NEW a \in ActiveCalls, Spawn(kind, a)
  PROVE  /\ pending' \in [Kinds \X ActiveCalls -> Nat]
         /\ pending'[<<kind, a>>] > 0
         /\ \A k \in Kinds, c \in ActiveCalls :
              /\ pending[<<k, c>>] > 0 => pending'[<<k, c>>] > 0
              /\ pending'[<<k, c>>] > 0 => pending[<<k, c>>] > 0 \/ (k = kind /\ c = a)
<1> DEFINE x == <<kind, a>>
<1>1. x \in Kinds \X ActiveCalls
  OBVIOUS
<1> HIDE DEF x
<1>2. /\ pending' \in [Kinds \X ActiveCalls -> Nat]
      /\ pending'[x] > 0
      /\ \A y \in Kinds \X ActiveCalls : y # x => pending'[y] = pending[y]
  <2>1. pending' = [pending EXCEPT ![x] = @ + 1]
    BY DEF Spawn, x
  <2> QED
    BY <1>1, <2>1 DEF TypeOK
<1>3. ASSUME NEW k \in Kinds, NEW c \in ActiveCalls
      PROVE  <<k, c>> \in Kinds \X ActiveCalls /\ (<<k, c>> = x => k = kind /\ c = a)
  BY DEF x
<1> QED
  BY <1>2, <1>3 DEF x

\* The callback of OnStateChange, and the report of a bridge, start at most
\* goroutines of the activeCall they are about.
LEMMA Starts ==
  ASSUME TypeOK, NEW a \in ActiveCalls
  PROVE  /\ Emit(a) => /\ UNCHANGED pending \/ Spawn("cleanup", a) \/ Spawn("on_active", a)
                       /\ state'[a] = "ended" => Spawn("cleanup", a)
         /\ \A b : MayEnd(a, b) => UNCHANGED pending \/ Spawn("end", a)
  BY DEF Emit, MayEnd

-----------------------------------------------------------------------------
(* Type correctness.                                                       *)

\* Every label an action leads to is one.
LEMMA LabelsAre ==
  /\ Kinds \subseteq Labels /\ Requests \subseteq Labels
  /\ {"idle", "create_out", "create_in", "offer_out", "offer_in", "query",
      "on_ended", "release", "sink", "install", "shutdown"} \subseteq Labels
  /\ {"cleanup", "on_active", "end"} = Kinds
BY DEF Labels, Kinds

\* The steps of a goroutine keep the types.
LEMMA StepType ==
  ASSUME IInv, NEW t \in Threads, Step(t)
  PROVE  TypeOK'
<1> USE CallControllerAssumption DEF IInv, vars, callVars, webVars, thrVars
<1>a. TypeOK /\ LocalsFit
  OBVIOUS
<1>b. /\ local[t].id \in CallIds \cup {None} /\ local[t].ac \in ActiveCalls \cup {None}
      /\ local[t].audio \in BOOLEAN /\ local[t].bridge \in Bridges \cup {None}
      /\ local[t].ids \in SUBSET CallIds
  BY LocalTypes DEF Locals
<1>c. pc[t] \in OnCall => local[t].ac \in ActiveCalls
  BY <1>b DEF LocalsFit, Fits
<1>d. pc[t] \notin {"idle", "shutdown"} => local[t].id \in CallIds
  BY <1>b DEF LocalsFit, Fits
<1>e. ASSUME NEW a \in ActiveCalls, Emit(a) \/ (\E b : MayEnd(a, b))
      PROVE  pending' \in [Kinds \X ActiveCalls -> Nat]
  BY <1>e, Starts, Spawns, LabelsAre DEF TypeOK
<1>1. CASE CreateCall(t)
  <2>1. local[t].id \in CallIds
    BY <1>d, <1>1 DEF CreateCall
  <2>2. pc' \in [Threads -> Labels] /\ closer' \in Threads \cup {None}
    BY <1>1, ThreadTypes, LabelsAre DEF CreateCall
  <2>3. local' \in [Threads -> Locals]
    <3>1. PICK a \in ActiveCalls : local' = [local EXCEPT ![t].ac = a]
      BY <1>1 DEF CreateCall
    <3> QED
      BY <3>1, LocalTypes
  <2> QED
    BY <2>1, <2>2, <2>3, <1>1 DEF CreateCall, TypeOK
<1>2. CASE HandleCallOffer(t)
  BY <1>2, <1>c, ThreadTypes DEF HandleCallOffer, TypeOK, OnCall
<1>3. CASE ManagerStartCall(t)
  <2>1. pc' \in [Threads -> Labels] /\ closer' \in Threads \cup {None}
    BY <1>3, ThreadTypes, LabelsAre DEF ManagerStartCall
  <2> QED
    BY <2>1, <1>3, <1>c DEF ManagerStartCall, TypeOK, OnCall
<1>4. CASE StartCallReturns(t)
  <2>1. local[t].ac \in ActiveCalls
    BY <1>4, <1>c DEF StartCallReturns, OnCall
  <2>2. CASE Emit(local[t].ac) /\ Finish(t)
    BY <2>1, <2>2, <1>4, <1>e, ThreadTypes DEF StartCallReturns, TypeOK
  <2>3. CASE Goto(t, "cleanup") /\ UNCHANGED <<pending, local>>
    BY <2>3, <1>4, ThreadTypes, LabelsAre DEF StartCallReturns, TypeOK
  <2> QED
    BY <2>2, <2>3, <1>4 DEF StartCallReturns
<1>5. CASE AcceptCall(t)
  <2>1. /\ pc' \in [Threads -> Labels] /\ closer' \in Threads \cup {None}
        /\ local' \in [Threads -> Locals]
    BY <1>5, ThreadTypes, Zenon DEF AcceptCall
  <2> QED
    <3>1. local[t].ac \in ActiveCalls
      <4>1. pc[t] = "accept"
        BY <1>5, Zenon DEF AcceptCall
      <4>2. "accept" \in OnCall
        BY DEF OnCall, Requests
      <4> QED
        BY <1>c, <4>1, <4>2, Zenon
    <3>2. audio' \in [ActiveCalls -> BOOLEAN]
      BY <1>5, <3>1 DEF AcceptCall, TypeOK
    <3> QED
      BY <1>5, <2>1, <3>2 DEF AcceptCall, TypeOK
<1>6. CASE HandleCallAccept(t)
  <2>1. local[t].ac \in ActiveCalls
    BY <1>6, <1>c DEF HandleCallAccept, OnCall, Requests
  <2> QED
    BY <2>1, <1>6, <1>e, ThreadTypes DEF HandleCallAccept, TypeOK
<1>7. CASE EndCall(t) \/ HandleCallTerminate(t)
  <2>1. local[t].ac \in ActiveCalls
    BY <1>7, <1>c DEF EndCall, HandleCallTerminate, OnCall, Requests
  <2>2. Ends(t)
    BY <1>7 DEF EndCall, HandleCallTerminate
  <2>3. pc' \in [Threads -> Labels] /\ closer' \in Threads \cup {None}
    BY <2>2, ThreadTypes, LabelsAre DEF Ends
  <2> QED
    BY <2>1, <2>2, <2>3, <1>e DEF Ends, TypeOK
<1>8. CASE EndCallReturns(t)
  BY <1>8, ThreadTypes, LabelsAre DEF EndCallReturns, TypeOK
<1>9. CASE OnEnded(t)
  <2>1. local[t].ac \in ActiveCalls
    BY <1>9, <1>c DEF OnEnded, OnCall
  <2>2. pending' \in [Kinds \X ActiveCalls -> Nat]
    BY <2>1, <1>9, Spawns, LabelsAre DEF OnEnded
  <2> QED
    BY <2>2, <1>9, ThreadTypes, LabelsAre DEF OnEnded, TypeOK
<1>10. CASE HandleCallTerminateReturns(t)
  BY <1>10, ThreadTypes DEF HandleCallTerminateReturns, TypeOK
<1>11. CASE NewBridge(t)
  <2>1. CASE Finish(t) /\ UNCHANGED open
    BY <2>1, <1>11, ThreadTypes DEF NewBridge, TypeOK
  <2>2. ASSUME NEW b \in Bridges, open' = open \cup {b},
               local' = [local EXCEPT ![t].bridge = b], Goto(t, "install")
        PROVE  TypeOK'
    BY <2>2, <1>11, ThreadTypes, LocalTypes, LabelsAre DEF NewBridge, TypeOK
  <2> QED
    BY <2>1, <2>2, <1>11 DEF NewBridge
<1>12. CASE WebRTC(t)
  <2>1. local[t].ac \in ActiveCalls
    BY <1>12, <1>c DEF WebRTC, OnCall
  <2> QED
    BY <2>1, <1>12, <1>b, <1>e, ThreadTypes DEF WebRTC, CloseBridge, TypeOK
<1>13. CASE OnActive(t)
  <2>1. CASE Finish(t) /\ UNCHANGED started
    BY <2>1, <1>13, ThreadTypes DEF OnActive, TypeOK
  <2>2. CASE ~(Finish(t) /\ UNCHANGED started)
    <3> DEFINE a == calls[local[t].id]
    <3>1. a \in ActiveCalls
      BY <2>2, <1>13, <1>d DEF OnActive, TypeOK
    <3>2. local' \in [Threads -> Locals]
      <4>1. local' = [local EXCEPT ![t].ac = a, ![t].audio = audio[a]]
        BY <2>2, <1>13 DEF OnActive
      <4>2. audio[a] \in BOOLEAN
        BY <3>1 DEF TypeOK
      <4> HIDE DEF a
      <4> QED
        BY <3>1, <4>1, <4>2, LocalTypes
    <3>3. pc' \in [Threads -> Labels] /\ closer' \in Threads \cup {None}
      BY <2>2, <1>13, ThreadTypes, LabelsAre DEF OnActive
    <3>4. started' = [started EXCEPT ![a] = TRUE]
      BY <2>2, <1>13 DEF OnActive
    <3> HIDE DEF a
    <3> QED
      BY <3>1, <3>2, <3>3, <3>4, <1>13 DEF OnActive, TypeOK
  <2> QED
    BY <2>1, <2>2
<1>14. CASE OpenAudio(t)
  BY <1>14, <1>c, ThreadTypes DEF OpenAudio, TypeOK, OnCall
<1>15. CASE Cleanup(t)
  <2>1. local[t].id \in CallIds
    BY <1>15, <1>d DEF Cleanup
  <2>2. calls' \in [CallIds -> ActiveCalls \cup {None}]
    BY <2>1, <1>15 DEF Cleanup, TypeOK
  <2>3. CASE calls[local[t].id] = None
    BY <2>2, <2>3, <1>15, ThreadTypes, LabelsAre DEF Cleanup, TypeOK
  <2>4. CASE calls[local[t].id] # None
    <3> DEFINE a == calls[local[t].id]
    <3>1. local' \in [Threads -> Locals]
      <4>1. a \in ActiveCalls /\ local' = [local EXCEPT ![t].ac = a]
        BY <2>1, <2>4, <1>15 DEF Cleanup, TypeOK
      <4> HIDE DEF a
      <4> QED
        BY <4>1, LocalTypes
    <3>2. pc' \in [Threads -> Labels] /\ closer' \in Threads \cup {None}
      BY <2>4, <1>15, ThreadTypes, LabelsAre DEF Cleanup
    <3> QED
      BY <2>2, <3>1, <3>2, <1>15 DEF Cleanup, TypeOK
  <2> QED
    BY <2>3, <2>4
<1>16. CASE Release(t)
  <2>1. local[t].ac \in ActiveCalls
    BY <1>16, <1>c DEF Release, OnCall
  <2>2. /\ sink' \in [ActiveCalls -> {"none", "open", "closed"}]
        /\ open' \in SUBSET Bridges
    BY <2>1, <1>16 DEF Release, CloseBridge, TypeOK
  <2>3. pending' \in [Kinds \X ActiveCalls -> Nat]
    BY <2>1, <1>16, <1>e DEF Release
  <2> QED
    BY <2>2, <2>3, <1>16, ThreadTypes, LabelsAre DEF Release, TypeOK
<1>17. CASE ShutdownNext(t)
  <2>1. PICK i \in local[t].ids :
          /\ local' = [local EXCEPT ![t].ids = @ \ {i}, ![t].id = i, ![t].ac = calls[i]]
          /\ Goto(t, IF calls[i] = None THEN "cleanup" ELSE "end")
    BY <1>17 DEF ShutdownNext
  <2>2. i \in CallIds /\ calls[i] \in ActiveCalls \cup {None}
    BY <1>b DEF TypeOK
  <2>3. local' \in [Threads -> Locals]
    <3> DEFINE s == local[t].ids \ {i}
               a == calls[i]
    <3>1. /\ s \in SUBSET CallIds /\ a \in ActiveCalls \cup {None}
          /\ local' = [local EXCEPT ![t].ids = s, ![t].id = i, ![t].ac = a]
      BY <2>1, <2>2, <1>b DEF TypeOK
    <3> HIDE DEF s, a
    <3> QED
      BY <3>1, <2>2, LocalTypes
  <2>4. pc' \in [Threads -> Labels] /\ closer' \in Threads \cup {None}
    BY <2>1, ThreadTypes, LabelsAre
  <2> QED
    BY <2>3, <2>4, <1>17 DEF ShutdownNext, TypeOK
<1>18. CASE ShutdownReturns(t)
  BY <1>18, ThreadTypes DEF ShutdownReturns, TypeOK
<1> QED
  BY <1>1, <1>2, <1>3, <1>4, <1>5, <1>6, <1>7, <1>8, <1>9, <1>10, <1>11, <1>12,
     <1>13, <1>14, <1>15, <1>16, <1>17, <1>18 DEF Step

\* So do the steps that start a goroutine, and those of the media.
LEMMA OtherType ==
  ASSUME IInv,
         \/ \E t \in Threads : Arrive(t)
         \/ \E t \in Threads, kind \in Kinds, a \in ActiveCalls : Take(t, kind, a)
         \/ \E a \in ActiveCalls : MediaConnected(a) \/ IceFails(a)
  PROVE  TypeOK'
<1> USE CallControllerAssumption DEF IInv, callVars, webVars, thrVars
<1>a. TypeOK /\ Created
  OBVIOUS
<1>1. ASSUME NEW t \in Threads, StartCall(t) \/ OnOffer(t)
      PROVE  TypeOK'
  <2>1. PICK i \in CallIds : local' = [local EXCEPT ![t].id = i]
    BY <1>1 DEF StartCall, OnOffer
  <2>2. local' \in [Threads -> Locals]
    BY <2>1, LocalTypes
  <2>3. pc' \in [Threads -> Labels] /\ closer' \in Threads \cup {None}
    BY <1>1, ThreadTypes, LabelsAre DEF StartCall, OnOffer
  <2> QED
    BY <2>2, <2>3, <1>1 DEF StartCall, OnOffer, TypeOK
<1>2. ASSUME NEW t \in Threads, Fetch(t)
      PROVE  TypeOK'
  <2>1. PICK i \in Mapped, request \in Requests :
          /\ local' = [local EXCEPT ![t].id = i, ![t].ac = calls[i]]
          /\ Goto(t, request)
    BY <1>2 DEF Fetch
  <2>2. i \in CallIds /\ calls[i] \in ActiveCalls
    BY DEF Mapped, TypeOK
  <2>3. local' \in [Threads -> Locals]
    BY <2>1, <2>2, LocalTypes
  <2>4. pc' \in [Threads -> Labels] /\ closer' \in Threads \cup {None}
    BY <2>1, ThreadTypes, LabelsAre
  <2> QED
    BY <2>3, <2>4, <1>2 DEF Fetch, TypeOK
<1>3. ASSUME NEW t \in Threads, Shutdown(t)
      PROVE  TypeOK'
  <2>1. local' \in [Threads -> Locals]
    BY <1>3, LocalTypes DEF Shutdown, Mapped
  <2>2. pc' \in [Threads -> Labels]
    BY <1>3, LabelsAre DEF Shutdown, TypeOK
  <2> QED
    BY <2>1, <2>2, <1>3 DEF Shutdown, TypeOK
<1>4. ASSUME NEW t \in Threads, NEW kind \in Kinds, NEW a \in ActiveCalls, Take(t, kind, a)
      PROVE  TypeOK'
  <2>1. pending' \in [Kinds \X ActiveCalls -> Nat]
    <3> DEFINE x == <<kind, a>>
    <3>1. x \in Kinds \X ActiveCalls
      OBVIOUS
    <3>2. pending[x] > 0 /\ pending' = [pending EXCEPT ![x] = @ - 1]
      BY <1>4 DEF Take
    <3> HIDE DEF x
    <3> QED
      BY <3>1, <3>2 DEF TypeOK
  <2>2. CASE UNCHANGED thrVars
    BY <2>1, <2>2, <1>4 DEF Take, TypeOK
  <2>3. CASE ~ UNCHANGED thrVars
    <3>1. id[a] \in CallIds
      BY <1>4 DEF Take, Created, TypeOK
    <3> DEFINE i == id[a]
               c == IF kind = "end" THEN calls[id[a]] ELSE None
    <3>2. i \in CallIds /\ c \in ActiveCalls \cup {None}
      BY <3>1 DEF TypeOK
    <3>3. local' = [local EXCEPT ![t].id = i, ![t].ac = c] /\ Goto(t, kind)
      BY <2>3, <1>4 DEF Take
    <3>4. local' \in [Threads -> Locals]
      <4> HIDE DEF i, c
      <4> QED
        BY <3>2, <3>3, LocalTypes
    <3>5. pc' \in [Threads -> Labels] /\ closer' \in Threads \cup {None}
      BY <3>3, ThreadTypes, LabelsAre
    <3> QED
      BY <2>1, <3>4, <3>5, <1>4 DEF Take, TypeOK
  <2> QED
    BY <2>2, <2>3
<1>5. ASSUME NEW a \in ActiveCalls, MediaConnected(a) \/ IceFails(a)
      PROVE  TypeOK'
  <2>1. pending' \in [Kinds \X ActiveCalls -> Nat]
    BY <1>5, Starts, Spawns, LabelsAre DEF MediaConnected, IceFails, TypeOK
  <2> QED
    BY <2>1, <1>5 DEF MediaConnected, IceFails, TypeOK
<1> QED
  BY <1>1, <1>2, <1>3, <1>4, <1>5 DEF Arrive

-----------------------------------------------------------------------------
(* The locals of the goroutines and the call ids of the activeCalls.       *)

\* Where Finish and Return leave the goroutine.
LEMMA Leaves ==
  ASSUME TypeOK, NEW t \in Threads
  PROVE  /\ \A l : Goto(t, l) => pc'[t] = l
         /\ Finish(t) => pc'[t] = "idle" /\ local'[t] = NoLocal
         /\ \A l : Return(t, l) =>
              \/ pc'[t] = "idle" /\ local'[t] = NoLocal
              \/ pc'[t] = l /\ local'[t] = local[t]
BY DEF TypeOK, Goto, Finish, Return

\* A step of a goroutine touches no other goroutine.
LEMMA OthersStay ==
  ASSUME TypeOK, NEW t \in Threads,
         Step(t) \/ Arrive(t) \/ (\E kind \in Kinds, a \in ActiveCalls : Take(t, kind, a)),
         NEW u \in Threads, u # t
  PROVE  pc'[u] = pc[u] /\ local'[u] = local[u]
<1> USE DEF TypeOK
<1>1. Finish(t) => pc'[u] = pc[u] /\ local'[u] = local[u]
  BY DEF Finish, Goto
<1>2. \A l : Goto(t, l) => pc'[u] = pc[u]
  BY DEF Goto
<1>3. \A l : Return(t, l) => pc'[u] = pc[u] /\ local'[u] = local[u]
  BY DEF Return, Finish, Goto
<1>4. CASE Arrive(t)
  BY <1>2, <1>4 DEF Arrive, StartCall, OnOffer, Fetch, Shutdown, thrVars
<1>5. ASSUME NEW kind \in Kinds, NEW a \in ActiveCalls, Take(t, kind, a)
      PROVE  pc'[u] = pc[u] /\ local'[u] = local[u]
  BY <1>2, <1>5 DEF Take, thrVars
<1>6. CASE \/ CreateCall(t) \/ HandleCallOffer(t) \/ ManagerStartCall(t)
           \/ StartCallReturns(t) \/ AcceptCall(t) \/ HandleCallAccept(t)
  BY <1>1, <1>2, <1>6 DEF CreateCall, HandleCallOffer, ManagerStartCall, StartCallReturns,
     AcceptCall, HandleCallAccept
<1>7. CASE \/ EndCall(t) \/ EndCallReturns(t) \/ OnEnded(t) \/ HandleCallTerminate(t)
           \/ HandleCallTerminateReturns(t)
  BY <1>1, <1>2, <1>3, <1>7 DEF EndCall, EndCallReturns, OnEnded, HandleCallTerminate,
     HandleCallTerminateReturns, Ends
<1>8. CASE NewBridge(t) \/ WebRTC(t) \/ OnActive(t) \/ OpenAudio(t)
  BY <1>1, <1>2, <1>8 DEF NewBridge, WebRTC, OnActive, OpenAudio
<1>9. CASE Cleanup(t) \/ Release(t) \/ ShutdownNext(t) \/ ShutdownReturns(t)
  BY <1>1, <1>2, <1>3, <1>9 DEF Cleanup, Release, ShutdownNext, ShutdownReturns
<1> QED
  BY <1>4, <1>5, <1>6, <1>7, <1>8, <1>9 DEF Step

\* An activeCall keeps the call id it was created with.
LEMMA IdsStay ==
  ASSUME TypeOK, Next, NEW a \in ActiveCalls, id[a] # None
  PROVE  id'[a] = id[a]
<1> USE DEF callVars
<1>1. ASSUME NEW t \in Threads, CreateCall(t)
      PROVE  id'[a] = id[a]
  BY <1>1 DEF CreateCall, TypeOK
<1>2. ASSUME NEW t \in Threads, Arrive(t)
      PROVE  id' = id
  BY <1>2 DEF Arrive, StartCall, OnOffer, Fetch, Shutdown
<1>3. ASSUME NEW t \in Threads, Step(t), ~ CreateCall(t)
      PROVE  id' = id
  BY <1>3 DEF Step, HandleCallOffer, ManagerStartCall, StartCallReturns, AcceptCall,
     HandleCallAccept, EndCall, EndCallReturns, OnEnded, HandleCallTerminate,
     HandleCallTerminateReturns, Ends, NewBridge, WebRTC, OnActive, OpenAudio, Cleanup,
     Release, ShutdownNext, ShutdownReturns
<1>4. ASSUME NEW t \in Threads, NEW kind \in Kinds, NEW c \in ActiveCalls, Take(t, kind, c)
      PROVE  id' = id
  BY <1>4 DEF Take
<1>5. ASSUME NEW c \in ActiveCalls, MediaConnected(c) \/ IceFails(c)
      PROVE  id' = id
  BY <1>5 DEF MediaConnected, IceFails
<1> QED
  BY <1>1, <1>2, <1>3, <1>4, <1>5 DEF Next

\* A goroutine that has gone on has the locals its label needs.
LEMMA StepFits ==
  ASSUME IInv, TypeOK', NEW t \in Threads, Step(t)
  PROVE  Fits(t)'
<1> USE CallControllerAssumption DEF IInv
<1>a. TypeOK /\ LocalsFit /\ Created
  OBVIOUS
<1>b. /\ local[t].id \in CallIds \cup {None} /\ local[t].ac \in ActiveCalls \cup {None}
      /\ local[t].ids \in SUBSET CallIds
      /\ local'[t].ac \in ActiveCalls \cup {None}
  BY LocalTypes DEF Locals, TypeOK
<1>c. ASSUME NEW a \in ActiveCalls, id[a] # None
      PROVE  id'[a] # None
  BY <1>c, IdsStay DEF Next
<1>d. pc'[t] = "idle" /\ local'[t] = NoLocal => Fits(t)'
  BY DEF Fits, NoLocal, OnCall, Requests
<1>e. /\ pc[t] \notin {"idle", "shutdown"} => local[t].id # None
      /\ pc[t] \in OnCall => local[t].ac # None
      /\ local[t].ac # None => id'[local[t].ac] # None
  BY <1>b, <1>c DEF LocalsFit, Fits
<1>1. CASE CreateCall(t)
  <2>1. PICK a \in ActiveCalls :
          id' = [id EXCEPT ![a] = local[t].id] /\ local' = [local EXCEPT ![t].ac = a]
    BY <1>1 DEF CreateCall
  <2>2. local[t].id # None
    BY <1>1, <1>e DEF CreateCall
  <2>3. /\ local'[t].id = local[t].id /\ local'[t].ac = a
        /\ id'[a] = local[t].id
    BY <2>1, <1>b DEF TypeOK, Locals
  <2> QED
    BY <2>2, <2>3 DEF Fits
<1>2. CASE Finish(t)
  BY <1>2, <1>d, Leaves
<1>3. CASE \/ ManagerStartCall(t) \/ (StartCallReturns(t) /\ ~ Finish(t))
           \/ EndCall(t) \/ HandleCallTerminate(t)
  <2>1. /\ pc[t] \notin {"idle", "shutdown"} /\ pc[t] \in OnCall
        /\ pc'[t] \in {"query", "cleanup", "on_ended"} /\ local' = local
    BY <1>3, Leaves DEF ManagerStartCall, StartCallReturns, EndCall, HandleCallTerminate, Ends,
       OnCall, Requests
  <2> QED
    BY <2>1, <1>e DEF Fits
<1>4. CASE EndCallReturns(t) \/ OnEnded(t) \/ Release(t)
  <2>1. /\ pc[t] \notin {"idle", "shutdown"}
        /\ \/ pc'[t] = "idle" /\ local'[t] = NoLocal
           \/ pc'[t] \in {"cleanup", "shutdown"} /\ local'[t] = local[t]
    BY <1>4, Leaves DEF EndCallReturns, OnEnded, Release
  <2>2. CASE pc'[t] \in {"cleanup", "shutdown"} /\ local'[t] = local[t]
    BY <2>1, <2>2, <1>e DEF Fits, OnCall, Requests
  <2> QED
    BY <2>1, <2>2, <1>d
<1>5. CASE NewBridge(t) /\ ~ Finish(t)
  <2>1. pc[t] = "webrtc" /\ pc'[t] = "install"
    BY <1>5, Leaves DEF NewBridge
  <2>2. local'[t].id = local[t].id /\ local'[t].ac = local[t].ac
    BY <1>5 DEF NewBridge, TypeOK, Locals
  <2> QED
    BY <2>1, <2>2, <1>e DEF Fits, OnCall, Requests
<1>6. CASE OnActive(t) /\ ~ Finish(t)
  <2> DEFINE a == calls[local[t].id]
  <2>1. /\ a # None /\ pc[t] = "on_active" /\ pc'[t] = "sink"
        /\ local' = [local EXCEPT ![t].ac = a, ![t].audio = audio[a]]
    BY <1>6, Leaves DEF OnActive
  <2>2. local[t].id \in CallIds
    BY <2>1, <1>b, <1>e
  <2>3. a \in ActiveCalls /\ id'[a] # None
    BY <2>1, <2>2, <1>c DEF Created, TypeOK
  <2>4. local'[t].id = local[t].id /\ local'[t].ac = a
    BY <2>1 DEF TypeOK, Locals
  <2> QED
    BY <2>1, <2>2, <2>3, <2>4 DEF Fits
<1>7. CASE Cleanup(t)
  <2> DEFINE a == calls[local[t].id]
  <2>1. pc[t] = "cleanup"
    BY <1>7 DEF Cleanup
  <2>2. local[t].id \in CallIds
    BY <2>1, <1>b, <1>e
  <2>3. CASE a = None
    <3>1. \/ pc'[t] = "idle" /\ local'[t] = NoLocal
          \/ pc'[t] = "shutdown" /\ local'[t] = local[t]
      BY <2>3, <1>7, Leaves DEF Cleanup
    <3> QED
      BY <3>1, <1>d, <1>e DEF Fits, OnCall, Requests
  <2>4. CASE a # None
    <3>1. pc'[t] = "release" /\ local' = [local EXCEPT ![t].ac = a]
      BY <2>4, <1>7, Leaves DEF Cleanup
    <3>2. a \in ActiveCalls /\ id'[a] # None
      BY <2>2, <2>4, <1>c DEF Created, TypeOK
    <3>3. local'[t].id = local[t].id /\ local'[t].ac = a
      BY <3>1 DEF TypeOK, Locals
    <3> QED
      BY <2>2, <3>1, <3>2, <3>3 DEF Fits
  <2> QED
    BY <2>3, <2>4
<1>8. CASE ShutdownNext(t)
  <2>1. PICK i \in local[t].ids :
          /\ local' = [local EXCEPT ![t].ids = @ \ {i}, ![t].id = i, ![t].ac = calls[i]]
          /\ Goto(t, IF calls[i] = None THEN "cleanup" ELSE "end")
    BY <1>8 DEF ShutdownNext
  <2>2. i \in CallIds
    BY <1>b
  <2>3. local'[t].id = i /\ local'[t].ac = calls[i]
    BY <2>1 DEF TypeOK, Locals
  <2>4. pc'[t] = IF calls[i] = None THEN "cleanup" ELSE "end"
    BY <2>1, Leaves
  <2>5. calls[i] # None => calls[i] \in ActiveCalls /\ id'[calls[i]] # None
    BY <2>2, <1>c DEF Created, TypeOK
  <2> QED
    BY <2>2, <2>3, <2>4, <2>5 DEF Fits, OnCall, Requests
<1> QED
  BY <1>1, <1>2, <1>3, <1>4, <1>5, <1>6, <1>7, <1>8 DEF Step, HandleCallOffer, AcceptCall,
     HandleCallAccept, StartCallReturns, HandleCallTerminateReturns, NewBridge, WebRTC, OnActive,
     OpenAudio, ShutdownReturns

\* So has one that has just started.
LEMMA StartFits ==
  ASSUME IInv, TypeOK', NEW t \in Threads,
         Arrive(t) \/ (\E kind \in Kinds, a \in ActiveCalls : Take(t, kind, a))
  PROVE  Fits(t)'
<1> USE CallControllerAssumption DEF IInv, callVars, thrVars
<1>a. TypeOK /\ LocalsFit /\ Created
  OBVIOUS
<1>b. local[t].ac \in ActiveCalls \cup {None}
  BY LocalTypes DEF Locals
<1>c. /\ pc[t] \notin {"idle", "shutdown"} => local[t].id # None
      /\ pc[t] \in OnCall => local[t].ac # None
      /\ local[t].ac # None => id[local[t].ac] # None
  BY DEF LocalsFit, Fits
<1>1. CASE StartCall(t) \/ OnOffer(t)
  <2>1. PICK i \in CallIds : local' = [local EXCEPT ![t].id = i]
    BY <1>1 DEF StartCall, OnOffer
  <2>2. local'[t].id = i /\ local'[t].ac = local[t].ac /\ id' = id
    BY <1>1, <2>1 DEF StartCall, OnOffer, TypeOK, Locals
  <2>3. pc'[t] \in {"create_out", "create_in"}
    BY <1>1, Leaves DEF StartCall, OnOffer
  <2> QED
    BY <2>2, <2>3, <1>c DEF Fits, OnCall, Requests
<1>2. CASE Fetch(t)
  <2>1. PICK i \in Mapped : local' = [local EXCEPT ![t].id = i, ![t].ac = calls[i]]
    BY <1>2 DEF Fetch
  <2>2. i \in CallIds /\ calls[i] # None /\ id[calls[i]] = i
    BY DEF Mapped, Created
  <2>3. local'[t].id = i /\ local'[t].ac = calls[i] /\ id' = id
    BY <1>2, <2>1 DEF Fetch, TypeOK, Locals
  <2> QED
    BY <2>2, <2>3 DEF Fits
<1>3. CASE Shutdown(t)
  <2>1. pc'[t] = "shutdown" /\ local'[t].ac = local[t].ac /\ id' = id
    BY <1>3 DEF Shutdown, TypeOK, Locals
  <2> QED
    BY <2>1, <1>c DEF Fits, OnCall, Requests
<1>4. ASSUME NEW kind \in Kinds, NEW a \in ActiveCalls, Take(t, kind, a)
      PROVE  Fits(t)'
  <2>1. CASE UNCHANGED thrVars
    BY <2>1, <1>4, <1>c DEF Take, Fits
  <2>2. CASE ~ UNCHANGED thrVars
    <3> DEFINE c == IF kind = "end" THEN calls[id[a]] ELSE None
    <3>1. /\ local' = [local EXCEPT ![t].id = id[a], ![t].ac = c] /\ pc'[t] = kind
          /\ kind = "end" => calls[id[a]] # None
      BY <2>2, <1>4, Leaves DEF Take
    <3>2. id[a] \in CallIds
      BY <1>4 DEF Take, Created, TypeOK
    <3>3. local'[t].id = id[a] /\ local'[t].ac = c /\ id' = id
      <4>1. id' = id
        BY <1>4 DEF Take
      <4> HIDE DEF c
      <4> QED
        BY <3>1, <4>1 DEF TypeOK, Locals
    <3>4. kind = "end" => c # None /\ id[c] # None
      BY <3>1, <3>2 DEF Created
    <3>5. kind # "end" => c = None /\ kind \notin OnCall
      BY DEF Kinds, OnCall, Requests
    <3> QED
      BY <3>1, <3>2, <3>3, <3>4, <3>5 DEF Fits
  <2> QED
    BY <2>1, <2>2
<1> QED
  BY <1>1, <1>2, <1>3, <1>4 DEF Arrive

\* Every step keeps the locals of every goroutine right.
LEMMA NextLocals ==
  ASSUME IInv, TypeOK', Next
  PROVE  LocalsFit'
<1> USE DEF IInv
<1>a. ASSUME NEW a \in ActiveCalls, id[a] # None
      PROVE  id'[a] # None
  BY <1>a, IdsStay
<1>b. ASSUME NEW u \in Threads, pc'[u] = pc[u], local'[u] = local[u]
      PROVE  Fits(u)'
  <2>1. local[u].ac \in ActiveCalls \cup {None}
    BY LocalTypes DEF Locals
  <2> QED
    BY <2>1, <1>a, <1>b DEF LocalsFit, Fits
<1>1. ASSUME NEW t \in Threads,
             Step(t) \/ Arrive(t) \/ (\E kind \in Kinds, a \in ActiveCalls : Take(t, kind, a))
      PROVE  LocalsFit'
  <2>1. Fits(t)'
    BY <1>1, StepFits, StartFits
  <2>2. ASSUME NEW u \in Threads, u # t
        PROVE  Fits(u)'
    BY <1>1, <2>2, <1>b, OthersStay
  <2> QED
    BY <2>1, <2>2 DEF LocalsFit
<1>2. ASSUME NEW a \in ActiveCalls, MediaConnected(a) \/ IceFails(a)
      PROVE  LocalsFit'
  BY <1>2, <1>b DEF LocalsFit, MediaConnected, IceFails, thrVars
<1> QED
  BY <1>1, <1>2 DEF Next

\* Which actions change what the invariants are about.
LEMMA Writers ==
  ASSUME Next
  PROVE  /\ \/ UNCHANGED state
            \/ \E t \in Threads : \/ HandleCallOffer(t) \/ ManagerStartCall(t)
                                  \/ EndCall(t) \/ HandleCallTerminate(t)
            \/ \E a \in ActiveCalls : MediaConnected(a)
         /\ UNCHANGED calls \/ \E t \in Threads : CreateCall(t) \/ Cleanup(t)
         /\ UNCHANGED bridge \/ \E t \in Threads : WebRTC(t)
         /\ UNCHANGED open \/ \E t \in Threads : NewBridge(t) \/ WebRTC(t) \/ Release(t)
         /\ \/ UNCHANGED pending
            \/ \E t \in Threads : \/ StartCallReturns(t) \/ HandleCallAccept(t)
                                  \/ EndCall(t) \/ HandleCallTerminate(t) \/ OnEnded(t)
                                  \/ WebRTC(t) \/ Release(t)
            \/ \E a \in ActiveCalls : MediaConnected(a) \/ IceFails(a)
            \/ \E t \in Threads, kind \in Kinds, a \in ActiveCalls : Take(t, kind, a)
<1> USE DEF callVars, webVars
<1>1. ASSUME NEW t \in Threads, Arrive(t)
      PROVE  UNCHANGED <<state, calls, bridge, open, pending>>
  BY <1>1 DEF Arrive, StartCall, OnOffer, Fetch, Shutdown
<1>2. ASSUME NEW t \in Threads, NEW kind \in Kinds, NEW a \in ActiveCalls, Take(t, kind, a)
      PROVE  UNCHANGED <<state, calls, bridge, open>>
  BY <1>2 DEF Take
<1>3. ASSUME NEW a \in ActiveCalls, MediaConnected(a) \/ IceFails(a)
      PROVE  UNCHANGED <<calls, bridge, open>> /\ (MediaConnected(a) \/ UNCHANGED state)
  BY <1>3 DEF MediaConnected, IceFails
<1>4. ASSUME NEW t \in Threads, Step(t)
      PROVE  /\ \/ UNCHANGED state \/ HandleCallOffer(t) \/ ManagerStartCall(t)
                \/ EndCall(t) \/ HandleCallTerminate(t)
             /\ UNCHANGED calls \/ CreateCall(t) \/ Cleanup(t)
             /\ UNCHANGED bridge \/ WebRTC(t)
             /\ UNCHANGED open \/ NewBridge(t) \/ WebRTC(t) \/ Release(t)
             /\ \/ UNCHANGED pending \/ StartCallReturns(t) \/ HandleCallAccept(t)
                \/ EndCall(t) \/ HandleCallTerminate(t) \/ OnEnded(t)
                \/ WebRTC(t) \/ Release(t)
  BY <1>4 DEF Step, CreateCall, HandleCallOffer, ManagerStartCall, StartCallReturns, AcceptCall,
     HandleCallAccept, EndCall, EndCallReturns, OnEnded, HandleCallTerminate,
     HandleCallTerminateReturns, Ends, NewBridge, WebRTC, OnActive, OpenAudio, Cleanup, Release,
     ShutdownNext, ShutdownReturns
<1>5. CASE \E t \in Threads : Arrive(t)
  BY <1>1, <1>5
<1>6. CASE \E t \in Threads : Step(t)
  BY <1>4, <1>6
<1>7. CASE \E t \in Threads, kind \in Kinds, a \in ActiveCalls : Take(t, kind, a)
  BY <1>2, <1>7
<1>8. CASE \E a \in ActiveCalls : MediaConnected(a) \/ IceFails(a)
  BY <1>3, <1>8
<1> QED
  BY <1>5, <1>6, <1>7, <1>8 DEF Next

\* Every step keeps what belongs to an activeCall tied to a created one.
LEMMA NextCreated ==
  ASSUME IInv, TypeOK', Next
  PROVE  Created'
<1> USE CallControllerAssumption DEF IInv
<1>a. TypeOK /\ LocalsFit /\ Created
  OBVIOUS
<1>b. ASSUME NEW a \in ActiveCalls, id[a] # None
      PROVE  id'[a] = id[a]
  BY <1>b, IdsStay
<1>c. ASSUME NEW t \in Threads
      PROVE  /\ pc[t] \notin {"idle", "shutdown"} => local[t].id \in CallIds
             /\ pc[t] \in OnCall => local[t].ac \in ActiveCalls /\ id[local[t].ac] # None
  BY LocalTypes DEF Locals, LocalsFit, Fits
<1>1. \A a \in ActiveCalls : state'[a] # "none" => id'[a] # None
  <2>1. ASSUME NEW t \in Threads, \/ HandleCallOffer(t) \/ ManagerStartCall(t)
                                  \/ EndCall(t) \/ HandleCallTerminate(t)
        PROVE  \A a \in ActiveCalls : state'[a] # "none" => id'[a] # None
    <3>1. /\ pc[t] \in OnCall
          /\ \E s : state' = [state EXCEPT ![local[t].ac] = s]
      BY <2>1 DEF HandleCallOffer, ManagerStartCall, EndCall, HandleCallTerminate, Ends,
         OnCall, Requests
    <3> QED
      BY <3>1, <1>b, <1>c DEF Created, TypeOK
  <2>2. ASSUME NEW a \in ActiveCalls, MediaConnected(a)
        PROVE  \A c \in ActiveCalls : state'[c] # "none" => id'[c] # None
    BY <2>2, <1>b DEF MediaConnected, Created, TypeOK
  <2>3. CASE UNCHANGED state
    BY <2>3, <1>b DEF Created
  <2> QED
    BY <2>1, <2>2, <2>3, Writers
<1>2. \A a \in ActiveCalls : bridge'[a] # None => id'[a] # None
  <2>1. ASSUME NEW t \in Threads, WebRTC(t), NEW a \in ActiveCalls, bridge'[a] # None
        PROVE  id[a] # None
    <3>1. a # local[t].ac => bridge'[a] = bridge[a]
      BY <2>1 DEF WebRTC, TypeOK
    <3> QED
      BY <3>1, <2>1, <1>c DEF WebRTC, OnCall, Created
  <2> QED
    BY <2>1, <1>b, Writers DEF Created
<1>3. \A kind \in Kinds, a \in ActiveCalls : pending'[<<kind, a>>] > 0 => id'[a] # None
  <2> SUFFICES ASSUME NEW k \in Kinds, NEW c \in ActiveCalls, pending'[<<k, c>>] > 0
               PROVE  id[c] # None
    BY <1>b
  <2>1. ASSUME NEW kind \in Kinds, NEW a \in ActiveCalls, Spawn(kind, a), id[a] # None
        PROVE  id[c] # None
    <3>1. pending[<<k, c>>] > 0 \/ c = a
      BY <2>1, Spawns
    <3> QED
      BY <3>1, <2>1 DEF Created
  <2>2. CASE UNCHANGED pending
    BY <2>2 DEF Created
  <2>3. ASSUME NEW a \in ActiveCalls, Emit(a) \/ (\E b : MayEnd(a, b)), id[a] # None
        PROVE  id[c] # None
    BY <2>1, <2>2, <2>3, Starts, LabelsAre
  <2>4. ASSUME NEW t \in Threads, \/ StartCallReturns(t) \/ HandleCallAccept(t) \/ EndCall(t)
                                  \/ HandleCallTerminate(t) \/ WebRTC(t) \/ Release(t)
        PROVE  id[c] # None
    <3>1. pc[t] \in OnCall
      BY <2>4 DEF StartCallReturns, HandleCallAccept, EndCall, HandleCallTerminate, WebRTC,
         Release, OnCall, Requests
    <3>2. \/ Emit(local[t].ac) \/ UNCHANGED pending
          \/ \E b : MayEnd(local[t].ac, b)
      BY <2>4 DEF StartCallReturns, HandleCallAccept, EndCall, HandleCallTerminate, Ends,
         WebRTC, Release
    <3> QED
      BY <3>1, <3>2, <2>2, <2>3, <1>c
  <2>5. ASSUME NEW t \in Threads, OnEnded(t)
        PROVE  id[c] # None
    BY <2>5, <2>1, <1>c, LabelsAre DEF OnEnded, OnCall
  <2>6. ASSUME NEW a \in ActiveCalls, MediaConnected(a) \/ IceFails(a)
        PROVE  id[c] # None
    <3>1. id[a] # None
      BY <2>6 DEF MediaConnected, IceFails, Created, TypeOK
    <3>2. Emit(a) \/ Spawn("end", a)
      BY <2>6 DEF MediaConnected, IceFails
    <3> QED
      BY <3>1, <3>2, <2>1, <2>3, LabelsAre
  <2>7. ASSUME NEW t \in Threads, NEW kind \in Kinds, NEW a \in ActiveCalls, Take(t, kind, a)
        PROVE  id[c] # None
    <3> DEFINE x == <<kind, a>>
               y == <<k, c>>
    <3>1. x \in Kinds \X ActiveCalls /\ y \in Kinds \X ActiveCalls
      OBVIOUS
    <3>2. pending' = [pending EXCEPT ![x] = @ - 1]
      BY <2>7 DEF Take
    <3>3. pending[y] > 0
      <4> HIDE DEF x
      <4>1. pending'[y] > 0
        OBVIOUS
      <4> HIDE DEF y
      <4> QED
        BY <3>1, <3>2, <4>1 DEF TypeOK
    <3> QED
      BY <3>3 DEF Created
  <2> QED
    BY <2>2, <2>4, <2>5, <2>6, <2>7, Writers
<1>4. \A i \in CallIds : calls'[i] # None => id'[calls'[i]] = i
  <2> SUFFICES ASSUME NEW i \in CallIds, calls'[i] # None
               PROVE  id'[calls'[i]] = i
    OBVIOUS
  <2>1. calls'[i] = calls[i] => id'[calls'[i]] = i
    BY <1>b DEF Created, TypeOK
  <2>2. ASSUME NEW t \in Threads, CreateCall(t)
        PROVE  id'[calls'[i]] = i
    <3>1. PICK a \in ActiveCalls : /\ id' = [id EXCEPT ![a] = local[t].id]
                                   /\ calls' = [calls EXCEPT ![local[t].id] = a]
      BY <2>2 DEF CreateCall
    <3>2. local[t].id \in CallIds
      BY <2>2, <1>c DEF CreateCall
    <3>3. CASE i = local[t].id
      BY <3>1, <3>2, <3>3 DEF TypeOK
    <3> QED
      BY <3>1, <3>3, <2>1 DEF TypeOK
  <2>3. ASSUME NEW t \in Threads, Cleanup(t)
        PROVE  calls'[i] = calls[i]
    BY <2>3, <1>c DEF Cleanup, TypeOK
  <2> QED
    BY <2>1, <2>2, <2>3, Writers
<1> QED
  BY <1>1, <1>2, <1>3, <1>4 DEF Created

-----------------------------------------------------------------------------
(* The properties.                                                         *)

\* What neither adds to the map nor to the goroutines about to do so keeps
\* the overshoot where it is.
LEMMA OvershootKept ==
  ASSUME IInv, Mapped' \subseteq Mapped, Creators' \subseteq Creators
  PROVE  OvershootIsBounded'
<1> USE CallControllerAssumption DEF IInv
<1>1. IsFiniteSet(Mapped) /\ IsFiniteSet(Creators) /\ IsFiniteSet(Threads)
  BY FS_Subset DEF Mapped, Creators
<1>2. /\ Cardinality(Mapped') <= Cardinality(Mapped)
      /\ Cardinality(Creators') <= Cardinality(Creators)
  BY <1>1, FS_Subset
<1>3. /\ Cardinality(Mapped) \in Nat /\ Cardinality(Creators) \in Nat
      /\ Cardinality(Mapped') \in Nat /\ Cardinality(Creators') \in Nat
      /\ Cardinality(Threads) \in Nat
  BY <1>1, FS_Subset, FS_CardinalityType
<1> QED
  BY <1>2, <1>3 DEF OvershootIsBounded

\* The limit is passed by no more than the calls being created at once: who
\* finds room counts as a creator from then on, and stops being one with the
\* call it inserts.
LEMMA NextOvershoot ==
  ASSUME IInv, TypeOK', Next
  PROVE  OvershootIsBounded'
<1> USE CallControllerAssumption DEF IInv
<1>a. TypeOK
  OBVIOUS
<1>b. IsFiniteSet(Mapped) /\ IsFiniteSet(Creators) /\ IsFiniteSet(Threads)
  BY FS_Subset DEF Mapped, Creators
<1>c. /\ Cardinality(Mapped) \in Nat /\ Cardinality(Creators) \in Nat
      /\ Cardinality(Threads) \in Nat
  BY <1>b, FS_CardinalityType
<1>1. ASSUME NEW t \in Threads, StartCall(t) \/ OnOffer(t)
      PROVE  OvershootIsBounded'
  <2>1. Cardinality(Mapped) <= MaxCalls - 1
    BY <1>1, <1>c DEF StartCall, OnOffer, HasRoom
  <2>2. Mapped' = Mapped
    BY <1>1 DEF StartCall, OnOffer, Mapped
  <2>3. Cardinality(Creators') \in Nat /\ Cardinality(Creators') <= Cardinality(Threads)
    BY <1>b, FS_Subset, FS_CardinalityType DEF Creators
  <2> QED
    BY <2>1, <2>2, <2>3, <1>c DEF OvershootIsBounded
<1>2. ASSUME NEW t \in Threads, CreateCall(t)
      PROVE  OvershootIsBounded'
  <2>1. t \in Creators /\ local[t].id \in CallIds
    BY <1>2, LocalTypes DEF CreateCall, Creators, LocalsFit, Fits, Locals
  <2>2. Creators' = Creators \ {t}
    <3>1. pc' = [pc EXCEPT ![t] = IF pc[t] = "create_out" THEN "offer_out" ELSE "offer_in"]
      BY <1>2 DEF CreateCall, Goto
    <3> QED
      BY <3>1 DEF Creators, TypeOK
  <2>3. Mapped' \subseteq Mapped \cup {local[t].id}
    BY <1>2, <2>1 DEF CreateCall, Mapped, TypeOK
  <2>4. Cardinality(Creators') = Cardinality(Creators) - 1
    BY <2>1, <2>2, <1>b, FS_RemoveElement
  <2>5. /\ Cardinality(Mapped') <= Cardinality(Mapped) + 1
        /\ Cardinality(Mapped') \in Nat
    <3>1. /\ IsFiniteSet(Mapped \cup {local[t].id})
          /\ Cardinality(Mapped \cup {local[t].id}) <= Cardinality(Mapped) + 1
      <4>1. /\ IsFiniteSet(Mapped \cup {local[t].id})
            /\ \/ Cardinality(Mapped \cup {local[t].id}) = Cardinality(Mapped)
               \/ Cardinality(Mapped \cup {local[t].id}) = Cardinality(Mapped) + 1
        BY <1>b, FS_AddElement
      <4> QED
        BY <4>1, <1>c
    <3>2. Cardinality(Mapped \cup {local[t].id}) \in Nat
      BY <3>1, FS_CardinalityType
    <3>3. /\ IsFiniteSet(Mapped')
          /\ Cardinality(Mapped') <= Cardinality(Mapped \cup {local[t].id})
      BY <2>3, <3>1, FS_Subset
    <3> QED
      BY <3>1, <3>2, <3>3, <1>c, FS_CardinalityType
  <2> QED
    BY <2>4, <2>5, <1>c DEF OvershootIsBounded
<1>3. ASSUME NEW t \in Threads, Cleanup(t)
      PROVE  Mapped' \subseteq Mapped
  BY <1>3 DEF Cleanup, Mapped, TypeOK
<1>4. ASSUME UNCHANGED calls
      PROVE  Mapped' = Mapped
  BY <1>4 DEF Mapped
<1>5. ASSUME NEW t \in Threads,
             Step(t) \/ Fetch(t) \/ Shutdown(t)
                \/ (\E kind \in Kinds, a \in ActiveCalls : Take(t, kind, a))
      PROVE  Creators' \subseteq Creators
  <2>1. ASSUME NEW u \in Threads, u # t
        PROVE  pc'[u] = pc[u]
    BY <1>5, <2>1, OthersStay DEF Arrive
  <2>2. pc'[t] \notin {"create_out", "create_in"} \/ pc'[t] = pc[t]
    <3>1. CASE Fetch(t) \/ Shutdown(t)
      <4>1. CASE Shutdown(t)
        BY <4>1 DEF Shutdown, TypeOK
      <4>2. CASE Fetch(t)
        <5>1. PICK request \in Requests : Goto(t, request)
          BY <4>2, Zenon DEF Fetch
        <5>2. pc'[t] = request
          BY <5>1, Leaves, Zenon
        <5> QED
          BY <5>1, <5>2 DEF Requests
      <4> QED
        BY <3>1, <4>1, <4>2, Zenon
    <3>2. ASSUME NEW kind \in Kinds, NEW a \in ActiveCalls, Take(t, kind, a)
          PROVE  pc'[t] \notin {"create_out", "create_in"} \/ pc'[t] = pc[t]
      BY <3>2, Leaves DEF Take, Kinds, thrVars
    <3>3. CASE \/ CreateCall(t) \/ HandleCallOffer(t) \/ ManagerStartCall(t)
               \/ StartCallReturns(t) \/ AcceptCall(t) \/ HandleCallAccept(t)
      BY <3>3, Leaves DEF CreateCall, HandleCallOffer, ManagerStartCall, StartCallReturns,
         AcceptCall, HandleCallAccept
    <3>4. CASE \/ EndCall(t) \/ EndCallReturns(t) \/ OnEnded(t) \/ HandleCallTerminate(t)
               \/ HandleCallTerminateReturns(t)
      BY <3>4, Leaves DEF EndCall, EndCallReturns, OnEnded, HandleCallTerminate,
         HandleCallTerminateReturns, Ends
    <3>5. CASE \/ NewBridge(t) \/ WebRTC(t) \/ OnActive(t) \/ OpenAudio(t) \/ Release(t)
               \/ ShutdownReturns(t)
      BY <3>5, Leaves DEF NewBridge, WebRTC, OnActive, OpenAudio, Release, ShutdownReturns
    <3>6. CASE Cleanup(t)
      BY <3>6, Leaves DEF Cleanup
    <3>7. CASE ShutdownNext(t)
      <4>1. \E l \in {"cleanup", "end"} : Goto(t, l)
        BY <3>7 DEF ShutdownNext
      <4> QED
        BY <4>1, Leaves
    <3> QED
      BY <3>1, <3>2, <3>3, <3>4, <3>5, <3>6, <3>7, <1>5 DEF Step
  <2> QED
    BY <2>1, <2>2 DEF Creators
<1>6. ASSUME NEW a \in ActiveCalls, MediaConnected(a) \/ IceFails(a)
      PROVE  Creators' = Creators
  BY <1>6 DEF MediaConnected, IceFails, thrVars, Creators
<1>7. CASE \E t \in Threads : StartCall(t) \/ OnOffer(t) \/ CreateCall(t)
  BY <1>1, <1>2, <1>7
<1>8. CASE ~ \E t \in Threads : StartCall(t) \/ OnOffer(t) \/ CreateCall(t)
  <2>1. Mapped' \subseteq Mapped
    BY <1>3, <1>4, <1>8, Writers
  <2>2. Creators' \subseteq Creators
    BY <1>5, <1>6, <1>8 DEF Next, Arrive
  <2> QED
    BY <2>1, <2>2, OvershootKept
<1> QED
  BY <1>7, <1>8

\* Who releases an activeCall took it out of the map, alone, and it does not
\* come back.
LEMMA NextReleases ==
  ASSUME IInv, TypeOK', Next
  PROVE  OneCleanupReleases'
<1> USE CallControllerAssumption DEF IInv
<1>a. TypeOK /\ LocalsFit /\ Created /\ OneCleanupReleases
  OBVIOUS
<1>b. ASSUME NEW t \in Threads, pc[t] = "release"
      PROVE  local[t].ac \in ActiveCalls /\ id[local[t].ac] # None
  BY <1>b, LocalTypes DEF Locals, LocalsFit, Fits, OnCall
\* A call that is being released is put under no id.
<1>1. ASSUME NEW t \in Threads, pc[t] = "release", NEW i \in CallIds
      PROVE  calls'[i] # local[t].ac
  <2>1. ASSUME NEW u \in Threads, CreateCall(u)
        PROVE  calls'[i] # local[t].ac
    BY <2>1, <1>1, <1>b DEF CreateCall, OneCleanupReleases, TypeOK
  <2>2. ASSUME NEW u \in Threads, Cleanup(u)
        PROVE  calls'[i] # local[t].ac
    BY <2>2, <1>1, <1>b DEF Cleanup, OneCleanupReleases, TypeOK
  <2> QED
    BY <2>1, <2>2, <1>1, Writers DEF OneCleanupReleases
\* A goroutine that comes to release a call found it in the map.
<1>2. ASSUME NEW t \in Threads, Cleanup(t), calls[local[t].id] # None
      PROVE  OneCleanupReleases'
  <2> DEFINE a == calls[local[t].id]
  <2>1. local[t].id \in CallIds
    BY <1>2, LocalTypes DEF Cleanup, LocalsFit, Fits, Locals
  <2>2. /\ a \in ActiveCalls /\ id[a] = local[t].id
        /\ pc' = [pc EXCEPT ![t] = "release"] /\ local' = [local EXCEPT ![t].ac = a]
        /\ calls' = [calls EXCEPT ![local[t].id] = None]
    BY <2>1, <1>2 DEF Cleanup, Goto, Created, TypeOK
  <2>3. local'[t].ac = a
    BY <2>2 DEF TypeOK, Locals
  <2>4. \A i \in CallIds : calls'[i] # a
    BY <2>1, <2>2 DEF Created, TypeOK
  <2>5. ASSUME NEW u \in Threads, u # t, pc'[u] = "release"
        PROVE  /\ pc[u] = "release" /\ local'[u].ac = local[u].ac
               /\ local[u].ac # a
    BY <2>5, <2>1, <2>2 DEF OneCleanupReleases, TypeOK
  <2> QED
    BY <2>3, <2>4, <2>5, <1>1 DEF OneCleanupReleases
<1>3. ASSUME \A t \in Threads : pc'[t] = "release" => pc[t] = "release" /\ local'[t] = local[t]
      PROVE  OneCleanupReleases'
  BY <1>1, <1>3 DEF OneCleanupReleases
<1>4. ASSUME NEW t \in Threads, Step(t), ~ (Cleanup(t) /\ calls[local[t].id] # None)
      PROVE  pc'[t] # "release"
  <2>1. CASE \/ CreateCall(t) \/ HandleCallOffer(t) \/ ManagerStartCall(t)
             \/ StartCallReturns(t) \/ AcceptCall(t) \/ HandleCallAccept(t)
    BY <2>1, Leaves DEF CreateCall, HandleCallOffer, ManagerStartCall, StartCallReturns,
       AcceptCall, HandleCallAccept
  <2>2. CASE \/ EndCall(t) \/ EndCallReturns(t) \/ OnEnded(t) \/ HandleCallTerminate(t)
             \/ HandleCallTerminateReturns(t)
    BY <2>2, Leaves DEF EndCall, EndCallReturns, OnEnded, HandleCallTerminate,
       HandleCallTerminateReturns, Ends
  <2>3. CASE \/ NewBridge(t) \/ WebRTC(t) \/ OnActive(t) \/ OpenAudio(t) \/ Release(t)
             \/ ShutdownReturns(t)
    BY <2>3, Leaves DEF NewBridge, WebRTC, OnActive, OpenAudio, Release, ShutdownReturns
  <2>4. CASE Cleanup(t)
    BY <2>4, <1>4, Leaves DEF Cleanup
  <2>5. CASE ShutdownNext(t)
    <3>1. \E l \in {"cleanup", "end"} : Goto(t, l)
      BY <2>5 DEF ShutdownNext
    <3> QED
      BY <3>1, Leaves
  <2> QED
    BY <2>1, <2>2, <2>3, <2>4, <2>5, <1>4 DEF Step
<1>5. ASSUME NEW t \in Threads,
             Arrive(t) \/ (\E kind \in Kinds, a \in ActiveCalls : Take(t, kind, a))
      PROVE  pc'[t] # "release"
  BY <1>5, Leaves DEF Arrive, StartCall, OnOffer, Fetch, Shutdown, Requests, Take, Kinds,
     thrVars, TypeOK
<1>6. ASSUME NEW t \in Threads, pc'[t] # "release",
             Step(t) \/ Arrive(t) \/ (\E kind \in Kinds, a \in ActiveCalls : Take(t, kind, a))
      PROVE  OneCleanupReleases'
  BY <1>3, <1>6, OthersStay
<1>7. ASSUME NEW a \in ActiveCalls, MediaConnected(a) \/ IceFails(a)
      PROVE  OneCleanupReleases'
  BY <1>3, <1>7 DEF MediaConnected, IceFails, thrVars
<1> QED
  BY <1>2, <1>4, <1>5, <1>6, <1>7 DEF Next

\* A goroutine leaves its clean-up, or the bridge it is to install, only by
\* doing it.
LEMMA StaysUntilDone ==
  ASSUME TypeOK, Next, NEW u \in Threads
  PROVE  /\ pc[u] = "cleanup" => Cleanup(u) \/ (pc'[u] = pc[u] /\ local'[u] = local[u])
         /\ pc[u] = "install" => WebRTC(u) \/ (pc'[u] = pc[u] /\ local'[u] = local[u])
<1>1. CASE pc'[u] = pc[u] /\ local'[u] = local[u]
  BY <1>1
<1>2. CASE Step(u)
  <2>1. Cleanup(u) \/ WebRTC(u) \/ (pc[u] # "cleanup" /\ pc[u] # "install")
    <3>1. CASE \/ CreateCall(u) \/ HandleCallOffer(u) \/ ManagerStartCall(u)
               \/ StartCallReturns(u) \/ AcceptCall(u) \/ HandleCallAccept(u)
      BY <3>1 DEF CreateCall, HandleCallOffer, ManagerStartCall, StartCallReturns,
         AcceptCall, HandleCallAccept
    <3>2. CASE \/ EndCall(u) \/ EndCallReturns(u) \/ OnEnded(u) \/ HandleCallTerminate(u)
               \/ HandleCallTerminateReturns(u)
      BY <3>2 DEF EndCall, EndCallReturns, OnEnded, HandleCallTerminate,
         HandleCallTerminateReturns
    <3>3. CASE \/ NewBridge(u) \/ WebRTC(u) \/ OnActive(u) \/ OpenAudio(u) \/ Cleanup(u)
               \/ Release(u) \/ ShutdownNext(u) \/ ShutdownReturns(u)
      BY <3>3 DEF NewBridge, OnActive, OpenAudio, Release, ShutdownNext, ShutdownReturns
    <3> QED
      BY <3>1, <3>2, <3>3, <1>2 DEF Step
  <2>2. CASE Cleanup(u)
    BY <2>2 DEF Cleanup
  <2>3. CASE WebRTC(u)
    BY <2>3 DEF WebRTC
  <2> QED
    BY <2>1, <2>2, <2>3
<1>3. CASE Arrive(u) \/ (\E kind \in Kinds, a \in ActiveCalls : Take(u, kind, a))
  BY <1>3 DEF Arrive, StartCall, OnOffer, Fetch, Shutdown, Take
<1>4. CASE \E a \in ActiveCalls : MediaConnected(a) \/ IceFails(a)
  BY <1>4 DEF MediaConnected, IceFails, thrVars
<1>5. ASSUME NEW t \in Threads, t # u,
             Step(t) \/ Arrive(t) \/ (\E kind \in Kinds, a \in ActiveCalls : Take(t, kind, a))
      PROVE  pc'[u] = pc[u] /\ local'[u] = local[u]
  BY <1>5, OthersStay
<1> QED
  BY <1>1, <1>2, <1>3, <1>4, <1>5 DEF Next

\* A step leaves a goroutine that is to clean up waiting, unless it takes it
\* to the clean-up of that call.
LEMMA CleanupWaits ==
  ASSUME IInv, Next, NEW a \in ActiveCalls, pending[<<"cleanup", a>>] > 0
  PROVE  \/ pending'[<<"cleanup", a>>] > 0
         \/ \E t \in Threads : pc'[t] = "cleanup" /\ local'[t].id = id[a]
<1> USE DEF IInv
<1>a. TypeOK
  OBVIOUS
<1> DEFINE Kept == pending'[<<"cleanup", a>>] > 0
<1>1. ASSUME NEW kind \in Kinds, NEW c \in ActiveCalls, Spawn(kind, c)
      PROVE  Kept
  BY <1>1, Spawns, LabelsAre
<1>2. CASE UNCHANGED pending
  BY <1>2
<1>3. ASSUME NEW c \in ActiveCalls, Emit(c) \/ (\E b : MayEnd(c, b))
      PROVE  Kept
  BY <1>1, <1>2, <1>3, Starts, LabelsAre
<1>4. ASSUME NEW t \in Threads, \/ StartCallReturns(t) \/ HandleCallAccept(t) \/ EndCall(t)
                                \/ HandleCallTerminate(t) \/ WebRTC(t) \/ Release(t)
                                \/ OnEnded(t)
      PROVE  Kept
  <2>1. local[t].ac \in ActiveCalls
    BY <1>4, LocalTypes DEF StartCallReturns, HandleCallAccept, EndCall, HandleCallTerminate,
       WebRTC, Release, OnEnded, OnCall, Requests, LocalsFit, Fits, Locals
  <2>2. \/ Emit(local[t].ac) \/ UNCHANGED pending
        \/ \E b : MayEnd(local[t].ac, b)
        \/ Spawn("cleanup", local[t].ac)
    BY <1>4 DEF StartCallReturns, HandleCallAccept, EndCall, HandleCallTerminate, Ends,
       WebRTC, Release, OnEnded
  <2> QED
    BY <2>1, <2>2, <1>1, <1>2, <1>3, LabelsAre
<1>5. ASSUME NEW c \in ActiveCalls, MediaConnected(c) \/ IceFails(c)
      PROVE  Kept
  BY <1>1, <1>3, <1>5, LabelsAre DEF MediaConnected, IceFails
<1>6. ASSUME NEW t \in Threads, NEW kind \in Kinds, NEW c \in ActiveCalls, Take(t, kind, c)
      PROVE  Kept \/ (pc'[t] = "cleanup" /\ local'[t].id = id[a])
  <2>1. CASE kind = "cleanup" /\ c = a
    <3>1. pc'[t] = "cleanup" /\ local' = [local EXCEPT ![t].id = id[a], ![t].ac = None]
      BY <2>1, <1>6, Leaves DEF Take
    <3> QED
      BY <3>1 DEF TypeOK, Locals
  <2>2. CASE ~(kind = "cleanup" /\ c = a)
    <3> DEFINE x == <<kind, c>>
               y == <<"cleanup", a>>
    <3>1. x \in Kinds \X ActiveCalls /\ y \in Kinds \X ActiveCalls /\ x # y
      BY <2>2, LabelsAre
    <3>2. pending' = [pending EXCEPT ![x] = @ - 1] /\ pending[y] > 0
      BY <1>6 DEF Take
    <3>3. pending'[y] > 0
      <4> HIDE DEF x, y
      <4> QED
        BY <3>1, <3>2 DEF TypeOK
    <3> QED
      BY <3>3
  <2> QED
    BY <2>1, <2>2
<1> QED
  BY <1>2, <1>4, <1>5, <1>6, Writers

\* An ended call of the map has its clean-up on the way: it is started where
\* the call ends, and lost only by taking the call out of the map.
LEMMA NextEnded ==
  ASSUME IInv, TypeOK', Next
  PROVE  EndedIsCleanedUp'
<1> USE CallControllerAssumption DEF IInv
<1>a. TypeOK /\ LocalsFit /\ Created /\ EndedIsCleanedUp
  OBVIOUS
<1> DEFINE ComesFor(i, a) ==
      \/ pending'[<<"cleanup", a>>] > 0
      \/ \E t \in Threads : pc'[t] = "cleanup" /\ local'[t].id = i
<1> SUFFICES ASSUME NEW i \in CallIds, calls'[i] # None, state'[calls'[i]] = "ended"
             PROVE  ComesFor(i, calls'[i])
  BY DEF EndedIsCleanedUp, Mapped
<1>1. calls'[i] \in ActiveCalls
  BY DEF TypeOK
\* A call put into the map is new and has not ended.
<1>2. calls'[i] = calls[i]
  <2>1. ASSUME NEW t \in Threads, CreateCall(t), calls'[i] # calls[i]
        PROVE  FALSE
    <3>1. PICK a \in ActiveCalls : id[a] = None /\ calls' = [calls EXCEPT ![local[t].id] = a]
      BY <2>1 DEF CreateCall
    <3>2. calls'[i] = a
      BY <3>1, <2>1 DEF TypeOK
    <3>3. state'[a] = state[a]
      BY <2>1 DEF CreateCall
    <3> QED
      BY <3>1, <3>2, <3>3 DEF Created
  <2>2. ASSUME NEW t \in Threads, Cleanup(t)
        PROVE  calls'[i] = calls[i]
    BY <2>2 DEF Cleanup, TypeOK
  <2> QED
    BY <2>1, <2>2, Writers
<1> DEFINE a == calls[i]
<1>3. a \in ActiveCalls /\ id[a] = i
  BY <1>1, <1>2 DEF Created
\* A call that ends now starts its clean-up now.
<1>4. CASE state[a] # "ended"
  <2>1. ASSUME NEW t \in Threads, EndCall(t) \/ HandleCallTerminate(t)
        PROVE  ComesFor(i, a)
    <3>1. Ends(t)
      BY <2>1 DEF EndCall, HandleCallTerminate
    <3>2. local[t].ac \in ActiveCalls
      BY <2>1, LocalTypes DEF EndCall, HandleCallTerminate, OnCall, Requests, LocalsFit, Fits,
         Locals
    <3>3. local[t].ac = a
      BY <3>1, <1>2, <1>3, <1>4 DEF Ends, TypeOK
    <3>4. state'[a] = "ended" /\ Emit(a)
      BY <3>1, <3>3, <1>2 DEF Ends
    <3> QED
      BY <3>4, <1>3, Starts, Spawns, LabelsAre
  <2>2. ASSUME NEW t \in Threads, HandleCallOffer(t) \/ ManagerStartCall(t)
        PROVE  FALSE
    BY <2>2, <1>2, <1>3, <1>4 DEF HandleCallOffer, ManagerStartCall, TypeOK
  <2>3. ASSUME NEW c \in ActiveCalls, MediaConnected(c)
        PROVE  FALSE
    BY <2>3, <1>2, <1>3, <1>4 DEF MediaConnected, TypeOK
  <2> QED
    BY <2>1, <2>2, <2>3, <1>2, <1>4, Writers
\* One that had ended keeps it on the way.
<1>5. CASE state[a] = "ended"
  <2>1. \/ pending[<<"cleanup", a>>] > 0
        \/ \E t \in Threads : pc[t] = "cleanup" /\ local[t].id = i
    BY <1>2, <1>5 DEF EndedIsCleanedUp, Mapped
  <2>2. CASE pending[<<"cleanup", a>>] > 0
    BY <2>2, <1>2, <1>3, CleanupWaits
  <2>3. ASSUME NEW t \in Threads, pc[t] = "cleanup", local[t].id = i
        PROVE  ComesFor(i, a)
    <3>1. ~ Cleanup(t)
      BY <2>3 DEF Cleanup, TypeOK
    <3> QED
      BY <3>1, <2>3, StaysUntilDone
  <2> QED
    BY <2>1, <2>2, <2>3, <1>2
<1> QED
  BY <1>2, <1>4, <1>5

\* An open bridge changes hands, or is closed, but is never dropped.
LEMMA NextBridges ==
  ASSUME IInv, TypeOK', Next
  PROVE  NoOrphanBridge'
<1> USE CallControllerAssumption DEF IInv
<1>a. TypeOK /\ LocalsFit /\ NoOrphanBridge
  OBVIOUS
<1> DEFINE Held(b) ==
      \/ \E a \in ActiveCalls : bridge[a] = b
      \/ \E t \in Threads : pc[t] = "install" /\ local[t].bridge = b
<1> SUFFICES ASSUME NEW b \in open'
             PROVE  Held(b)'
  BY DEF NoOrphanBridge
<1>1. ASSUME NEW t \in Threads, NewBridge(t), b \notin open
      PROVE  Held(b)'
  <2>1. pc'[t] = "install" /\ local' = [local EXCEPT ![t].bridge = b]
    BY <1>1, Leaves DEF NewBridge
  <2> QED
    BY <2>1 DEF TypeOK, Locals
<1>2. b \in open \/ \E t \in Threads : NewBridge(t)
  BY Writers DEF WebRTC, Release, CloseBridge
<1>3. ASSUME NEW t \in Threads, WebRTC(t), b \in open
      PROVE  Held(b)'
  <2> DEFINE a == local[t].ac
  <2>1. /\ a \in ActiveCalls /\ b # bridge[a]
        /\ bridge' = [bridge EXCEPT ![a] = local[t].bridge]
    BY <1>3, LocalTypes DEF WebRTC, CloseBridge, OnCall, LocalsFit, Fits, Locals
  <2>2. ASSUME NEW c \in ActiveCalls, bridge[c] = b
        PROVE  Held(b)'
    BY <2>1, <2>2 DEF TypeOK
  <2>3. ASSUME NEW u \in Threads, pc[u] = "install", local[u].bridge = b
        PROVE  Held(b)'
    <3>1. CASE u = t
      BY <3>1, <2>1, <2>3 DEF TypeOK
    <3>2. CASE u # t
      <4>1. pc'[u] = pc[u] /\ local'[u] = local[u]
        BY <3>2, <1>3, OthersStay DEF Step
      <4> QED
        BY <4>1, <2>3
    <3> QED
      BY <3>1, <3>2
  <2> QED
    BY <2>2, <2>3, <1>3 DEF NoOrphanBridge
<1>4. ASSUME ~ \E t \in Threads : WebRTC(t), b \in open
      PROVE  Held(b)'
  <2>1. UNCHANGED bridge
    BY <1>4, Writers
  <2>2. ASSUME NEW u \in Threads, pc[u] = "install", local[u].bridge = b
        PROVE  Held(b)'
    BY <2>2, <1>4, StaysUntilDone
  <2> QED
    BY <2>1, <2>2, <1>4 DEF NoOrphanBridge
<1> QED
  BY <1>1, <1>2, <1>3, <1>4

-----------------------------------------------------------------------------
\* Every step keeps the invariant.
LEMMA NextIInv == IInv /\ [Next]_vars => IInv'
<1> SUFFICES ASSUME IInv, [Next]_vars PROVE IInv'
    OBVIOUS
<1>1. CASE Next
  <2>1. TypeOK'
    BY <1>1, StepType, OtherType DEF Next
  <2> QED
    BY <1>1, <2>1, NextLocals, NextCreated, NextOvershoot, NextReleases, NextEnded, NextBridges
       DEF IInv
<1>2. CASE UNCHANGED vars
  <2>1. TypeOK'
    BY <1>2 DEF vars, callVars, webVars, thrVars, IInv, TypeOK
  <2>2. LocalsFit' /\ Created'
    BY <1>2 DEF vars, callVars, webVars, thrVars, IInv, LocalsFit, Fits, Created
  <2>3. OvershootIsBounded'
    BY <1>2 DEF vars, callVars, webVars, thrVars, IInv, OvershootIsBounded, Mapped, Creators
  <2>4. OneCleanupReleases' /\ EndedIsCleanedUp' /\ NoOrphanBridge'
    BY <1>2 DEF vars, callVars, webVars, thrVars, IInv, OneCleanupReleases, EndedIsCleanedUp,
       Mapped, NoOrphanBridge
  <2> QED
    BY <2>1, <2>2, <2>3, <2>4 DEF IInv
<1> QED
  BY <1>1, <1>2

\* The inductive invariant holds in every reachable state.
THEOREM Invariant == Spec => []IInv
BY InitIInv, NextIInv, PTL DEF Spec

\* The variables of the Controller are of their types, whatever its callbacks,
\* requests and Shutdown do.
THEOREM TypeCorrect == Spec => []TypeOK
<1>1. IInv => TypeOK
  BY DEF IInv
<1> QED
  BY <1>1, Invariant, PTL

\* The limit on the number of calls, read in one critical section and acted on
\* in another, is passed by fewer calls than there are goroutines.
THEOREM OvershootBound == Spec => []OvershootIsBounded
<1>1. IInv => OvershootIsBounded
  BY DEF IInv
<1> QED
  BY <1>1, Invariant, PTL

\* However many goroutines clean a call up, one of them closes its files and
\* its bridge, and no request finds the call from then on.
THEOREM OneRelease == Spec => []OneCleanupReleases
<1>1. IInv => OneCleanupReleases
  BY DEF IInv
<1> QED
  BY <1>1, Invariant, PTL

\* No ended call stays in the map without a clean-up that will take it out,
\* not even when a second offer of its id, or Shutdown, comes between.
THEOREM EndedLeaves == Spec => []EndedIsCleanedUp
<1>1. IInv => EndedIsCleanedUp
  BY DEF IInv
<1> QED
  BY <1>1, Invariant, PTL

\* No peer connection to a browser is left open with nobody to close it,
\* however the WebRTC requests of a call race.
THEOREM BridgesAreHeld == Spec => []NoOrphanBridge
<1>1. IInv => NoOrphanBridge
  BY DEF IInv
<1> QED
  BY <1>1, Invariant, PTL
===============================================================================
