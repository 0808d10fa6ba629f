------------------------------ MODULE RelayProofs ------------------------------
(***************************************************************************)
(* Proofs about SctpRelay for every set of relays and connections, and     *)
(* about Wire for every relay, SSRC, answer, RTP header and payload.       *)
(***************************************************************************)
EXTENDS SctpRelay, Wire, FiniteSetTheorems, WellFoundedInduction, NaturalsInduction,
        SequenceTheorems, TLAPS

\* A connection is listed under its own id, and only once it has been made.
ListedAtHome ==
    \A i \in Ids : connections[i] # None => id[connections[i]] = i

Unmade ==
    \A c \in Conns : id[c] = None =>
        peer[c] = "none" /\ c \notin opening /\ c \notin closing /\ c \notin timer
            /\ tearing[c] = 0 /\ ~stopped[c]

\* The channel of a connection that was, or will be, reported open has opened;
\* one that has closed while listed has its callback to come.
ChannelTold ==
    \A c \in Conns :
        /\ c \in opening \/ state[c] = "open" => peer[c] \in {"open", "closed"}
        /\ Listed(c) /\ peer[c] = "closed" => c \in closing

IInv ==
    /\ TypeOK
    /\ ListedAtHome
    /\ Unmade
    /\ ListedIsAlive
    /\ TornDownIsUnlisted
    /\ ChannelTold

-----------------------------------------------------------------------------
LEMMA InitIInv == Init => IInv
<1> SUFFICES ASSUME Init PROVE IInv
  OBVIOUS
<1>1. \A c \in Conns : ~Listed(c)
  BY SctpRelayAssumption DEF Init, Listed
<1>2. TypeOK
  <2>1. 0 \in 0 .. MaxDials
    BY SctpRelayAssumption
  <2>2. dialing \in [Ids -> 0 .. MaxDials] /\ tearing \in [Conns -> Nat]
    BY <2>1 DEF Init
  <2> QED
    BY <2>2 DEF Init, TypeOK
<1>3. ListedAtHome /\ Unmade
  BY DEF Init, ListedAtHome, Unmade
<1>4. ListedIsAlive /\ TornDownIsUnlisted /\ ChannelTold
  BY <1>1 DEF Init, ListedIsAlive, TornDownIsUnlisted, ChannelTold
<1> QED
  BY <1>2, <1>3, <1>4 DEF IInv

\* What is deleted from the list is the connection under the id, and nothing
\* else changes its place.
LEMMA Unlist ==
    ASSUME IInv, NEW i \in Ids, connections' = [connections EXCEPT ![i] = None]
    PROVE  /\ connections' \in [Ids -> Conns \cup {None}]
           /\ \A c \in Conns : Listed(c)' => Listed(c) /\ c # connections[i]
           /\ \A c \in Conns : id[c] = i => ~Listed(c)'
           /\ \A j \in Ids : connections'[j] # None => connections'[j] = connections[j]
<1>1. connections \in [Ids -> Conns \cup {None}]
  BY DEF IInv, TypeOK
<1>2. \A j \in Ids : connections'[j] = IF j = i THEN None ELSE connections[j]
  BY <1>1
<1>3. \A j \in Ids : connections[j] \in Conns => id[connections[j]] = j
  BY SctpRelayAssumption DEF IInv, ListedAtHome
<1> QED
  BY <1>1, <1>2, <1>3, SctpRelayAssumption DEF Listed

LEMMA TearMore ==
    ASSUME TypeOK, NEW c \in Conns, tearing' = [tearing EXCEPT ![c] = @ + 1]
    PROVE  tearing' \in [Conns -> Nat]
<1>1. tearing[c] + 1 \in Nat
  BY DEF TypeOK
<1> QED
  BY <1>1 DEF TypeOK

LEMMA NextIInv == IInv /\ [Next]_vars => IInv'
<1> SUFFICES ASSUME IInv, [Next]_vars PROVE IInv'
  OBVIOUS
<1> TypeOK /\ ListedAtHome /\ Unmade /\ ListedIsAlive /\ TornDownIsUnlisted /\ ChannelTold
  BY DEF IInv
<1> USE SctpRelayAssumption DEF connVars, callVars
<1>1. ASSUME NEW i \in Ids, ConfigureRelay(i) PROVE IInv'
  <2>1. dialing[i] + 1 \in 0 .. MaxDials
    BY <1>1 DEF ConfigureRelay, TypeOK
  <2> QED
    BY <1>1, <2>1 DEF ConfigureRelay, IInv, TypeOK, ListedAtHome, Unmade,
       ListedIsAlive, TornDownIsUnlisted, ChannelTold, Listed
<1>2. ASSUME NEW i \in Ids, ListConnection(i) PROVE IInv'
  <2>1. PICK c \in Conns :
          /\ id[c] = None
          /\ id' = [id EXCEPT ![c] = i]
          /\ state' = [state EXCEPT ![c] = "connecting"]
          /\ peer' = [peer EXCEPT ![c] = "dialing"]
          /\ connections' = [connections EXCEPT ![i] = c]
    BY <1>2 DEF ListConnection
  <2>2. UNCHANGED <<stopped, opening, closing, timer, tearing, cleaned>>
    BY <1>2 DEF ListConnection
  <2>3. dialing[i] - 1 \in 0 .. MaxDials /\ dialing' = [dialing EXCEPT ![i] = @ - 1]
    BY <1>2 DEF ListConnection, TypeOK
  <2>4. TypeOK'
    BY <2>1, <2>2, <2>3 DEF TypeOK
  <2>5. ListedAtHome'
    BY <2>1 DEF TypeOK, ListedAtHome
  <2>6. Unmade' /\ \A d \in Conns \ {c} : Listed(d)' => Listed(d)
    BY <2>1, <2>2 DEF TypeOK, Unmade, Listed
  <2>7. ListedIsAlive' /\ TornDownIsUnlisted' /\ ChannelTold'
    BY <2>1, <2>2, <2>6 DEF TypeOK, Unmade, ListedIsAlive, TornDownIsUnlisted, ChannelTold
  <2> QED
    BY <2>4, <2>5, <2>6, <2>7 DEF IInv
<1>3. ASSUME NEW c \in Conns, Dial(c) \/ TimerStops(c) PROVE IInv'
  BY <1>3 DEF Dial, TimerStops, IInv, TypeOK, ListedAtHome, Unmade, ListedIsAlive,
     TornDownIsUnlisted, ChannelTold, Listed
\* A connection that fails: what it does to the list, whatever caused it.
<1>4. ASSUME NEW c \in Conns, id[c] # None, FailConnection(c),
             UNCHANGED <<dialing, id, stopped, opening, closing, cleaned>>,
             timer' \in SUBSET timer,
             peer' = peer \/ peer' = [peer EXCEPT ![c] = "closed"]
      PROVE  IInv'
  <2> DEFINE i == id[c]
  <2>1. i \in Ids
    BY <1>4 DEF TypeOK
  <2>2. connections' = [connections EXCEPT ![i] = None]
    BY <1>4 DEF FailConnection
  <2> HIDE DEF i
  <2>3. /\ connections' \in [Ids -> Conns \cup {None}]
        /\ \A d \in Conns : Listed(d)' => Listed(d) /\ d # c
        /\ \A j \in Ids : connections'[j] # None => connections'[j] = connections[j]
    BY <2>1, <2>2, Unlist DEF i
  <2>4. TypeOK'
    BY <1>4, <2>3, TearMore DEF FailConnection, TypeOK
  <2>5. ListedAtHome' /\ Unmade'
    BY <1>4, <2>3 DEF FailConnection, TypeOK, ListedAtHome, Unmade
  <2>6. ListedIsAlive' /\ TornDownIsUnlisted'
    BY <1>4, <2>3 DEF FailConnection, TypeOK, ListedIsAlive, TornDownIsUnlisted
  <2>7. ChannelTold'
    BY <1>4, <2>3 DEF FailConnection, TypeOK, ChannelTold
  <2> QED
    BY <2>4, <2>5, <2>6, <2>7 DEF IInv
<1>5. ASSUME NEW c \in Conns, DialFails(c) \/ IceFails(c) PROVE IInv'
  BY <1>4, <1>5 DEF DialFails, IceFails, Unmade
<1>6. ASSUME NEW c \in Conns, Timeout(c) PROVE IInv'
  <2>1. CASE state[c] = "connecting"
    BY <1>4, <1>6, <2>1 DEF Timeout, Unmade
  <2>2. CASE state[c] # "connecting"
    BY <1>6, <2>2 DEF Timeout, IInv, TypeOK, ListedAtHome, Unmade, ListedIsAlive,
       TornDownIsUnlisted, ChannelTold, Listed
  <2> QED
    BY <2>1, <2>2
<1>7. ASSUME NEW c \in Conns, ChannelOpens(c) \/ OnOpen(c) \/ ChannelCloses(c) PROVE IInv'
  BY <1>7 DEF ChannelOpens, OnOpen, ChannelCloses, IInv, TypeOK, ListedAtHome, Unmade,
     ListedIsAlive, TornDownIsUnlisted, ChannelTold, Listed
<1>8. ASSUME NEW c \in Conns, OnClose(c) PROVE IInv'
  <2> DEFINE i == id[c]
             d == connections[i]
  <2>1. i \in Ids
    BY <1>8 DEF OnClose, TypeOK, Unmade
  <2>2. CASE d = None
    <3>1. \A x \in Conns : Listed(x) => x # c
      BY <2>1, <2>2 DEF ListedAtHome, Listed
    <3> QED
      BY <1>8, <2>2, <3>1 DEF OnClose, IInv, TypeOK, ListedAtHome, Unmade, ListedIsAlive,
         TornDownIsUnlisted, ChannelTold, Listed
  <2>3. CASE d # None
    <3>1. /\ d \in Conns /\ id[d] = i
          /\ state' = [state EXCEPT ![d] = "closed"]
          /\ connections' = [connections EXCEPT ![i] = None]
          /\ tearing' = [tearing EXCEPT ![d] = @ + 1]
          /\ closing' = closing \ {c}
          /\ UNCHANGED <<dialing, id, peer, stopped, opening, timer, cleaned>>
      BY <1>8, <2>1, <2>3 DEF OnClose, TypeOK, ListedAtHome
    <3> HIDE DEF i, d
    <3>2. /\ connections' \in [Ids -> Conns \cup {None}]
          /\ \A x \in Conns : Listed(x)' => Listed(x) /\ x # d
          /\ \A x \in Conns : id[x] = i => ~Listed(x)'
          /\ \A j \in Ids : connections'[j] # None => connections'[j] = connections[j]
      BY <2>1, <3>1, Unlist DEF d
    <3>3. ~Listed(c)'
      BY <3>2 DEF i
    <3>4. TypeOK'
      BY <3>1, <3>2, TearMore DEF TypeOK
    <3>5. ListedAtHome' /\ Unmade'
      BY <3>1, <3>2, <2>1 DEF TypeOK, ListedAtHome, Unmade
    <3>6. ListedIsAlive' /\ TornDownIsUnlisted'
      BY <3>1, <3>2 DEF TypeOK, ListedIsAlive, TornDownIsUnlisted
    <3>7. ChannelTold'
      BY <3>1, <3>2, <3>3 DEF TypeOK, ChannelTold
    <3> QED
      BY <3>4, <3>5, <3>6, <3>7 DEF IInv
  <2> QED
    BY <2>2, <2>3
<1>9. ASSUME NEW c \in Conns, Teardown(c) PROVE IInv'
  <2>1. tearing[c] - 1 \in Nat /\ tearing' = [tearing EXCEPT ![c] = @ - 1]
    BY <1>9 DEF Teardown, TypeOK
  <2>2. ~Listed(c) /\ id[c] # None
    BY <1>9 DEF Teardown, TornDownIsUnlisted, Unmade
  <2>3. UNCHANGED <<connections, dialing, id, state, opening, timer, cleaned>>
    BY <1>9 DEF Teardown
  <2>4. \A x \in Conns : Listed(x)' <=> Listed(x)
    BY <2>3 DEF Listed
  <2>5. /\ stopped' = [stopped EXCEPT ![c] = TRUE]
        /\ \/ UNCHANGED <<peer, closing>>
           \/ /\ peer[c] # "dialing" /\ peer' = [peer EXCEPT ![c] = "closed"]
              /\ closing' \in {closing, closing \cup {c}}
    BY <1>9 DEF Teardown
  <2>6. TypeOK' /\ ListedAtHome' /\ Unmade'
    BY <2>1, <2>2, <2>3, <2>5 DEF TypeOK, ListedAtHome, Unmade
  <2>7. ListedIsAlive' /\ TornDownIsUnlisted' /\ ChannelTold'
    BY <2>1, <2>2, <2>3, <2>4, <2>5
       DEF TypeOK, ListedIsAlive, TornDownIsUnlisted, ChannelTold
  <2> QED
    BY <2>6, <2>7 DEF IInv
<1>10. CASE Cleanup
  <2>1. /\ connections' = [i \in Ids |-> None]
        /\ \A c \in Conns : tearing'[c] = IF Listed(c) THEN tearing[c] + 1 ELSE tearing[c]
        /\ tearing' \in [Conns -> Nat]
        /\ UNCHANGED <<dialing, id, state, peer, stopped, opening, closing, timer>>
        /\ cleaned' = TRUE
    BY <1>10 DEF Cleanup, TypeOK
  <2>2. \A c \in Conns : ~Listed(c)' /\ (Listed(c) => id[c] # None)
    BY <2>1 DEF Listed, ListedAtHome, TypeOK
  <2> QED
    BY <2>1, <2>2 DEF IInv, TypeOK, ListedAtHome, Unmade, ListedIsAlive,
       TornDownIsUnlisted, ChannelTold
<1>11. CASE UNCHANGED vars
  BY <1>11 DEF vars, IInv, TypeOK, ListedAtHome, Unmade, ListedIsAlive,
     TornDownIsUnlisted, ChannelTold, Listed
<1> QED
  BY <1>1, <1>2, <1>3, <1>5, <1>6, <1>7, <1>8, <1>9, <1>10, <1>11 DEF Next

-----------------------------------------------------------------------------
THEOREM InductiveInvariant == Spec => []IInv
  BY InitIInv, NextIInv, PTL DEF Spec

\* Type correctness of the relay manager.
THEOREM TypeCorrect == Spec => []TypeOK
<1>1. IInv => TypeOK
  BY DEF IInv
<1> QED
  BY <1>1, InductiveInvariant, PTL

\* No failed or closed connection stays in m.connections.
THEOREM ListedAlive == Spec => []ListedIsAlive
<1>1. IInv => ListedIsAlive
  BY DEF IInv
<1> QED
  BY <1>1, InductiveInvariant, PTL

\* A listed connection that says it is open is, or its OnClose is to come.
THEOREM ListedOpenReal == Spec => []ListedOpenIsReal
<1>1. IInv => ListedOpenIsReal
  BY DEF IInv, ListedOpenIsReal, ChannelTold
<1> QED
  BY <1>1, InductiveInvariant, PTL

\* teardown is only ever run on connections that are off the list.
THEOREM TornDownUnlisted == Spec => []TornDownIsUnlisted
<1>1. IInv => TornDownIsUnlisted
  BY DEF IInv
<1> QED
  BY <1>1, InductiveInvariant, PTL

-----------------------------------------------------------------------------
(* Wire: what is found step by step, and sequences laid end to end.        *)

LEMMA MinExists ==
  ASSUME NEW T \in SUBSET Nat, T # {}
  PROVE  \E x \in T : \A y \in T : x <= y
<1>1. PICK x \in T : \A y \in T : ~ (<<y, x>> \in OpToRel(<, Nat))
  BY WFMin, NatLessThanWellFounded
<1>2. ASSUME NEW y \in T PROVE x <= y
  <2>1. <<y, x>> \in Nat \X Nat /\ <<y, x>>[1] = y /\ <<y, x>>[2] = x
    OBVIOUS
  <2>2. ~ (y < x)
    BY <1>1, <2>1 DEF OpToRel
  <2> QED
    BY <2>2
<1> QED
  BY <1>2

\* Induction up to a number, with the property as a set.
LEMMA AllUpTo ==
  ASSUME NEW N \in Nat, NEW P, 0 \in P, \A n \in 1 .. N : n - 1 \in P => n \in P
  PROVE  0 .. N \subseteq P
<1> DEFINE bad == {n \in 0 .. N : n \notin P}
<1>1. ASSUME bad # {} PROVE FALSE
  <2>1. bad \in SUBSET Nat
    OBVIOUS
  <2>2. PICK n \in bad : \A j \in bad : n <= j
    <3> HIDE DEF bad
    <3> QED
      BY <1>1, <2>1, MinExists
  <2>3. n \in 1 .. N /\ n \notin P
    BY <2>2
  <2>4. n - 1 \in 0 .. N /\ n - 1 \notin bad
    BY <2>2, <2>3
  <2> QED
    BY <2>3, <2>4
<1> QED
  BY <1>1

\* What is defined step by step from a start exists.
StepsStay(N, T, a, G) == N \in Nat /\ a \in T /\ \A n \in 1 .. N, s \in T : G[<<n, s>>] \in T
Steps(f, N, T, a, G) == f \in [0 .. N -> T] /\ f[0] = a /\ \A n \in 1 .. N : f[n] = G[<<n, f[n - 1]>>]

LEMMA StepsExist ==
  ASSUME NEW N, NEW T, NEW a, NEW G, StepsStay(N, T, a, G)
  PROVE  \E f : Steps(f, N, T, a, G)
<1> USE DEF StepsStay, Steps
<1> DEFINE Fold(f, k) == f \in [0 .. k -> T] /\ f[0] = a /\ \A n \in 1 .. k : f[n] = G[<<n, f[n - 1]>>]
           folded == {k \in 0 .. N : \E f : Fold(f, k)}
<1>1. 0 \in folded
  <2> DEFINE f == [n \in 0 .. 0 |-> a]
  <2>1. Fold(f, 0)
    OBVIOUS
  <2> HIDE DEF Fold, f
  <2> QED
    BY <2>1
<1>2. ASSUME NEW k \in 1 .. N, k - 1 \in folded PROVE k \in folded
  <2>1. PICK f : Fold(f, k - 1)
    <3> HIDE DEF Fold
    <3> QED
      BY <1>2
  <2> DEFINE last == G[<<k, f[k - 1]>>]
             g == [n \in 0 .. k |-> IF n = k THEN last ELSE f[n]]
  <2>2. f[k - 1] \in T /\ last \in T
    <3>1. k - 1 \in 0 .. (k - 1)
      OBVIOUS
    <3>2. f[k - 1] \in T
      BY <2>1, <3>1
    <3> QED
      BY <3>2
  <2>3. \A n \in 0 .. k - 1 : g[n] = f[n] /\ f[n] \in T
    BY <2>1
  <2>4. g[k] = last
    OBVIOUS
  <2>5. g \in [0 .. k -> T] /\ g[0] = a
    <3> HIDE DEF last
    <3> QED
      BY <2>1, <2>2
  <2>6. ASSUME NEW n \in 1 .. k PROVE g[n] = G[<<n, g[n - 1]>>]
    <3>1. n - 1 \in 0 .. k - 1 /\ g[n - 1] = f[n - 1]
      BY <2>3
    <3>2. CASE n = k
      BY <2>4, <3>1, <3>2
    <3>3. CASE n # k
      <4>1. n \in 1 .. k - 1 /\ n \in 0 .. k - 1
        BY <3>3
      <4> QED
        BY <2>1, <2>3, <3>1, <4>1
    <3> QED
      BY <3>2, <3>3
  <2>7. Fold(g, k)
    BY <2>5, <2>6
  <2> HIDE DEF Fold, g
  <2> QED
    BY <2>7
<1>3. N \in folded
  <2> HIDE DEF folded
  <2> QED
    BY <1>1, <1>2, AllUpTo
<1> QED
  BY <1>3

\* Sequences put one after the other: what is there after each.
Flattening(g, ss, S) ==
    /\ g \in [0 .. Len(ss) -> Seq(S)] /\ g[0] = <<>>
    /\ \A k \in 1 .. Len(ss) : g[k] = g[k - 1] \o ss[k]

LEMMA FlattenSteps ==
  ASSUME NEW S, NEW ss \in Seq(Seq(S))
  PROVE  \E g : Flattening(g, ss, S) /\ FlattenSeq(ss) = g[Len(ss)]
<1> DEFINE N == Len(ss)
           T == Seq(S)
           G == [p \in (1 .. N) \X T |-> p[2] \o ss[p[1]]]
<1>1. N \in Nat /\ <<>> \in T /\ \A n \in 1 .. N : ss[n] \in T
  OBVIOUS
<1>2. \A n \in 1 .. N, s \in T : G[<<n, s>>] = s \o ss[n] /\ s \o ss[n] \in T
  <2> TAKE n \in 1 .. N, s \in T
  <2>1. ss[n] \in T
    BY <1>1
  <2>2. s \o ss[n] \in T
    BY <2>1, ConcatProperties
  <2> QED
    BY <2>2
<1>3. PICK g : Steps(g, N, T, <<>>, G)
  <2>1. StepsStay(N, T, <<>>, G)
    <3> HIDE DEF G
    <3> QED
      BY <1>1, <1>2 DEF StepsStay
  <2> HIDE DEF G
  <2> QED
    BY <2>1, StepsExist
<1>4. Flattening(g, ss, S)
  <2>1. g \in [0 .. N -> T] /\ g[0] = <<>> /\ \A n \in 1 .. N : g[n] = G[<<n, g[n - 1]>>]
    <3> HIDE DEF G
    <3> QED
      BY <1>3 DEF Steps
  <2> HIDE DEF G
  <2>2. \A n \in 1 .. N : g[n - 1] \in T
    <3> TAKE n \in 1 .. N
    <3>1. n - 1 \in 0 .. N
      BY <1>1
    <3> QED
      BY <2>1, <3>1
  <2> QED
    BY <1>2, <2>1, <2>2 DEF Flattening
<1>5. CASE N = 0
  <2>1. ss = <<>> /\ FlattenSeq(ss) = ss
    BY <1>5 DEF FlattenSeq
  <2> QED
    BY <1>4, <1>5, <2>1 DEF Flattening
<1>6. CASE N # 0
  <2> DEFINE flatten[i \in 1 .. N] == IF i = 1 THEN ss[i] ELSE flatten[i - 1] \o ss[i]
             h == [i \in 1 .. N |-> g[i]]
             Unrolls(e) == e = [i \in 1 .. N |-> IF i = 1 THEN ss[i] ELSE e[i - 1] \o ss[i]]
  <2>1. \A i \in 1 .. N : h[i] = IF i = 1 THEN ss[i] ELSE h[i - 1] \o ss[i]
    <3> TAKE i \in 1 .. N
    <3>1. h[i] = g[i - 1] \o ss[i]
      BY <1>4 DEF Flattening
    <3>2. CASE i = 1
      <4>1. g[i - 1] = <<>> /\ ss[i] \in Seq(S)
        BY <1>4, <3>2 DEF Flattening
      <4> QED
        BY <3>1, <3>2, <4>1
    <3>3. CASE i # 1
      <4>1. i - 1 \in 1 .. N
        BY <3>3
      <4> QED
        BY <3>1, <3>3, <4>1
    <3> QED
      BY <3>2, <3>3
  <2>2. Unrolls(h)
    BY <2>1
  <2>3. flatten = CHOOSE e : Unrolls(e)
    OBVIOUS
  <2>4. Unrolls(flatten)
    <3> HIDE DEF Unrolls, h, flatten
    <3> QED
      BY <2>2, <2>3
  <2>5. FlattenSeq(ss) = flatten[N]
    BY <1>6 DEF FlattenSeq
  <2> DEFINE P == {n \in 0 .. N : n = 0 \/ flatten[n] = g[n]}
  <2>6. \A n \in 1 .. N : n - 1 \in P => n \in P
    <3> HIDE DEF flatten
    <3> SUFFICES ASSUME NEW n \in 1 .. N, n - 1 \in P PROVE flatten[n] = h[n]
      BY <1>1
    <3>1. flatten[n] = IF n = 1 THEN ss[n] ELSE flatten[n - 1] \o ss[n]
      BY <2>4
    <3>2. n # 1 => flatten[n - 1] = h[n - 1]
      BY <1>1
    <3> HIDE DEF h
    <3> QED
      BY <2>1, <3>1, <3>2
  <2>7. N \in P
    <3>1. 0 \in P
      OBVIOUS
    <3>2. 0 .. N \subseteq P
      <4> HIDE DEF P
      <4> QED
        BY <1>1, <2>6, <3>1, AllUpTo
    <3> HIDE DEF P
    <3> QED
      BY <1>1, <3>2
  <2>8. flatten[N] = g[N]
    <3> HIDE DEF flatten
    <3> QED
      BY <1>6, <2>7
  <2> HIDE DEF flatten
  <2> QED
    BY <1>4, <2>5, <2>8
<1> QED
  BY <1>5, <1>6

\* A place among l, taken after a others; one that lies among the d there are; and
\* the same place counted from another origin.
Lies(a, l, c, d, j) == a + j \in 1 .. d /\ a + j <= c
Follows(a, l, j) == a + j \in 1 .. a + l /\ ~(a + j <= a) /\ (a + j) - a = j
Counted(o, a, c, j) == a + j \in 1 .. c /\ o + (a + j) = (o + a) + j

LEMMA LiesIn == \A a, l, c, d \in Nat : a + l <= c /\ c <= d => \A j \in 1 .. l : Lies(a, l, c, d, j)
  BY DEF Lies

LEMMA FollowsOn == \A a, l \in Nat : \A j \in 1 .. l : Follows(a, l, j)
  BY DEF Follows

LEMMA CountedOn == \A o, a, l, c \in Nat : a + l <= c => \A j \in 1 .. l : Counted(o, a, c, j)
  BY DEF Counted

\* Where each of the sequences lies in what they make together.
Parts(f, ss, flat) ==
    /\ f \in [0 .. Len(ss) -> 0 .. Len(flat)]
    /\ f[0] = 0 /\ f[Len(ss)] = Len(flat)
    /\ \A i \in 1 .. Len(ss) :
         /\ f[i] = f[i - 1] + Len(ss[i])
         /\ \A j \in 1 .. Len(ss[i]) : flat[f[i - 1] + j] = ss[i][j]

LEMMA PartsLaidOut ==
  ASSUME NEW S, NEW ss \in Seq(Seq(S))
  PROVE  FlattenSeq(ss) \in Seq(S) /\ \E f : Parts(f, ss, FlattenSeq(ss))
<1> DEFINE N == Len(ss)
           flat == FlattenSeq(ss)
<1>1. N \in Nat /\ \A i \in 1 .. N : ss[i] \in Seq(S)
  OBVIOUS
<1>2. PICK g : Flattening(g, ss, S) /\ FlattenSeq(ss) = g[N]
  BY FlattenSteps
<1>3. flat = g[N]
  BY <1>2
<1> HIDE DEF flat
<1>4. /\ g \in [0 .. N -> Seq(S)] /\ g[0] = <<>>
      /\ \A k \in 1 .. N : g[k] = g[k - 1] \o ss[k]
  BY <1>2 DEF Flattening
<1> DEFINE f == [k \in 0 .. N |-> Len(g[k])]
<1>5. \A k \in 0 .. N : f[k] = Len(g[k]) /\ f[k] \in Nat /\ g[k] \in Seq(S)
  BY <1>4
<1> DEFINE At(n, i) ==
             /\ f[i] <= f[n] /\ f[i] = f[i - 1] + Len(ss[i])
             /\ \A j \in 1 .. Len(ss[i]) : g[n][f[i - 1] + j] = ss[i][j]
<1>6. ASSUME NEW n \in 1 .. N, NEW i \in 1 .. n, i # n => At(n - 1, i) PROVE At(n, i)
  <2> HIDE DEF f
  <2>1. n - 1 \in 0 .. N /\ i - 1 \in 0 .. N /\ n \in 0 .. N /\ i \in 0 .. N /\ i \in 1 .. N
    BY <1>1
  <2>2. ss[n] \in Seq(S) /\ ss[i] \in Seq(S)
    BY <1>1, <2>1
  <2>3. g[n] = g[n - 1] \o ss[n]
    BY <1>4
  <2>4. /\ f[n] = f[n - 1] + Len(ss[n])
        /\ \A x \in 1 .. f[n] : g[n][x] = IF x <= f[n - 1] THEN g[n - 1][x] ELSE ss[n][x - f[n - 1]]
    <3>1. g[n - 1] \in Seq(S) /\ f[n] = Len(g[n]) /\ f[n - 1] = Len(g[n - 1])
      BY <1>5, <2>1
    <3>2. /\ Len(g[n - 1] \o ss[n]) = Len(g[n - 1]) + Len(ss[n])
          /\ \A x \in 1 .. Len(g[n - 1]) + Len(ss[n]) : (g[n - 1] \o ss[n])[x] =
                  IF x <= Len(g[n - 1]) THEN g[n - 1][x] ELSE ss[n][x - Len(g[n - 1])]
      <4> DEFINE a == g[n - 1]
                 b == ss[n]
      <4>1. a \in Seq(S) /\ b \in Seq(S)
        BY <2>2, <3>1
      <4> HIDE DEF a, b
      <4>2. /\ Len(a \o b) = Len(a) + Len(b)
            /\ \A x \in 1 .. Len(a) + Len(b) : (a \o b)[x] = IF x <= Len(a) THEN a[x] ELSE b[x - Len(a)]
        BY <4>1, ConcatProperties
      <4> QED
        BY <4>2 DEF a, b
    <3> QED
      BY <2>3, <3>1, <3>2
  <2>5. Len(ss[n]) \in Nat
    BY <2>2
  <2>6. CASE i = n
    <3>0. f[n] \in Nat /\ f[n - 1] \in Nat
      BY <1>5, <2>1
    <3>1. ASSUME NEW j \in 1 .. Len(ss[n]) PROVE g[n][f[n - 1] + j] = ss[n][j]
      <4>1. j \in Nat /\ 1 <= j /\ j <= Len(ss[n])
        BY <2>5
      <4> DEFINE x == f[n - 1] + j
      <4>2. x \in 1 .. f[n] /\ ~(x <= f[n - 1]) /\ x - f[n - 1] = j
        <5>1. Follows(f[n - 1], Len(ss[n]), j)
          BY <2>5, <3>0, FollowsOn, Zenon
        <5>2. f[n] = f[n - 1] + Len(ss[n])
          BY <2>4, Zenon
        <5> QED
          BY <5>1, <5>2, Zenon DEF Follows
      <4>3. g[n][x] = ss[n][x - f[n - 1]]
        <5> HIDE DEF x
        <5> QED
          BY <2>4, <4>2
      <4> QED
        BY <4>2, <4>3
    <3> QED
      BY <2>4, <2>6, <3>0, <3>1
  <2>7. CASE i # n
    <3>1. i \in 1 .. n - 1
      BY <2>7
    <3>2. /\ f[i] <= f[n - 1] /\ f[i] = f[i - 1] + Len(ss[i])
          /\ \A j \in 1 .. Len(ss[i]) : g[n - 1][f[i - 1] + j] = ss[i][j]
      BY <1>6, <2>7
    <3>3. f[n - 1] <= f[n] /\ f[i] \in Nat /\ f[i - 1] \in Nat /\ f[n] \in Nat /\ f[n - 1] \in Nat
      BY <1>5, <2>1, <2>4, <2>5
    <3>4. ASSUME NEW j \in 1 .. Len(ss[i]) PROVE g[n][f[i - 1] + j] = ss[i][j]
      <4>1. j \in Nat /\ 1 <= j /\ j <= Len(ss[i]) /\ Len(ss[i]) \in Nat
        BY <2>2
      <4> DEFINE x == f[i - 1] + j
      <4>2. x \in 1 .. f[n] /\ x <= f[n - 1]
        <5>1. PICK a, l : a = f[i - 1] /\ l = Len(ss[i])
          BY Zenon
        <5>2. PICK c, d : c = f[n - 1] /\ d = f[n]
          BY Zenon
        <5>3. a \in Nat /\ l \in Nat /\ c \in Nat /\ d \in Nat /\ f[i] = a + l /\ f[i] <= c /\ c <= d
          BY <3>2, <3>3, <4>1, <5>1, <5>2, Zenon
        <5>4. a + l <= c /\ j \in 1 .. l
          BY <5>1, <5>3, Zenon
        <5>5. Lies(a, l, c, d, j)
          BY <5>3, <5>4, LiesIn, Zenon
        <5> QED
          BY <5>1, <5>2, <5>5, Zenon DEF Lies
      <4>3. g[n][x] = g[n - 1][x]
        <5> HIDE DEF x
        <5> QED
          BY <2>4, <4>2
      <4> QED
        BY <3>2, <4>3
    <3> QED
      BY <3>2, <3>3, <3>4
  <2> QED
    BY <2>6, <2>7
<1> DEFINE Q == {n \in 0 .. N : \A i \in 1 .. n : At(n, i)}
<1>7. ASSUME NEW n \in 1 .. N, n - 1 \in Q PROVE n \in Q
  <2>1. \A i \in 1 .. n - 1 : At(n - 1, i)
    <3> HIDE DEF At
    <3> QED
      BY <1>7
  <2> HIDE DEF At
  <2>2. ASSUME NEW i \in 1 .. n PROVE At(n, i)
    <3>1. i # n => At(n - 1, i)
      BY <2>1
    <3> QED
      BY <1>6, <3>1
  <2>3. n \in 0 .. N
    BY <1>1
  <2> QED
    BY <2>2, <2>3
<1>8. N \in Q
  <2>1. 0 \in Q
    <3> HIDE DEF At
    <3> QED
      BY <1>1
  <2>2. 0 .. N \subseteq Q
    <3> HIDE DEF Q
    <3> QED
      BY <1>1, <1>7, <2>1, AllUpTo
  <2> HIDE DEF Q
  <2> QED
    BY <1>1, <2>2
<1>9. f[0] = 0 /\ f[N] = Len(flat)
  <2> HIDE DEF f
  <2> QED
    BY <1>1, <1>3, <1>4, <1>5
<1>10. f \in [0 .. N -> 0 .. Len(flat)]
  <2>1. ASSUME NEW k \in 0 .. N PROVE f[k] \in 0 .. Len(flat)
    <3> HIDE DEF f
    <3>1. CASE k = 0
      BY <1>1, <1>5, <1>9, <3>1
    <3>2. CASE k # 0
      <4>1. k \in 1 .. N
        BY <3>2
      <4>2. f[k] <= f[N]
        BY <1>8, <4>1
      <4> QED
        BY <1>1, <1>5, <1>9, <4>2
    <3> QED
      BY <3>1, <3>2
  <2> QED
    BY <2>1
<1>11. Parts(f, ss, flat)
  <2> HIDE DEF f
  <2>1. \A i \in 1 .. N : /\ f[i] = f[i - 1] + Len(ss[i])
                          /\ \A j \in 1 .. Len(ss[i]) : flat[f[i - 1] + j] = ss[i][j]
    BY <1>3, <1>8
  <2> QED
    BY <1>9, <1>10, <2>1 DEF Parts
<1>12. flat \in Seq(S)
  BY <1>1, <1>3, <1>5
<1> HIDE DEF f
<1> QED
  BY <1>11, <1>12 DEF flat

LEMMA SubSeqIs ==
  ASSUME NEW S, NEW p \in Seq(S), NEW t \in Seq(S), NEW i \in Nat, NEW j \in Int, j - i + 1 = Len(t),
         \A x \in 1 .. Len(t) : p[i + x - 1] = t[x]
  PROVE  SubSeq(p, i, j) = t
<1>1. Len(t) \in Nat /\ \A x \in 1 .. Len(t) : t[x] \in S
  OBVIOUS
<1>2. ASSUME NEW k \in i .. j PROVE p[k] \in S
  <2>1. k - i + 1 \in 1 .. Len(t) /\ i + (k - i + 1) - 1 = k
    BY <1>1
  <2> DEFINE x == k - i + 1
  <2>2. x \in 1 .. Len(t) /\ i + x - 1 = k
    BY <2>1
  <2> HIDE DEF x
  <2> QED
    BY <1>1, <2>2
<1> DEFINE s == SubSeq(p, i, j)
<1>3. /\ s \in Seq(S)
      /\ Len(s) = IF i <= j THEN j - i + 1 ELSE 0
      /\ \A x \in 1 .. j - i + 1 : s[x] = p[i + x - 1]
  BY <1>2, SubSeqProperties
<1> HIDE DEF s
<1>4. Len(s) = Len(t) /\ \A x \in 1 .. Len(s) : s[x] = t[x]
  <2>1. Len(s) = Len(t)
    BY <1>1, <1>3
  <2> QED
    BY <1>1, <1>3, <2>1
<1>5. s = t
  BY <1>3, <1>4, SeqEqual
<1> QED
  BY <1>5 DEF s

LEMMA TwoInARow ==
  ASSUME NEW S, NEW a \in Seq(S), NEW b \in Seq(S), NEW p, p = a \o b
  PROVE  /\ p \in Seq(S) /\ Len(p) = Len(a) + Len(b)
         /\ \A x \in 1 .. Len(a) : p[x] = a[x]
         /\ \A x \in 1 .. Len(b) : p[Len(a) + x] = b[x]
<1>1. Len(a) \in Nat /\ Len(b) \in Nat
  OBVIOUS
<1>2. /\ p \in Seq(S) /\ Len(p) = Len(a) + Len(b)
      /\ \A x \in 1 .. Len(a) + Len(b) : p[x] = IF x <= Len(a) THEN a[x] ELSE b[x - Len(a)]
  BY ConcatProperties
<1>3. ASSUME NEW x \in 1 .. Len(a) PROVE p[x] = a[x]
  <2>1. x \in 1 .. Len(a) + Len(b) /\ x <= Len(a)
    BY <1>1
  <2> QED
    BY <1>2, <2>1
<1>4. ASSUME NEW x \in 1 .. Len(b) PROVE p[Len(a) + x] = b[x]
  <2>1. PICK y : y = Len(a) + x
    OBVIOUS
  <2>2. y \in 1 .. Len(a) + Len(b) /\ ~(y <= Len(a)) /\ y - Len(a) = x
    BY <1>1, <2>1
  <2>3. p[y] = b[x]
    BY <1>2, <2>2
  <2> QED
    BY <2>1, <2>3
<1> QED
  BY <1>2, <1>3, <1>4

IsSequence(s) == \E S : s \in Seq(S)

LEMMA SequenceOver ==
  ASSUME NEW s, NEW S, IsSequence(s), \A k \in 1 .. Len(s) : s[k] \in S
  PROVE  s \in Seq(S)
<1>1. PICK T : s \in Seq(T)
  BY DEF IsSequence
<1>2. Len(s) \in Nat /\ s \in [1 .. Len(s) -> T]
  BY <1>1, LenProperties
<1>3. s \in [1 .. Len(s) -> S]
  BY <1>2
<1> QED
  BY <1>2, <1>3

-----------------------------------------------------------------------------
(* What lies where in a packet.                                            *)

\* A sequence lies in another from an offset on.
Holds(b, o, s) == o + Len(s) <= Len(b) /\ \A x \in 1 .. Len(s) : b[o + x] = s[x]

LEMMA HoldsItself ==
  ASSUME NEW b, IsSequence(b)
  PROVE  Holds(b, 0, b)
<1>1. Len(b) \in Nat
  BY DEF IsSequence
<1>2. \A x \in 1 .. Len(b) : 0 + x = x
  OBVIOUS
<1> QED
  BY <1>1, <1>2 DEF Holds

LEMMA HoldsTwo ==
  ASSUME NEW S, NEW T, NEW b \in Seq(T), NEW o \in Nat, NEW s \in Seq(S), NEW t \in Seq(S), Holds(b, o, s \o t)
  PROVE  Holds(b, o, s) /\ Holds(b, o + Len(s), t) /\ Len(s \o t) = Len(s) + Len(t)
<1>1. PICK p : p = s \o t
  OBVIOUS
<1>2. /\ p \in Seq(S) /\ Len(p) = Len(s) + Len(t)
      /\ \A x \in 1 .. Len(s) : p[x] = s[x]
      /\ \A x \in 1 .. Len(t) : p[Len(s) + x] = t[x]
  BY <1>1, TwoInARow
<1>3. PICK m, n : m = Len(s) /\ n = Len(t)
  OBVIOUS
<1>4. m \in Nat /\ n \in Nat /\ Len(b) \in Nat
  BY <1>3
<1>5. o + (m + n) <= Len(b) /\ \A x \in 1 .. m + n : b[o + x] = p[x]
  BY <1>1, <1>2, <1>3 DEF Holds
<1>6. ASSUME NEW x \in 1 .. m PROVE b[o + x] = s[x]
  <2>1. x \in 1 .. m + n
    BY <1>4
  <2> QED
    BY <1>2, <1>3, <1>5, <2>1
<1>7. ASSUME NEW x \in 1 .. n PROVE b[(o + m) + x] = t[x]
  <2>1. m + x \in 1 .. m + n /\ o + (m + x) = (o + m) + x
    BY <1>4
  <2>2. PICK y : y = m + x
    OBVIOUS
  <2>3. y \in 1 .. m + n /\ o + y = (o + m) + x /\ p[y] = t[x]
    BY <1>2, <1>3, <2>1, <2>2
  <2>4. b[o + y] = p[y]
    BY <1>5, <2>3
  <2> QED
    BY <2>3, <2>4
<1>8. o + m <= Len(b) /\ (o + m) + n <= Len(b)
  BY <1>4, <1>5
<1> QED
  BY <1>1, <1>2, <1>3, <1>6, <1>7, <1>8 DEF Holds

LEMMA HoldsPart ==
  ASSUME NEW S, NEW T, NEW b \in Seq(T), NEW o \in Nat, NEW ss \in Seq(Seq(S)), NEW flat, NEW f,
         Parts(f, ss, flat), flat \in Seq(S), Holds(b, o, flat), NEW i \in 1 .. Len(ss)
  PROVE  Holds(b, o + f[i - 1], ss[i])
<1>1. PICK n, m, l : n = f[i - 1] /\ m = f[i] /\ l = Len(ss[i])
  OBVIOUS
<1>2. n \in 0 .. Len(flat) /\ m \in 0 .. Len(flat) /\ m = n + l /\ \A j \in 1 .. l : flat[n + j] = ss[i][j]
  <2>1. i - 1 \in 0 .. Len(ss) /\ i \in 0 .. Len(ss)
    OBVIOUS
  <2> QED
    BY <1>1, <2>1 DEF Parts
<1>3. l \in Nat /\ Len(flat) \in Nat /\ Len(b) \in Nat
  BY <1>1
<1>4. o + Len(flat) <= Len(b) /\ \A x \in 1 .. Len(flat) : b[o + x] = flat[x]
  BY DEF Holds
<1>5. ASSUME NEW j \in 1 .. l PROVE b[(o + n) + j] = ss[i][j]
  <2>1. PICK y : y = n + j
    OBVIOUS
  <2>2. y \in 1 .. Len(flat) /\ o + y = (o + n) + j
    <3>1. PICK c \in Nat : c = Len(flat)
      BY <1>3, Zenon
    <3>2. n \in Nat /\ n + l <= c
      BY <1>2, <1>3, <3>1
    <3>3. Counted(o, n, c, j)
      BY <1>3, <3>2, CountedOn, Zenon
    <3> QED
      BY <2>1, <3>1, <3>3, Zenon DEF Counted
  <2>3. b[o + y] = flat[y]
    BY <1>4, <2>2
  <2> QED
    BY <1>2, <2>1, <2>2, <2>3
<1>6. (o + n) + l <= Len(b)
  BY <1>2, <1>3, <1>4
<1> QED
  BY <1>1, <1>5, <1>6 DEF Holds

LEMMA HoldsCut ==
  ASSUME NEW S, NEW b \in Seq(S), NEW s \in Seq(S), NEW o \in Nat, Holds(b, o, s)
  PROVE  SubSeq(b, o + 1, o + Len(s)) = s
<1>1. PICK i, j : i = o + 1 /\ j = o + Len(s)
  OBVIOUS
<1>2. i \in Nat /\ j \in Int /\ j - i + 1 = Len(s)
  BY <1>1
<1>3. \A x \in 1 .. Len(s) : b[i + x - 1] = s[x]
  <2>1. ASSUME NEW x \in 1 .. Len(s) PROVE b[i + x - 1] = s[x]
    <3>1. i + x - 1 = o + x
      BY <1>1
    <3> QED
      BY <3>1 DEF Holds
  <2> QED
    BY <2>1
<1>4. SubSeq(b, i, j) = s
  BY <1>2, <1>3, SubSeqIs
<1> QED
  BY <1>1, <1>4

-----------------------------------------------------------------------------
LEMMA Field16Bytes ==
  ASSUME NEW v \in Nat
  PROVE  /\ Field16(v) \in Seq(Octets) /\ Len(Field16(v)) = 2
         /\ Field16(v)[1] = (v \div 256) % 256 /\ Field16(v)[2] = v % 256
<1>1. PICK x, y : x = (v \div 256) % 256 /\ y = v % 256
  OBVIOUS
<1>2. x \in Octets /\ y \in Octets
  BY <1>1 DEF Octets
<1>3. Field16(v) = <<x, y>>
  BY <1>1 DEF Field16
<1> HIDE DEF Octets
<1> QED
  BY <1>1, <1>2, <1>3


LEMMA Field16Read ==
  ASSUME NEW b, NEW o \in Nat, NEW v \in Nat, Is16(v), Holds(b, o, Field16(v))
  PROVE  Uint16(b, o + 1) = v
<1>1. Len(Field16(v)) = 2 /\ Field16(v)[1] = (v \div 256) % 256 /\ Field16(v)[2] = v % 256
  BY Field16Bytes
<1>2. b[o + 1] = (v \div 256) % 256 /\ b[o + 2] = v % 256
  <2>1. 1 \in 1 .. 2 /\ 2 \in 1 .. 2
    OBVIOUS
  <2> QED
    BY <1>1, <2>1 DEF Holds
<1>3. (((v \div 256) % 256) * 256) + (v % 256) = v
  <2>1. v < 65536
    BY DEF Is16
  <2> QED
    BY <2>1
<1>4. o + 1 + 1 = o + 2
  OBVIOUS
<1> QED
  BY <1>2, <1>3, <1>4 DEF Uint16

LEMMA Field32Bytes ==
  ASSUME NEW v \in Nat
  PROVE  Field32(v) \in Seq(Octets) /\ Len(Field32(v)) = 4
<1>1. PICK w \in Nat : w = v \div 65536
  OBVIOUS
<1>2. Field16(w) \in Seq(Octets) /\ Len(Field16(w)) = 2
  BY Field16Bytes
<1>3. Field16(v) \in Seq(Octets) /\ Len(Field16(v)) = 2
  BY Field16Bytes
<1>4. PICK s, t : s = Field16(w) /\ t = Field16(v)
  OBVIOUS
<1>5. Field32(v) = s \o t
  BY <1>1, <1>4 DEF Field32
<1>6. s \in Seq(Octets) /\ t \in Seq(Octets) /\ Len(s) = 2 /\ Len(t) = 2
  BY <1>2, <1>3, <1>4
<1>7. s \o t \in Seq(Octets) /\ Len(s \o t) = Len(s) + Len(t)
  BY <1>6, ConcatProperties
<1> QED
  BY <1>5, <1>6, <1>7

LEMMA Halves ==
  ASSUME NEW v \in Nat, v \div 65536 < 65536
  PROVE  \E w, u \in Nat : /\ w < 65536 /\ u < 65536 /\ w = v \div 65536 /\ v = (w * 65536) + u
                           /\ (v \div 256) % 256 = (u \div 256) % 256 /\ v % 256 = u % 256
<1>1. PICK w \in Nat : w = v \div 65536
  OBVIOUS
<1>2. PICK u \in Nat : u = v % 65536
  OBVIOUS
<1>3. u < 65536 /\ v = (w * 65536) + u
  BY <1>1, <1>2
<1>4. (v \div 256) % 256 = (u \div 256) % 256
  BY <1>3
<1>5. v % 256 = u % 256
  BY <1>3
<1> QED
  BY <1>1, <1>3, <1>4, <1>5

LEMMA Field32Read ==
  ASSUME NEW T, NEW b \in Seq(T), NEW o \in Nat, NEW v \in Nat, v \div 65536 < 65536, Holds(b, o, Field32(v))
  PROVE  Uint32(b, o + 1) = v
<1>1. PICK w, u \in Nat : /\ w < 65536 /\ u < 65536 /\ w = v \div 65536 /\ v = (w * 65536) + u
                         /\ (v \div 256) % 256 = (u \div 256) % 256 /\ v % 256 = u % 256
  BY Halves
<1>2. PICK s, t : s = Field16(w) /\ t = Field16(u)
  OBVIOUS
<1>3. Field16(v) = t
  BY <1>1, <1>2 DEF Field16
<1>4. s \in Seq(Octets) /\ t \in Seq(Octets) /\ Len(s) = 2
  BY <1>2, Field16Bytes
<1>5. Holds(b, o, s \o t)
  BY <1>1, <1>2, <1>3 DEF Field32
<1>6. Holds(b, o, s) /\ Holds(b, o + Len(s), t)
  <2>1. s \in Seq(Octets) /\ t \in Seq(Octets)
    BY <1>4
  <2> QED
    BY <1>5, <2>1, HoldsTwo
<1>7. PICK q \in Nat : q = o + 2
  OBVIOUS
<1>8. Uint16(b, o + 1) = w
  <2>1. Is16(w)
    BY <1>1 DEF Is16
  <2> QED
    BY <1>2, <1>6, <2>1, Field16Read
<1>9. Uint16(b, q + 1) = u
  <2>1. Holds(b, q, Field16(u))
    BY <1>2, <1>4, <1>6, <1>7
  <2>2. Is16(u)
    BY <1>1 DEF Is16
  <2> QED
    BY <2>1, <2>2, Field16Read
<1>10. q + 1 = (o + 1) + 2
  BY <1>7
<1> QED
  BY <1>1, <1>8, <1>9, <1>10 DEF Uint32

LEMMA PartsOne ==
  ASSUME NEW S, NEW s \in Seq(S)
  PROVE  \E f : Parts(f, <<s>>, s)
<1>1. PICK l \in Nat : l = Len(s)
  OBVIOUS
<1> DEFINE f == [i \in 0 .. 1 |-> IF i = 0 THEN 0 ELSE l]
<1>2. f \in [0 .. 1 -> 0 .. l] /\ f[0] = 0 /\ f[1] = l
  OBVIOUS
<1>3. \A j \in 1 .. l : s[0 + j] = s[j]
  OBVIOUS
<1>4. Len(<<s>>) = 1 /\ <<s>>[1] = s
  OBVIOUS
<1>5. \A i \in 1 .. 1 : i = 1 /\ i - 1 = 0
  OBVIOUS
<1> HIDE DEF f
<1>6. Parts(f, <<s>>, s)
  BY <1>1, <1>2, <1>3, <1>4, <1>5 DEF Parts
<1> QED
  BY <1>6

LEMMA PartsNone == \E f : Parts(f, <<>>, <<>>)
<1> DEFINE f == [i \in 0 .. 0 |-> 0]
<1>1. f \in [0 .. 0 -> 0 .. 0] /\ f[0] = 0 /\ Len(<<>>) = 0
  OBVIOUS
<1> HIDE DEF f
<1>2. Parts(f, <<>>, <<>>)
  BY <1>1 DEF Parts
<1> QED
  BY <1>2

LEMMA PartsJoin ==
  ASSUME NEW S, NEW ss \in Seq(Seq(S)), NEW tt \in Seq(Seq(S)), NEW a \in Seq(S), NEW b \in Seq(S),
         NEW f, NEW g, Parts(f, ss, a), Parts(g, tt, b)
  PROVE  \E h : Parts(h, ss \o tt, a \o b)
<1>1. PICK n, m, l, k \in Nat : n = Len(ss) /\ m = Len(tt) /\ l = Len(a) /\ k = Len(b)
  OBVIOUS
<1>2. PICK c, uu : c = a \o b /\ uu = ss \o tt
  OBVIOUS
<1>3. /\ c \in Seq(S) /\ Len(c) = l + k
      /\ \A x \in 1 .. l : c[x] = a[x]
      /\ \A x \in 1 .. k : c[l + x] = b[x]
  BY <1>1, <1>2, TwoInARow
<1>4. /\ Len(uu) = n + m
      /\ \A i \in 1 .. n : uu[i] = ss[i]
      /\ \A i \in 1 .. m : uu[n + i] = tt[i]
  BY <1>1, <1>2, TwoInARow
<1>5. /\ f \in [0 .. n -> 0 .. l] /\ f[0] = 0 /\ f[n] = l
      /\ \A i \in 1 .. n : f[i] = f[i - 1] + Len(ss[i]) /\ \A j \in 1 .. Len(ss[i]) : a[f[i - 1] + j] = ss[i][j]
  BY <1>1 DEF Parts
<1>6. /\ g \in [0 .. m -> 0 .. k] /\ g[0] = 0 /\ g[m] = k
      /\ \A i \in 1 .. m : g[i] = g[i - 1] + Len(tt[i]) /\ \A j \in 1 .. Len(tt[i]) : b[g[i - 1] + j] = tt[i][j]
  BY <1>1 DEF Parts
<1> DEFINE h == [i \in 0 .. n + m |-> IF i <= n THEN f[i] ELSE l + g[i - n]]
<1>7. \A i \in 0 .. n : h[i] = f[i] /\ f[i] \in 0 .. l
  BY <1>5
<1>8. \A i \in 0 .. m : h[n + i] = l + g[i] /\ g[i] \in 0 .. k
  <2>1. ASSUME NEW i \in 0 .. m PROVE h[n + i] = l + g[i] /\ g[i] \in 0 .. k
    <3>1. g[i] \in 0 .. k /\ n + i \in 0 .. n + m
      BY <1>6
    <3>2. CASE i = 0
      BY <1>5, <1>6, <3>1, <3>2
    <3>3. CASE i # 0
      <4>1. ~(n + i <= n) /\ (n + i) - n = i
        BY <3>3
      <4> QED
        BY <3>1, <4>1
    <3> QED
      BY <3>2, <3>3
  <2> QED
    BY <2>1
<1>9. h \in [0 .. n + m -> 0 .. l + k]
  <2>1. ASSUME NEW i \in 0 .. n + m PROVE h[i] \in 0 .. l + k
    <3>1. CASE i <= n
      <4> HIDE DEF h
      <4>1. i \in 0 .. n
        BY <3>1
      <4>2. h[i] \in 0 .. l
        BY <1>7, <4>1
      <4> QED
        BY <4>2
    <3>2. CASE ~(i <= n)
      <4>1. PICK j \in 0 .. m : i = n + j
        <5>1. i - n \in 0 .. m /\ i = n + (i - n)
          BY <3>2
        <5> QED
          BY <5>1
      <4> HIDE DEF h
      <4>2. h[n + j] = l + g[j] /\ g[j] \in 0 .. k
        BY <1>8
      <4> QED
        BY <4>1, <4>2
    <3> QED
      BY <3>1, <3>2
  <2> QED
    BY <2>1
<1> HIDE DEF h
<1>10. h[0] = 0 /\ h[n + m] = l + k
  <2>1. 0 \in 0 .. n /\ m \in 0 .. m
    OBVIOUS
  <2>2. h[0] = f[0] /\ h[n + m] = l + g[m]
    BY <1>7, <1>8, <2>1, Zenon
  <2> QED
    BY <1>5, <1>6, <2>2, Zenon
<1>11. ASSUME NEW i \in 1 .. n + m
       PROVE  h[i] = h[i - 1] + Len(uu[i]) /\ \A j \in 1 .. Len(uu[i]) : c[h[i - 1] + j] = uu[i][j]
  <2>1. CASE i <= n
    <3>1. i \in 1 .. n /\ i \in 0 .. n /\ i - 1 \in 0 .. n
      BY <2>1
    <3>2. h[i] = f[i] /\ h[i - 1] = f[i - 1] /\ uu[i] = ss[i] /\ f[i] \in 0 .. l /\ f[i - 1] \in 0 .. l
      BY <1>4, <1>7, <3>1
    <3>3. f[i] = f[i - 1] + Len(ss[i]) /\ \A j \in 1 .. Len(ss[i]) : a[f[i - 1] + j] = ss[i][j]
      BY <1>5, <3>1
    <3>4. PICK p, q : p = f[i - 1] /\ q = Len(ss[i])
      OBVIOUS
    <3>5. p \in Nat /\ q \in Nat /\ p + q <= l
      <4>1. ss[i] \in Seq(S)
        BY <1>1, <3>1
      <4>2. q \in Nat
        BY <3>4, <4>1
      <4> QED
        BY <3>2, <3>3, <3>4, <4>2
    <3>6. ASSUME NEW j \in 1 .. q PROVE c[p + j] = ss[i][j]
      <4>1. PICK y : y = p + j
        OBVIOUS
      <4>2. y \in 1 .. l
        BY <3>5, <4>1
      <4>3. c[y] = a[y]
        BY <1>3, <4>2
      <4> QED
        BY <3>3, <3>4, <4>1, <4>3
    <3> QED
      BY <3>2, <3>3, <3>4, <3>6
  <2>2. CASE ~(i <= n)
    <3>1. PICK e \in 1 .. m : i = n + e
      <4>1. i - n \in 1 .. m /\ i = n + (i - n)
        BY <2>2
      <4> QED
        BY <4>1
    <3>2. e \in 0 .. m /\ e - 1 \in 0 .. m /\ i - 1 = n + (e - 1)
      BY <3>1
    <3>3. h[i] = l + g[e] /\ h[i - 1] = l + g[e - 1] /\ uu[i] = tt[e] /\ g[e] \in 0 .. k /\ g[e - 1] \in 0 .. k
      BY <1>4, <1>8, <3>1, <3>2
    <3>4. g[e] = g[e - 1] + Len(tt[e]) /\ \A j \in 1 .. Len(tt[e]) : b[g[e - 1] + j] = tt[e][j]
      BY <1>6
    <3>5. PICK p, q : p = g[e - 1] /\ q = Len(tt[e])
      OBVIOUS
    <3>6. p \in Nat /\ q \in Nat /\ p + q <= k
      <4>1. tt[e] \in Seq(S)
        BY <1>1
      <4>2. q \in Nat
        BY <3>5, <4>1
      <4> QED
        BY <3>3, <3>4, <3>5, <4>2
    <3>7. ASSUME NEW j \in 1 .. q PROVE c[(l + p) + j] = tt[e][j]
      <4>1. PICK y : y = p + j
        OBVIOUS
      <4>2. y \in 1 .. k /\ l + y = (l + p) + j
        BY <3>6, <4>1
      <4>3. c[l + y] = b[y]
        BY <1>3, <4>2
      <4> QED
        BY <3>4, <3>5, <4>1, <4>2, <4>3
    <3>8. l + g[e] = (l + p) + q
      BY <3>4, <3>5, <3>6
    <3> QED
      BY <3>3, <3>5, <3>7, <3>8
  <2> QED
    BY <2>1, <2>2
<1>12. Parts(h, uu, c)
  BY <1>3, <1>4, <1>9, <1>10, <1>11 DEF Parts
<1> QED
  BY <1>2, <1>12

LEMMA ZerosAre ==
  ASSUME NEW n \in Nat
  PROVE  Zeros(n) \in Seq(Octets) /\ Len(Zeros(n)) = n
<1>1. \A i \in 1 .. n : 0 \in Octets
  BY DEF Octets
<1>2. [i \in 1 .. n |-> 0] \in Seq(Octets)
  BY <1>1
<1> QED
  BY <1>2 DEF Zeros

LEMMA PaddingIs ==
  ASSUME NEW n \in Nat
  PROVE  Padding(n) \in Nat /\ Padding(n) < 4 /\ (n + Padding(n)) % 4 = 0
  BY DEF Padding

\* An attribute as it is written, and read at its offset.
LEMMA AttributeIs ==
  ASSUME NEW type \in Nat, NEW data \in Seq(Octets)
  PROVE  /\ EncodeAttribute(type, data) \in Seq(Octets)
         /\ Len(EncodeAttribute(type, data)) = 4 + Len(data) + Padding(Len(data))
<1>1. PICK n \in Nat : n = Len(data)
  OBVIOUS
<1>2. PICK p \in Nat : p = Padding(n)
  BY PaddingIs
<1>3. PICK s, t, z : s = Field16(type) /\ t = Field16(n) /\ z = Zeros(p)
  OBVIOUS
<1>4. s \in Seq(Octets) /\ Len(s) = 2 /\ t \in Seq(Octets) /\ Len(t) = 2 /\ z \in Seq(Octets) /\ Len(z) = p
  BY <1>3, Field16Bytes, ZerosAre
<1>5. PICK u, v, w : u = s \o t /\ v = u \o data /\ w = v \o z
  OBVIOUS
<1>6. u \in Seq(Octets) /\ Len(u) = 4
  <2>1. s \in Seq(Octets) /\ t \in Seq(Octets) /\ u = s \o t
    BY <1>4, <1>5
  <2>2. u \in Seq(Octets) /\ Len(u) = Len(s) + Len(t)
    BY <2>1, TwoInARow
  <2> QED
    BY <1>4, <2>2
<1>7. v \in Seq(Octets) /\ Len(v) = 4 + n
  BY <1>1, <1>5, <1>6, TwoInARow
<1>8. w \in Seq(Octets) /\ Len(w) = 4 + n + p
  <2>1. v \in Seq(Octets) /\ z \in Seq(Octets) /\ w = v \o z
    BY <1>4, <1>5, <1>7
  <2>2. w \in Seq(Octets) /\ Len(w) = Len(v) + Len(z)
    BY <2>1, TwoInARow
  <2> QED
    BY <1>4, <1>7, <2>2
<1>9. w = EncodeAttribute(type, data)
  BY <1>1, <1>2, <1>3, <1>5 DEF EncodeAttribute
<1> QED
  BY <1>1, <1>2, <1>8, <1>9

LEMMA AttributeRead ==
  ASSUME NEW b \in Seq(Octets), NEW o \in Nat, NEW type \in Nat, NEW data \in Seq(Octets),
         Is16(type), Is16(Len(data)), Holds(b, o, EncodeAttribute(type, data))
  PROVE  /\ Uint16(b, o + 1) = type /\ Uint16(b, o + 3) = Len(data)
         /\ SubSeq(b, o + 5, o + 4 + Len(data)) = data
         /\ o + 4 + Len(data) <= Len(b)
<1>1. PICK n \in Nat : n = Len(data)
  OBVIOUS
<1>2. PICK p \in Nat : p = Padding(n)
  BY PaddingIs
<1>3. PICK s, t, z : s = Field16(type) /\ t = Field16(n) /\ z = Zeros(p)
  OBVIOUS
<1>4. s \in Seq(Octets) /\ Len(s) = 2 /\ t \in Seq(Octets) /\ Len(t) = 2 /\ z \in Seq(Octets) /\ Len(z) = p
  BY <1>3, Field16Bytes, ZerosAre
<1> DEFINE u == s \o t
           v == u \o data
<1>5. u = s \o t /\ v = u \o data
  OBVIOUS
<1> HIDE DEF u, v
<1>6. u \in Seq(Octets) /\ Len(u) = 4
  <2>1. s \in Seq(Octets) /\ t \in Seq(Octets) /\ u = s \o t
    BY <1>4, <1>5
  <2>2. u \in Seq(Octets) /\ Len(u) = Len(s) + Len(t)
    BY <2>1, TwoInARow
  <2> QED
    BY <1>4, <2>2
<1>7. v \in Seq(Octets) /\ Len(v) = 4 + n
  BY <1>1, <1>5, <1>6, TwoInARow
<1>8. Holds(b, o, v \o z)
  BY <1>1, <1>2, <1>3, <1>5 DEF EncodeAttribute
<1>9. Holds(b, o, u \o data)
  <2>1. v \in Seq(Octets) /\ z \in Seq(Octets)
    BY <1>4, <1>7
  <2>2. Holds(b, o, v)
    BY <1>8, <2>1, HoldsTwo
  <2> QED
    BY <1>5, <2>2
<1>10. Holds(b, o, s \o t) /\ Holds(b, o + Len(u), data)
  <2>1. u \in Seq(Octets)
    BY <1>6
  <2>2. Holds(b, o, u) /\ Holds(b, o + Len(u), data)
    BY <1>9, <2>1, HoldsTwo
  <2> QED
    BY <1>5, <2>2
<1>11. Holds(b, o, s) /\ Holds(b, o + Len(s), t)
  <2>1. s \in Seq(Octets) /\ t \in Seq(Octets)
    BY <1>4
  <2> QED
    BY <1>10, <2>1, HoldsTwo
<1>12. PICK q, r \in Nat : q = o + 2 /\ r = o + 4
  OBVIOUS
<1>13. Uint16(b, o + 1) = type
  BY <1>3, <1>11, Field16Read
<1>14. Uint16(b, o + 3) = n
  <2>1. Holds(b, q, Field16(n))
    BY <1>3, <1>4, <1>11, <1>12
  <2>2. Is16(n)
    BY <1>1
  <2>3. Uint16(b, q + 1) = n
    BY <2>1, <2>2, Field16Read
  <2>4. q + 1 = o + 3
    BY <1>12
  <2> QED
    BY <2>3, <2>4
<1>15. Holds(b, r, data)
  BY <1>6, <1>10, <1>12
<1>16. SubSeq(b, r + 1, r + Len(data)) = data
  BY <1>15, HoldsCut
<1>17. r + Len(data) <= Len(b)
  BY <1>15 DEF Holds
<1>18. r + 1 = o + 5 /\ r + n = o + 4 + n
  BY <1>12
<1> QED
  BY <1>1, <1>12, <1>13, <1>14, <1>16, <1>17, <1>18

-----------------------------------------------------------------------------
IsAttribute(a) ==
    /\ a.type \in Nat /\ Is16(a.type) /\ a.data \in Seq(Octets) /\ Is16(Len(a.data))
    /\ a = Attribute(a.type, a.data)
AttributesOf(ats) == \E S : ats \in Seq(S) /\ \A i \in 1 .. Len(ats) : IsAttribute(ats[i])
Written(ats) == [i \in DOMAIN ats |-> EncodeAttribute(ats[i].type, ats[i].data)]

LEMMA WrittenIs ==
  ASSUME NEW ats, AttributesOf(ats)
  PROVE  /\ Len(ats) \in Nat /\ Written(ats) \in Seq(Seq(Octets)) /\ Len(Written(ats)) = Len(ats)
         /\ \A i \in 1 .. Len(ats) : Written(ats)[i] = EncodeAttribute(ats[i].type, ats[i].data)
<1>1. PICK S : ats \in Seq(S)
  BY DEF AttributesOf
<1>2. PICK n \in Nat : n = Len(ats) /\ DOMAIN ats = 1 .. n
  BY <1>1
<1>3. \A i \in 1 .. n : EncodeAttribute(ats[i].type, ats[i].data) \in Seq(Octets)
  <2>1. ASSUME NEW i \in 1 .. n PROVE EncodeAttribute(ats[i].type, ats[i].data) \in Seq(Octets)
    <3>1. PICK t, d : t = ats[i].type /\ d = ats[i].data
      OBVIOUS
    <3>2. t \in Nat /\ d \in Seq(Octets)
      BY <1>2, <3>1 DEF AttributesOf, IsAttribute
    <3>3. EncodeAttribute(t, d) \in Seq(Octets)
      BY <3>2, AttributeIs
    <3> QED
      BY <3>1, <3>3
  <2> QED
    BY <2>1
<1>4. Written(ats) = [i \in 1 .. n |-> EncodeAttribute(ats[i].type, ats[i].data)]
  BY <1>2 DEF Written
<1> DEFINE w == [i \in 1 .. n |-> EncodeAttribute(ats[i].type, ats[i].data)]
<1>5. w \in Seq(Seq(Octets)) /\ Len(w) = n /\ \A i \in 1 .. n : w[i] = EncodeAttribute(ats[i].type, ats[i].data)
  BY <1>3
<1> HIDE DEF w
<1> QED
  BY <1>2, <1>4, <1>5 DEF w

Starting(b, n, h) == \A k \in 1 .. n : h[k] = IF k = 1 THEN 20 ELSE AfterAttribute(b, h[k - 1])
ListedAt(b, n, h) == \A k \in 1 .. n : AttributesAt(b)[k] = h[k]

\* What the offsets are, if h has the first and goes on the same way.
LEMMA AttributesAtIs ==
  ASSUME NEW b, NEW n \in Nat, n = Len(b) + 1, NEW h,
         \A k \in 1 .. n : h[k] = IF k = 1 THEN 20 ELSE AfterAttribute(b, h[k - 1])
  PROVE  \A k \in 1 .. n : AttributesAt(b)[k] = h[k]
<1> DEFINE at[k \in 1 .. Len(b) + 1] == IF k = 1 THEN 20 ELSE AfterAttribute(b, at[k - 1])
           Unrolls(e) == e = [k \in 1 .. Len(b) + 1 |-> IF k = 1 THEN 20 ELSE AfterAttribute(b, e[k - 1])]
           g == [k \in 1 .. n |-> h[k]]
<1>1. Unrolls(g)
  <2> SUFFICES ASSUME NEW k \in 1 .. n
               PROVE  g[k] = IF k = 1 THEN 20 ELSE AfterAttribute(b, g[k - 1])
    OBVIOUS
  <2>1. k # 1 => k - 1 \in 1 .. n
    OBVIOUS
  <2>2. g[k] = h[k] /\ (k # 1 => g[k - 1] = h[k - 1])
    BY <2>1
  <2> HIDE DEF g
  <2> QED
    BY <2>2
<1>2. at = CHOOSE e : Unrolls(e)
  OBVIOUS
<1>3. Unrolls(at)
  <2> HIDE DEF Unrolls, g, at
  <2> QED
    BY <1>1, <1>2
<1>4. AttributesAt(b) = at
  BY DEF AttributesAt
<1>5. \A k \in 1 .. n : at[k] = IF k = 1 THEN 20 ELSE AfterAttribute(b, at[k - 1])
  <2> HIDE DEF at
  <2> QED
    BY <1>3
<1> HIDE DEF at
<1> DEFINE P == {k \in 0 .. n : k = 0 \/ at[k] = h[k]}
<1>6. ASSUME NEW k \in 1 .. n, k - 1 \in P PROVE k \in P
  <2>1. k # 1 => at[k - 1] = h[k - 1]
    BY <1>6
  <2>2. at[k] = h[k]
    BY <1>5, <2>1
  <2> QED
    BY <2>2
<1>7. 0 .. n \subseteq P
  <2>1. 0 \in P /\ n \in Nat
    OBVIOUS
  <2> HIDE DEF P
  <2> QED
    BY <1>6, <2>1, AllUpTo
<1> QED
  BY <1>4, <1>7

LEMMA StartsAt == \A b, h : \A n \in Nat : n = Len(b) + 1 /\ Starting(b, n, h) => ListedAt(b, n, h)
  BY AttributesAtIs DEF Starting, ListedAt

\* Attributes one after the other under a header that has their length are read.
LEMMA AttributesParsed ==
  ASSUME NEW b \in Seq(Octets), NEW ats, NEW flat \in Seq(Octets), NEW f, AttributesOf(ats),
         Parts(f, Written(ats), flat), Len(b) = 20 + Len(flat), Uint16(b, 3) = Len(flat), Holds(b, 20, flat)
  PROVE  ParseAttributes(b) = ats
<1>1. PICK S : ats \in Seq(S)
  BY DEF AttributesOf
<1>2. PICK N, L \in Nat : N = Len(ats) /\ L = Len(flat)
  BY <1>1
<1>3. PICK ws : ws = Written(ats)
  OBVIOUS
<1>4. /\ ws \in Seq(Seq(Octets)) /\ Len(ws) = N
      /\ \A i \in 1 .. N : ws[i] = EncodeAttribute(ats[i].type, ats[i].data) /\ IsAttribute(ats[i])
  BY <1>2, <1>3, WrittenIs DEF AttributesOf
<1>5. f \in [0 .. N -> 0 .. L] /\ f[0] = 0 /\ f[N] = L /\ \A i \in 1 .. N : f[i] = f[i - 1] + Len(ws[i])
  BY <1>2, <1>3, <1>4 DEF Parts
<1>6. \A i \in 0 .. N : f[i] \in Nat /\ f[i] <= L
  BY <1>2, <1>5
<1>7. Len(b) = 20 + L /\ Uint16(b, 3) = L
  BY <1>2
\* Each is there, and fits.
<1>8. ASSUME NEW i \in 1 .. N
      PROVE  /\ AttributeFits(b, 20 + f[i - 1])
             /\ AfterAttribute(b, 20 + f[i - 1]) = 20 + f[i]
             /\ AttributeAt(b, 20 + f[i - 1]) = ats[i]
             /\ f[i - 1] < f[i]
  <2>1. PICK o, g \in Nat : o = 20 + f[i - 1] /\ g = f[i]
    <3>1. i - 1 \in 0 .. N /\ i \in 0 .. N
      OBVIOUS
    <3>2. f[i - 1] \in Nat /\ f[i] \in Nat
      BY <1>6, <3>1
    <3> QED
      BY <3>2
  <2>2. PICK type \in Nat, data \in Seq(Octets) : type = ats[i].type /\ data = ats[i].data
    BY <1>4 DEF IsAttribute
  <2>3. Is16(type) /\ Is16(Len(data)) /\ ats[i] = Attribute(type, data) /\ ws[i] = EncodeAttribute(type, data)
    BY <1>4, <2>2 DEF IsAttribute
  <2>4. Holds(b, o, EncodeAttribute(type, data))
    <3>1. 20 \in Nat /\ i \in 1 .. Len(ws) /\ Parts(f, ws, flat)
      BY <1>3, <1>4
    <3>2. Holds(b, 20 + f[i - 1], ws[i])
      BY <1>4, <3>1, HoldsPart
    <3> QED
      BY <2>1, <2>3, <3>2
  <2>5. PICK l \in Nat : l = Len(data)
    BY <2>2, LenProperties, Zenon
  <2>6. PICK p \in Nat : p = Padding(l)
    BY PaddingIs
  <2>7. /\ Uint16(b, o + 1) = type /\ Uint16(b, o + 3) = l
        /\ SubSeq(b, o + 5, o + 4 + l) = data
        /\ o + 4 + l <= Len(b)
    <3>1. /\ Uint16(b, o + 1) = type /\ Uint16(b, o + 3) = Len(data)
          /\ SubSeq(b, o + 5, o + 4 + Len(data)) = data
          /\ o + 4 + Len(data) <= Len(b)
      BY <2>3, <2>4, AttributeRead
    <3> QED
      BY <2>5, <3>1, Zenon
  <2>8. g = f[i - 1] + (4 + l + p)
    <3>1. Len(EncodeAttribute(type, data)) = 4 + Len(data) + Padding(Len(data))
      BY AttributeIs
    <3>2. f[i] = f[i - 1] + Len(ws[i])
      BY <1>5
    <3> QED
      BY <2>1, <2>3, <2>5, <2>6, <3>1, <3>2
  <2>9. g <= L
    <3>1. i \in 0 .. N
      OBVIOUS
    <3> QED
      BY <1>6, <2>1, <3>1
  <2>10. f[i - 1] = o - 20
    <3>1. i - 1 \in 0 .. N
      OBVIOUS
    <3>2. f[i - 1] \in Nat
      BY <1>6, <3>1
    <3> QED
      BY <2>1, <3>2
  <2>11. AttributeFits(b, o)
    <3>1. o + 4 <= 20 + L /\ o + 4 <= Len(b) /\ o + 4 + l <= Len(b)
      BY <1>7, <2>7, <2>8, <2>9, <2>10
    <3> QED
      BY <1>7, <2>7, <3>1 DEF AttributeFits
  <2>12. AfterAttribute(b, o) = 20 + g
    <3>1. AfterAttribute(b, o) = o + 4 + l + p
      BY <2>6, <2>7, <2>11 DEF AfterAttribute
    <3> QED
      BY <2>8, <2>10, <3>1
  <2>13. AttributeAt(b, o) = ats[i]
    <3>1. SubSeq(b, o + 5, o + 4 + Uint16(b, o + 3)) = data
      BY <2>7
    <3>2. Attribute(Uint16(b, o + 1), SubSeq(b, o + 5, o + 4 + Uint16(b, o + 3))) = Attribute(type, data)
      BY <2>7, <3>1, Zenon
    <3> QED
      BY <2>3, <3>2 DEF AttributeAt
  <2> QED
    BY <2>1, <2>8, <2>10, <2>11, <2>12, <2>13
<1>9. ~AttributeFits(b, 20 + L)
  BY <1>7 DEF AttributeFits
<1> DEFINE M == Len(b) + 1
           h == [k \in 1 .. M |-> 20 + f[IF k <= N THEN k - 1 ELSE N]]
\* There are no more attributes than bytes.
<1>10. N <= L
  <2> DEFINE P == {i \in 0 .. N : i <= f[i]}
  <2>1. 0 \in P
    BY <1>5
  <2>2. ASSUME NEW i \in 1 .. N, i - 1 \in P PROVE i \in P
    <3>1. i - 1 <= f[i - 1] /\ f[i - 1] < f[i] /\ f[i - 1] \in Nat /\ f[i] \in Nat
      <4>1. i - 1 \in 0 .. N /\ i \in 0 .. N
        OBVIOUS
      <4> QED
        BY <1>6, <1>8, <2>2, <4>1
    <3> QED
      BY <3>1
  <2>3. 0 .. N \subseteq P
    <3> HIDE DEF P
    <3> QED
      BY <2>1, <2>2, AllUpTo
  <2>4. N \in 0 .. N
    OBVIOUS
  <2>5. N <= f[N]
    BY <2>3, <2>4
  <2> QED
    BY <1>5, <2>5
<1>11. M \in Nat /\ N < M /\ M = Len(b) + 1
  BY <1>7, <1>10
<1>12. /\ \A k \in 1 .. N : h[k] = 20 + f[k - 1]
       /\ \A k \in N + 1 .. M : h[k] = 20 + L
  <2>1. ASSUME NEW k \in 1 .. N PROVE h[k] = 20 + f[k - 1]
    BY <1>11
  <2>2. ASSUME NEW k \in N + 1 .. M PROVE h[k] = 20 + L
    BY <1>5, <1>11
  <2> QED
    BY <2>1, <2>2
<1> HIDE DEF h
<1>13. ASSUME NEW k \in 1 .. M PROVE h[k] = IF k = 1 THEN 20 ELSE AfterAttribute(b, h[k - 1])
  <2>1. CASE k = 1
    <3>1. CASE N = 0
      <4>1. k \in N + 1 .. M
        BY <1>11, <2>1, <3>1
      <4>2. L = 0
        BY <1>5, <3>1
      <4> QED
        BY <1>12, <2>1, <4>1, <4>2
    <3>2. CASE N # 0
      <4>1. k \in 1 .. N /\ k - 1 = 0
        BY <2>1, <3>2
      <4> QED
        BY <1>5, <1>12, <2>1, <4>1
    <3> QED
      BY <3>1, <3>2
  <2>2. CASE k # 1 /\ k - 1 <= N
    <3>1. k - 1 \in 1 .. N
      BY <2>2
    <3>2. AfterAttribute(b, h[k - 1]) = 20 + f[k - 1]
      BY <1>8, <1>12, <3>1
    <3>3. CASE k <= N
      <4>1. k \in 1 .. N
        BY <3>3
      <4> QED
        BY <1>12, <2>2, <3>2, <4>1
    <3>4. CASE k = N + 1
      <4>1. k \in N + 1 .. M /\ k - 1 = N
        BY <1>11, <3>4
      <4> QED
        BY <1>5, <1>12, <2>2, <3>2, <4>1
    <3> QED
      BY <2>2, <3>3, <3>4
  <2>3. CASE ~(k - 1 <= N)
    <3>1. k \in N + 1 .. M /\ k - 1 \in N + 1 .. M /\ k # 1
      BY <1>11, <2>3
    <3>2. h[k] = 20 + L /\ h[k - 1] = 20 + L
      BY <1>12, <3>1
    <3>3. AfterAttribute(b, 20 + L) = 20 + L
      BY <1>9 DEF AfterAttribute
    <3> QED
      BY <3>1, <3>2, <3>3
  <2> QED
    BY <2>1, <2>2, <2>3
<1> HIDE DEF M
<1>14. PICK at : at = AttributesAt(b)
  OBVIOUS
<1>15. \A k \in 1 .. M : at[k] = h[k]
  <2>1. Starting(b, M, h)
    BY <1>13, Zenon DEF Starting
  <2>2. ListedAt(b, M, h)
    BY <1>11, <2>1, StartsAt, Zenon
  <2> QED
    BY <1>14, <2>2, Zenon DEF ListedAt
<1>16. /\ \A k \in 1 .. N : AttributeFits(b, at[k]) /\ AttributeAt(b, at[k]) = ats[k]
       /\ ~AttributeFits(b, at[N + 1])
  <2>1. ASSUME NEW k \in 1 .. N PROVE AttributeFits(b, at[k]) /\ AttributeAt(b, at[k]) = ats[k]
    <3>1. k \in 1 .. M
      BY <1>11
    <3>2. at[k] = 20 + f[k - 1]
      BY <1>12, <1>15, <3>1
    <3> QED
      BY <1>8, <3>2
  <2>2. ~AttributeFits(b, at[N + 1])
    <3>1. N + 1 \in 1 .. M /\ N + 1 \in N + 1 .. M
      BY <1>11
    <3>2. at[N + 1] = 20 + L
      BY <1>12, <1>15, <3>1
    <3> QED
      BY <1>9, <3>2
  <2> QED
    BY <2>1, <2>2
<1> DEFINE Ends(n) == ~AttributeFits(b, at[n + 1]) /\ \A k \in 1 .. n : AttributeFits(b, at[k])
           count == CHOOSE n \in 0 .. Len(b) : Ends(n)
<1>17. count = N
  <2>1. N \in 0 .. Len(b) /\ Ends(N)
    BY <1>11, <1>16
  <2>2. ASSUME NEW n \in 0 .. Len(b), Ends(n) PROVE n = N
    <3>1. n \in Nat
      OBVIOUS
    <3>2. CASE n < N
      <4>1. n + 1 \in 1 .. N
        BY <3>1, <3>2
      <4> QED
        BY <1>16, <2>2, <4>1
    <3>3. CASE n > N
      <4>1. N + 1 \in 1 .. n
        BY <3>1, <3>3
      <4> QED
        BY <1>16, <2>2, <4>1
    <3> QED
      BY <3>1, <3>2, <3>3
  <2>3. count \in 0 .. Len(b) /\ Ends(count)
    <3> HIDE DEF Ends
    <3> QED
      BY <2>1
  <2> HIDE DEF Ends, count
  <2> QED
    BY <2>2, <2>3
<1>18. ParseAttributes(b) = [k \in 1 .. count |-> AttributeAt(b, at[k])]
  BY <1>14 DEF ParseAttributes
<1> HIDE DEF count
<1>19. ParseAttributes(b) = [k \in 1 .. N |-> ats[k]]
  BY <1>16, <1>17, <1>18
<1>20. ats = [k \in 1 .. N |-> ats[k]]
  BY <1>1, <1>2
<1> QED
  BY <1>19, <1>20

LEMMA BytesTwo ==
  ASSUME NEW s \in Seq(Octets), NEW t \in Seq(Octets), NEW p, p = s \o t
  PROVE  /\ p \in Seq(Octets) /\ Len(p) = Len(s) + Len(t)
         /\ \A x \in 1 .. Len(s) : p[x] = s[x]
         /\ \A x \in 1 .. Len(t) : p[Len(s) + x] = t[x]
  BY TwoInARow

LEMMA BytesAre == \A x \in Octets : x \in Nat /\ x < 256
  BY DEF Octets

LEMMA MixedIs ==
  ASSUME NEW b \in Seq(Octets), NEW k \in Nat \ {0}, NEW sum \in Nat
  PROVE  Mixed(b, k, sum) \in Nat
<1>1. ASSUME NEW i \in Nat \ {0} PROVE OctetAt(b, i) \in Nat
  <2>1. CASE i <= Len(b)
    <3>1. i \in 1 .. Len(b)
      BY <2>1
    <3>2. b[i] \in Octets
      BY <3>1
    <3> QED
      BY <2>1, <3>2, BytesAre DEF OctetAt
  <2>2. CASE ~(i <= Len(b))
    BY <2>2 DEF OctetAt
  <2> QED
    BY <2>1, <2>2
<1>2. 4 * k - 3 \in Nat \ {0} /\ 4 * k - 2 \in Nat \ {0} /\ 4 * k - 1 \in Nat \ {0} /\ 4 * k \in Nat \ {0}
  OBVIOUS
<1>3. PICK x \in Nat : x = OctetAt(b, 4 * k - 3)
  BY <1>1, <1>2
<1>4. PICK y \in Nat : y = OctetAt(b, 4 * k - 2)
  BY <1>1, <1>2
<1>5. PICK z \in Nat : z = OctetAt(b, 4 * k - 1)
  BY <1>1, <1>2
<1>6. PICK w \in Nat : w = OctetAt(b, 4 * k)
  BY <1>1, <1>2
<1>7. PICK m \in Nat : m = sum * 31 + x + y * 3 + z * 5 + w * 7
  OBVIOUS
<1>8. m % 65521 \in Nat
  OBVIOUS
<1> QED
  BY <1>3, <1>4, <1>5, <1>6, <1>7, <1>8 DEF Mixed

LEMMA DigestSumIs ==
  ASSUME NEW b \in Seq(Octets)
  PROVE  DigestSum(b) \in Nat
<1> DEFINE words == Len(b) \div 4 + 1
           sum[k \in 0 .. words] == IF k = 0 THEN Len(b) ELSE Mixed(b, k, sum[k - 1])
           Unrolls(e) == e = [k \in 0 .. words |-> IF k = 0 THEN Len(b) ELSE Mixed(b, k, e[k - 1])]
           G == [p \in (1 .. words) \X Nat |-> Mixed(b, p[1], p[2])]
<1>1. Len(b) \in Nat /\ words \in Nat
  OBVIOUS
<1>2. \A k \in 1 .. words, s \in Nat : Mixed(b, k, s) \in Nat
  <2>1. \A k \in 1 .. words : k \in Nat \ {0}
    BY <1>1
  <2> QED
    BY <2>1, MixedIs
<1> HIDE DEF words
<1>3. \A k \in 1 .. words, s \in Nat : G[<<k, s>>] = Mixed(b, k, s)
  OBVIOUS
<1>4. PICK g : Steps(g, words, Nat, Len(b), G)
  <2>1. StepsStay(words, Nat, Len(b), G)
    <3> HIDE DEF G
    <3> QED
      BY <1>1, <1>2, <1>3 DEF StepsStay
  <2> HIDE DEF G
  <2> QED
    BY <2>1, StepsExist
<1> HIDE DEF G
<1>5. g \in [0 .. words -> Nat] /\ g[0] = Len(b) /\ \A k \in 1 .. words : g[k] = G[<<k, g[k - 1]>>]
  BY <1>4 DEF Steps
<1>6. \A k \in 1 .. words : g[k] = Mixed(b, k, g[k - 1])
  <2>1. ASSUME NEW k \in 1 .. words PROVE g[k] = Mixed(b, k, g[k - 1])
    <3>1. k - 1 \in 0 .. words
      BY <1>1
    <3>2. g[k - 1] \in Nat
      BY <1>5, <3>1
    <3> QED
      BY <1>3, <1>5, <3>2
  <2> QED
    BY <2>1
<1>7. Unrolls(g)
  <2>1. \A k \in 0 .. words : g[k] = IF k = 0 THEN Len(b) ELSE Mixed(b, k, g[k - 1])
    <3>1. \A k \in 0 .. words : k = 0 \/ k \in 1 .. words
      BY <1>1
    <3> QED
      BY <1>5, <1>6, <3>1
  <2>2. g = [k \in 0 .. words |-> g[k]]
    BY <1>5
  <2> QED
    BY <2>1, <2>2, Zenon
<1>8. sum = CHOOSE e : Unrolls(e)
  OBVIOUS
<1>9. Unrolls(sum)
  <2> HIDE DEF Unrolls, sum
  <2> QED
    BY <1>7, <1>8
<1>10. \A k \in 0 .. words : sum[k] = IF k = 0 THEN Len(b) ELSE Mixed(b, k, sum[k - 1])
  <2> HIDE DEF sum
  <2> QED
    BY <1>9
<1> HIDE DEF sum
<1>11. sum[words] \in Nat
  <2> DEFINE P == {k \in 0 .. words : sum[k] \in Nat}
  <2>1. 0 \in P
    BY <1>1, <1>10
  <2>2. ASSUME NEW k \in 1 .. words, k - 1 \in P PROVE k \in P
    <3>1. k \in 0 .. words /\ k # 0 /\ sum[k - 1] \in Nat
      BY <1>1, <2>2
    <3>2. sum[k] = Mixed(b, k, sum[k - 1])
      BY <1>10, <3>1
    <3> QED
      BY <1>2, <3>1, <3>2
  <2>3. 0 .. words \subseteq P
    <3> HIDE DEF P
    <3> QED
      BY <1>1, <2>1, <2>2, AllUpTo
  <2>4. words \in 0 .. words
    BY <1>1
  <2> QED
    BY <2>3, <2>4
<1>12. DigestSum(b) = sum[words]
  BY DEF DigestSum, sum, words
<1> QED
  BY <1>11, <1>12

LEMMA DigestIs ==
  ASSUME NEW b \in Seq(Octets), NEW n \in Nat
  PROVE  Digest(b, n) \in Seq(Octets) /\ Len(Digest(b, n)) = n
<1>12. PICK total \in Nat : total = DigestSum(b)
  BY DigestSumIs
<1>13. Digest(b, n) = [i \in 1 .. n |-> (total * i) % 251]
  BY <1>12 DEF Digest
<1>14. \A i \in 1 .. n : (total * i) % 251 \in Octets
  <2>1. ASSUME NEW i \in 1 .. n PROVE (total * i) % 251 \in Octets
    <3>1. total * i \in Nat
      OBVIOUS
    <3>2. PICK m \in Nat : m = total * i
      BY <3>1
    <3>3. m % 251 \in 0 .. 255
      OBVIOUS
    <3> QED
      BY <3>2, <3>3 DEF Octets
  <2> QED
    BY <2>1
<1>15. PICK d : d = [i \in 1 .. n |-> (total * i) % 251]
  OBVIOUS
<1>16. d \in [1 .. n -> Octets]
  BY <1>14, <1>15
<1>17. d \in Seq(Octets) /\ Len(d) = n
  BY <1>16
<1> QED
  BY <1>13, <1>15, <1>17

LEMMA CookieIs == Cookie \in Seq(Octets) /\ Len(Cookie) = 4
  BY DEF Cookie, Octets

\* The header of a message.
LEMMA HeaderIs ==
  ASSUME NEW type \in Nat, NEW length \in Nat, NEW tx \in Seq(Octets), NEW h,
         h = StunHeader(type, length, tx)
  PROVE  h \in Seq(Octets) /\ Len(h) = 8 + Len(tx)
<1>1. PICK s \in Seq(Octets) : s = Field16(type) /\ Len(s) = 2
  BY Field16Bytes
<1>2. PICK t \in Seq(Octets) : t = Field16(length) /\ Len(t) = 2
  BY Field16Bytes
<1>3. PICK c \in Seq(Octets) : c = Cookie /\ Len(c) = 4
  BY CookieIs
<1>4. PICK u : u = s \o t
  OBVIOUS
<1>5. u \in Seq(Octets) /\ Len(u) = 2 + 2
  <2>1. u \in Seq(Octets) /\ Len(u) = Len(s) + Len(t)
    BY <1>4, BytesTwo
  <2> QED
    BY <1>1, <1>2, <2>1
<1>6. PICK v : v = u \o c
  OBVIOUS
<1>7. v \in Seq(Octets) /\ Len(v) = 4 + 4
  <2>1. u \in Seq(Octets)
    BY <1>5
  <2>2. v \in Seq(Octets) /\ Len(v) = Len(u) + Len(c)
    BY <1>6, <2>1, BytesTwo
  <2> QED
    BY <1>3, <1>5, <2>2
<1>8. h = v \o tx
  BY <1>1, <1>2, <1>3, <1>4, <1>6 DEF StunHeader
<1>9. h \in Seq(Octets) /\ Len(h) = 8 + Len(tx)
  <2>1. v \in Seq(Octets) /\ tx \in Seq(Octets) /\ h = v \o tx
    BY <1>7, <1>8
  <2>2. h \in Seq(Octets) /\ Len(h) = Len(v) + Len(tx)
    BY <2>1, BytesTwo
  <2> QED
    BY <1>7, <2>2
<1> QED
  BY <1>9

LEMMA HeaderRead ==
  ASSUME NEW b \in Seq(Octets), NEW type \in Nat, NEW length \in Nat, NEW tx \in Seq(Octets), Len(tx) = 12,
         Is16(type), Is16(length), Holds(b, 0, StunHeader(type, length, tx))
  PROVE  /\ Len(b) >= 20 /\ Uint16(b, 1) = type /\ Uint16(b, 3) = length
         /\ SubSeq(b, 5, 8) = Cookie /\ b[1] = (type \div 256) % 256
         /\ SubSeq(b, 1, 2) = Field16(type)
<1>1. PICK s \in Seq(Octets) : s = Field16(type) /\ Len(s) = 2 /\ s[1] = (type \div 256) % 256
  BY Field16Bytes
<1>2. PICK t \in Seq(Octets) : t = Field16(length) /\ Len(t) = 2
  BY Field16Bytes
<1>3. PICK c \in Seq(Octets) : c = Cookie /\ Len(c) = 4
  BY CookieIs
<1>4. PICK u : u = s \o t
  OBVIOUS
<1>5. u \in Seq(Octets) /\ Len(u) = 2 + 2
  <2>1. u \in Seq(Octets) /\ Len(u) = Len(s) + Len(t)
    BY <1>4, BytesTwo
  <2> QED
    BY <1>1, <1>2, <2>1
<1>6. PICK v : v = u \o c
  OBVIOUS
<1>7. v \in Seq(Octets) /\ Len(v) = 4 + 4
  <2>1. u \in Seq(Octets)
    BY <1>5
  <2>2. v \in Seq(Octets) /\ Len(v) = Len(u) + Len(c)
    BY <1>6, <2>1, BytesTwo
  <2> QED
    BY <1>3, <1>5, <2>2
<1>8. Holds(b, 0, v \o tx)
  BY <1>1, <1>2, <1>3, <1>4, <1>6 DEF StunHeader
<1>9. Holds(b, 0, v) /\ Holds(b, 0 + Len(v), tx)
  BY <1>7, <1>8, HoldsTwo
<1>10. Holds(b, 0, u) /\ Holds(b, 0 + Len(u), c)
  <2>1. Holds(b, 0, u \o c)
    BY <1>6, <1>9
  <2> QED
    BY <1>5, <2>1, HoldsTwo
<1>11. Holds(b, 0, s) /\ Holds(b, 0 + Len(s), t)
  <2>1. Holds(b, 0, s \o t)
    BY <1>4, <1>10
  <2> QED
    BY <2>1, HoldsTwo
<1>12. Holds(b, 4, c) /\ Holds(b, 2, t) /\ Holds(b, 8, tx)
  BY <1>1, <1>5, <1>7, <1>9, <1>10, <1>11
<1>13. Len(b) >= 20
  BY <1>12 DEF Holds
<1>14. Uint16(b, 0 + 1) = type
  BY <1>1, <1>11, Field16Read
<1>15. Uint16(b, 2 + 1) = length
  BY <1>2, <1>12, Field16Read
<1>16. SubSeq(b, 4 + 1, 4 + Len(c)) = c
  BY <1>12, HoldsCut
<1>17. SubSeq(b, 0 + 1, 0 + Len(s)) = s
  BY <1>11, HoldsCut
<1>18. b[1] = s[1]
  <2>1. 1 \in 1 .. 2 /\ 0 + 1 = 1
    OBVIOUS
  <2> QED
    BY <1>1, <1>11, <2>1 DEF Holds
<1> QED
  BY <1>1, <1>3, <1>13, <1>14, <1>15, <1>16, <1>17, <1>18

LEMMA One ==
  ASSUME NEW S, NEW x \in S
  PROVE  <<x>> \in Seq(S) /\ Len(<<x>>) = 1 /\ <<x>>[1] = x
  OBVIOUS

\* What follows from attributes that are written one after the other.
LaidOut(ats, flat) == AttributesOf(ats) /\ flat \in Seq(Octets) /\ \E f : Parts(f, Written(ats), flat)

LEMMA EncodedLaidOut ==
  ASSUME NEW ats, AttributesOf(ats)
  PROVE  LaidOut(ats, Encoded(ats))
<1>1. Encoded(ats) = FlattenSeq(Written(ats))
  BY DEF Encoded, Written
<1>2. Written(ats) \in Seq(Seq(Octets))
  BY WrittenIs
<1>3. PICK ws \in Seq(Seq(Octets)) : ws = Written(ats)
  BY <1>2
<1>4. FlattenSeq(ws) \in Seq(Octets) /\ \E f : Parts(f, ws, FlattenSeq(ws))
  BY PartsLaidOut
<1> QED
  BY <1>1, <1>3, <1>4, Zenon DEF LaidOut

LEMMA LaidOutNext ==
  ASSUME NEW ats, NEW flat, NEW a, NEW e, LaidOut(ats, flat), IsAttribute(a), e = EncodeAttribute(a.type, a.data)
  PROVE  /\ LaidOut(ats \o <<a>>, flat \o e) /\ e \in Seq(Octets)
         /\ Len(ats \o <<a>>) = Len(ats) + 1 /\ \A i \in 1 .. Len(ats) : (ats \o <<a>>)[i] = ats[i]
<1>1. PICK S : ats \in Seq(S) /\ \A i \in 1 .. Len(ats) : IsAttribute(ats[i])
  BY DEF LaidOut, AttributesOf
<1> DEFINE T == S \cup {a}
<1>2. ats \in Seq(T) /\ <<a>> \in Seq(T) /\ Len(<<a>>) = 1 /\ <<a>>[1] = a
  BY <1>1
<1>3. PICK all : all = ats \o <<a>>
  OBVIOUS
<1> HIDE DEF T
<1>4. PICK n \in Nat : n = Len(ats)
  BY <1>1
<1>5. all \in Seq(T) /\ Len(all) = n + 1 /\ (\A i \in 1 .. n : all[i] = ats[i]) /\ all[n + 1] = a
  <2>1. ats \in Seq(T) /\ <<a>> \in Seq(T) /\ all = ats \o <<a>>
    BY <1>2, <1>3
  <2>2. /\ all \in Seq(T) /\ Len(all) = Len(ats) + Len(<<a>>)
        /\ \A i \in 1 .. Len(ats) : all[i] = ats[i]
        /\ \A i \in 1 .. Len(<<a>>) : all[Len(ats) + i] = <<a>>[i]
    BY <2>1, TwoInARow
  <2>3. 1 \in 1 .. 1
    OBVIOUS
  <2> QED
    BY <1>2, <1>4, <2>2, <2>3
<1>6. AttributesOf(all)
  <2>1. \A i \in 1 .. Len(all) : i \in 1 .. n \/ i = n + 1
    BY <1>5
  <2>2. \A i \in 1 .. Len(all) : IsAttribute(all[i])
    BY <1>1, <1>4, <1>5, <2>1
  <2> QED
    BY <1>5, <2>2 DEF AttributesOf
<1>7. e \in Seq(Octets)
  <2>1. PICK t, d : t = a.type /\ d = a.data
    OBVIOUS
  <2>2. t \in Nat /\ d \in Seq(Octets) /\ e = EncodeAttribute(t, d)
    BY <2>1 DEF IsAttribute
  <2> QED
    BY <2>2, AttributeIs
<1>8. PICK ws \in Seq(Seq(Octets)) :
        /\ ws = Written(ats) /\ Len(ws) = n
        /\ \A i \in 1 .. n : ws[i] = EncodeAttribute(ats[i].type, ats[i].data)
  BY <1>4, WrittenIs DEF LaidOut
<1>9. PICK es \in Seq(Seq(Octets)) : es = <<e>>
  BY <1>7, One
<1>10. PICK both : both = ws \o es
  OBVIOUS
<1>11. /\ both \in Seq(Seq(Octets)) /\ Len(both) = n + 1
       /\ (\A i \in 1 .. n : both[i] = ws[i]) /\ both[n + 1] = e
  <2>1. Len(es) = 1 /\ es[1] = e /\ 1 \in 1 .. 1
    BY <1>9
  <2>2. /\ both \in Seq(Seq(Octets)) /\ Len(both) = Len(ws) + Len(es)
        /\ \A i \in 1 .. Len(ws) : both[i] = ws[i]
        /\ \A i \in 1 .. Len(es) : both[Len(ws) + i] = es[i]
    BY <1>10, TwoInARow
  <2> QED
    BY <1>8, <2>1, <2>2
<1>12. both = Written(all)
  <2>1. PICK wall \in Seq(Seq(Octets)) :
          /\ wall = Written(all) /\ Len(wall) = n + 1
          /\ \A i \in 1 .. n + 1 : wall[i] = EncodeAttribute(all[i].type, all[i].data)
    BY <1>5, <1>6, WrittenIs
  <2>2. \A i \in 1 .. n + 1 : wall[i] = both[i]
    <3>1. \A i \in 1 .. n + 1 : i \in 1 .. n \/ i = n + 1
      OBVIOUS
    <3>2. ASSUME NEW i \in 1 .. n PROVE wall[i] = both[i]
      <4>1. i \in 1 .. n + 1
        OBVIOUS
      <4>2. wall[i] = EncodeAttribute(all[i].type, all[i].data) /\ all[i] = ats[i]
        BY <1>5, <2>1, <4>1, Zenon
      <4> QED
        BY <1>8, <1>11, <4>2, Zenon
    <3>3. wall[n + 1] = both[n + 1]
      <4>1. n + 1 \in 1 .. n + 1
        OBVIOUS
      <4> QED
        BY <1>5, <1>11, <2>1, <4>1, Zenon
    <3> QED
      BY <3>1, <3>2, <3>3, Zenon
  <2>3. wall = [i \in 1 .. n + 1 |-> wall[i]] /\ both = [i \in 1 .. n + 1 |-> both[i]]
    BY <1>11, <2>1
  <2> QED
    BY <2>1, <2>2, <2>3
<1>13. PICK f : Parts(f, ws, flat)
  BY <1>8 DEF LaidOut
<1>14. PICK g : Parts(g, es, e)
  BY <1>7, <1>9, PartsOne
<1>15. PICK h : Parts(h, both, flat \o e)
  <2>1. flat \in Seq(Octets) /\ e \in Seq(Octets)
    BY <1>7 DEF LaidOut
  <2> QED
    BY <1>10, <1>13, <1>14, <2>1, PartsJoin
<1>16. flat \o e \in Seq(Octets)
  BY <1>7 DEF LaidOut
<1>17. LaidOut(all, flat \o e)
  BY <1>6, <1>12, <1>15, <1>16 DEF LaidOut
<1> QED
  BY <1>3, <1>4, <1>5, <1>7, <1>17

\* Every attribute ends at a multiple of four, and none is longer than all.
LEMMA LaidOutLengths ==
  ASSUME NEW ats, NEW flat, LaidOut(ats, flat)
  PROVE  Len(flat) \in Nat /\ Len(flat) % 4 = 0
<1>1. PICK f : Parts(f, Written(ats), flat)
  BY DEF LaidOut
<1>2. PICK N, L \in Nat : N = Len(ats) /\ L = Len(flat)
  BY WrittenIs DEF LaidOut
<1>3. PICK ws \in Seq(Seq(Octets)) :
        /\ ws = Written(ats) /\ Len(ws) = N
        /\ \A i \in 1 .. N : ws[i] = EncodeAttribute(ats[i].type, ats[i].data)
  BY <1>2, WrittenIs DEF LaidOut
<1>4. f \in [0 .. N -> 0 .. L] /\ f[0] = 0 /\ f[N] = L /\ \A i \in 1 .. N : f[i] = f[i - 1] + Len(ws[i])
  BY <1>1, <1>2, <1>3 DEF Parts
<1> DEFINE P == {i \in 0 .. N : f[i] % 4 = 0}
<1>5. 0 \in P
  BY <1>4
<1>6. ASSUME NEW i \in 1 .. N, i - 1 \in P PROVE i \in P
  <2>1. PICK t \in Nat, d \in Seq(Octets) : t = ats[i].type /\ d = ats[i].data
    BY <1>2 DEF LaidOut, AttributesOf, IsAttribute
  <2>2. Len(EncodeAttribute(t, d)) = 4 + Len(d) + Padding(Len(d)) /\ ws[i] = EncodeAttribute(t, d)
    BY <1>3, <2>1, AttributeIs
  <2>3. PICK l \in Nat : l = Len(d)
    OBVIOUS
  <2>4. PICK p \in Nat : p = Padding(l) /\ (l + p) % 4 = 0
    BY PaddingIs
  <2>5. Len(ws[i]) = 4 + l + p
    BY <2>2, <2>3, <2>4, Zenon
  <2>6. PICK o \in Nat : o = f[i - 1]
    <3>1. i - 1 \in 0 .. N
      OBVIOUS
    <3> QED
      BY <1>4, <3>1
  <2>7. o % 4 = 0
    BY <1>6, <2>6
  <2>8. f[i] = o + (4 + (l + p))
    BY <1>4, <2>5, <2>6
  <2>9. (o + (4 + (l + p))) % 4 = 0
    <3>1. PICK q \in Nat : o = 4 * q
      BY <2>7
    <3>2. PICK m \in Nat : m = l + p
      OBVIOUS
    <3>3. PICK r \in Nat : m = 4 * r
      BY <2>4, <3>2
    <3>4. PICK x \in Nat : x = q + 1 + r
      OBVIOUS
    <3>5. o + (4 + m) = 4 * x /\ (4 * x) % 4 = 0
      BY <3>1, <3>3, <3>4
    <3> QED
      BY <3>2, <3>5
  <2> HIDE DEF P
  <2>10. i \in 0 .. N
    OBVIOUS
  <2> QED
    BY <2>8, <2>9, <2>10 DEF P
<1>7. 0 .. N \subseteq P
  <2> HIDE DEF P
  <2> QED
    BY <1>5, <1>6, AllUpTo
<1>8. N \in P
  BY <1>7
<1> QED
  BY <1>2, <1>4, <1>8

LEMMA FirstPart ==
  ASSUME NEW s \in Seq(Octets), NEW t \in Seq(Octets), NEW p, p = s \o t
  PROVE  SubSeq(p, 1, Len(s)) = s
<1>1. p \in Seq(Octets) /\ \A x \in 1 .. Len(s) : p[x] = s[x]
  BY BytesTwo
<1>2. PICK l \in Nat : l = Len(s)
  OBVIOUS
<1>3. l - 1 + 1 = Len(s) /\ \A x \in 1 .. Len(s) : p[1 + x - 1] = s[x]
  <2>1. \A x \in 1 .. Len(s) : 1 + x - 1 = x
    OBVIOUS
  <2> QED
    BY <1>1, <1>2, <2>1
<1>4. SubSeq(p, 1, l) = s
  BY <1>1, <1>3, SubSeqIs
<1> QED
  BY <1>2, <1>4

LEMMA Rest ==
  ASSUME NEW s \in Seq(Octets), NEW t \in Seq(Octets), NEW p, p = s \o t
  PROVE  SubSeq(p, Len(s) + 1, Len(p)) = t
<1>1. p \in Seq(Octets) /\ Len(p) = Len(s) + Len(t) /\ \A x \in 1 .. Len(t) : p[Len(s) + x] = t[x]
  BY BytesTwo
<1>2. PICK i, j \in Nat : i = Len(s) + 1 /\ j = Len(p)
  BY <1>1
<1>3. j - i + 1 = Len(t) /\ \A x \in 1 .. Len(t) : p[i + x - 1] = t[x]
  <2>1. \A x \in 1 .. Len(t) : i + x - 1 = Len(s) + x
    BY <1>2
  <2> QED
    BY <1>1, <1>2, <2>1
<1>4. SubSeq(p, i, j) = t
  <2>1. PICK q \in Seq(Octets) : q = p
    BY <1>1
  <2>2. \A x \in 1 .. Len(t) : q[i + x - 1] = t[x]
    BY <1>3, <2>1
  <2>4. j \in Int /\ j - i + 1 = Len(t)
    BY <1>3
  <2>3. SubSeq(q, i, j) = t
    BY <2>2, <2>4, SubSeqIs
  <2> QED
    BY <2>1, <2>3
<1> QED
  BY <1>2, <1>4

LEMMA HoldsJoined ==
  ASSUME NEW s \in Seq(Octets), NEW t \in Seq(Octets), NEW p, p = s \o t
  PROVE  Holds(p, 0, s) /\ Holds(p, Len(s), t)
<1>1. p \in Seq(Octets)
  BY BytesTwo
<1>2. IsSequence(p)
  BY <1>1 DEF IsSequence
<1>3. Holds(p, 0, s \o t)
  BY <1>2, HoldsItself
<1>4. Holds(p, 0, s) /\ Holds(p, 0 + Len(s), t)
  BY <1>1, <1>3, HoldsTwo
<1>5. 0 + Len(s) = Len(s)
  OBVIOUS
<1> QED
  BY <1>4, <1>5


-----------------------------------------------------------------------------
\* The same of sequences whose elements are left out of sight.
Blob == Seq(Octets)
Groups(s, t, u) == (s \o t) \o u = s \o (t \o u)

LEMMA BlobOf == \A s : s \in Blob <=> s \in Seq(Octets)
  BY DEF Blob

LEMMA Regroup == \A s, t, u \in Blob : Groups(s, t, u)
  BY ConcatAssociative DEF Blob, Groups

LEMMA Joined == \A s, t \in Blob : s \o t \in Blob /\ Len(s \o t) = Len(s) + Len(t) /\ Len(s) \in Nat /\ Len(t) \in Nat
  BY BytesTwo DEF Blob

GroupsAll(s, t, u, v, w) == (((s \o t) \o u) \o v) \o w = s \o (t \o (u \o (v \o w)))

LEMMA RegroupAll ==
  ASSUME NEW s \in Blob, NEW t \in Blob, NEW u \in Blob, NEW v \in Blob, NEW w \in Blob
  PROVE  GroupsAll(s, t, u, v, w)
<1>1. s \o t \in Blob /\ (s \o t) \o u \in Blob /\ v \o w \in Blob /\ u \o (v \o w) \in Blob
  BY Joined
<1>2. Groups((s \o t) \o u, v, w) /\ Groups(s \o t, u, v \o w) /\ Groups(s, t, u \o (v \o w))
  BY <1>1, Regroup
<1> QED
  BY <1>2 DEF Groups, GroupsAll

LEMMA BlobFront == \A s, t \in Blob : SubSeq(s \o t, 1, Len(s)) = s
  BY FirstPart DEF Blob

LEMMA BlobRest == \A s, t \in Blob : SubSeq(s \o t, Len(s) + 1, Len(s \o t)) = t
  BY Rest DEF Blob

LEMMA BlobHolds == \A s, t \in Blob : Holds(s \o t, 0, s) /\ Holds(s \o t, Len(s), t)
  BY HoldsJoined DEF Blob

LEMMA BlobHoldsTwo ==
  \A b, s, t \in Blob, o \in Nat : Holds(b, o, s \o t) => Holds(b, o, s) /\ Holds(b, o + Len(s), t)
  BY HoldsTwo DEF Blob

LEMMA BlobField16 == \A v \in Nat : Field16(v) \in Blob /\ Len(Field16(v)) = 2
  BY Field16Bytes DEF Blob

LEMMA BlobCookie == Cookie \in Blob
  BY CookieIs DEF Blob

HeaderFits(type, length, tx) ==
    StunHeader(type, length, tx) \in Blob /\ Len(StunHeader(type, length, tx)) = 8 + Len(tx)

LEMMA HeaderFitsAll == \A type, length \in Nat, tx \in Blob : HeaderFits(type, length, tx)
  BY HeaderIs DEF Blob, HeaderFits

LEMMA BlobHeader ==
  \A type, length \in Nat, tx \in Blob :
    StunHeader(type, length, tx) \in Blob /\ Len(StunHeader(type, length, tx)) = 8 + Len(tx)
  BY HeaderFitsAll, Zenon DEF HeaderFits

LEMMA BlobAttribute ==
  \A type \in Nat, data \in Blob :
    /\ EncodeAttribute(type, data) \in Blob
    /\ Len(EncodeAttribute(type, data)) = 4 + Len(data) + Padding(Len(data))
  BY AttributeIs DEF Blob

LEMMA BlobAttributeRead ==
  \A b, data \in Blob, o, type \in Nat :
    Is16(type) /\ Is16(Len(data)) /\ Holds(b, o, EncodeAttribute(type, data))
      => SubSeq(b, o + 5, o + 4 + Len(data)) = data
  BY AttributeRead DEF Blob

LEMMA BlobDigest == \A b \in Blob, n \in Nat : Digest(b, n) \in Blob /\ Len(Digest(b, n)) = n
  BY DigestIs DEF Blob

-----------------------------------------------------------------------------
\* The message up to n under a header whose length is up to there.
Under(b, n) == SubSeq(b, 1, 2) \o Field16(n - 20) \o SubSeq(b, 5, Len(b))

HeadsUnder(type, length, m, tx, flat) ==
    Under(StunHeader(type, length, tx) \o flat, m + 20) = StunHeader(type, m, tx) \o flat

LEMMA UnderIs ==
  ASSUME NEW type \in Nat, NEW length \in Nat, NEW m \in Nat, NEW tx \in Blob, NEW flat \in Blob
  PROVE  HeadsUnder(type, length, m, tx, flat)
<1>1. PICK s \in Blob : s = Field16(type) /\ Len(s) = 2
  BY BlobField16
<1>2. PICK t \in Blob : t = Field16(length) /\ Len(t) = 2
  BY BlobField16
<1>3. PICK w \in Blob : w = Field16(m)
  BY BlobField16
<1>4. PICK c \in Blob : c = Cookie
  BY BlobCookie
\* Both are a type, a length, and the same.
<1>5. PICK rest \in Blob : rest = c \o (tx \o flat)
  BY Joined
<1>6. PICK b : b = StunHeader(type, length, tx) \o flat
  OBVIOUS
<1>7. b = s \o (t \o rest)
  <2>1. GroupsAll(s, t, c, tx, flat)
    BY RegroupAll
  <2> QED
    BY <1>1, <1>2, <1>4, <1>5, <1>6, <2>1 DEF StunHeader, GroupsAll
<1>8. StunHeader(type, m, tx) \o flat = s \o (w \o rest)
  <2>1. GroupsAll(s, w, c, tx, flat)
    BY RegroupAll
  <2> QED
    BY <1>1, <1>3, <1>4, <1>5, <2>1 DEF StunHeader, GroupsAll
<1>9. SubSeq(b, 1, 2) = s
  <2>1. t \o rest \in Blob
    BY Joined
  <2>2. SubSeq(b, 1, Len(s)) = s
    BY <1>7, <2>1, BlobFront
  <2> QED
    BY <1>1, <2>2
<1>10. SubSeq(b, 5, Len(b)) = rest
  <2>1. PICK u \in Blob : u = s \o t /\ Len(u) = Len(s) + Len(t)
    BY Joined
  <2>2. b = u \o rest
    <3>1. Groups(s, t, rest)
      BY Regroup
    <3> QED
      BY <1>7, <2>1, <3>1 DEF Groups
  <2>3. SubSeq(b, Len(u) + 1, Len(b)) = rest
    BY <2>2, BlobRest
  <2>4. Len(u) + 1 = 5
    BY <1>1, <1>2, <2>1
  <2> QED
    BY <2>3, <2>4
<1>11. Under(b, m + 20) = (s \o w) \o rest
  <2>1. (m + 20) - 20 = m
    OBVIOUS
  <2> QED
    BY <1>3, <1>9, <1>10, <2>1 DEF Under
<1>12. Groups(s, w, rest)
  BY Regroup
<1> QED
  BY <1>6, <1>8, <1>11, <1>12 DEF Groups, HeadsUnder

LEMMA PaddingNone ==
  ASSUME NEW l \in Nat, l % 4 = 0
  PROVE  Padding(l) = 0
  BY DEF Padding

\* An attribute that is a sum over what is before it.
Signs(type, length, tx, flat, kind, data, rest, e, b, n) ==
    /\ e = EncodeAttribute(kind, data) /\ n = 20 + Len(flat) + Len(e)
    /\ b = StunHeader(type, length, tx) \o (flat \o (e \o rest))
    => /\ SubSeq(b, n - Len(data) + 1, n) = data
       /\ SubSeq(Under(b, n), 1, n - Len(e)) = StunHeader(type, n - 20, tx) \o flat

LEMMA Signed ==
  ASSUME NEW type \in Nat, NEW length \in Nat, NEW tx \in Blob,
         NEW flat \in Blob, NEW kind \in Nat, NEW data \in Blob, NEW rest \in Blob,
         NEW e, NEW b, NEW n, Len(tx) = 12, Is16(kind), Is16(Len(data)), Len(data) % 4 = 0
  PROVE  Signs(type, length, tx, flat, kind, data, rest, e, b, n)
<1> SUFFICES ASSUME e = EncodeAttribute(kind, data), n = 20 + Len(flat) + Len(e),
                    b = StunHeader(type, length, tx) \o (flat \o (e \o rest))
             PROVE  /\ SubSeq(b, n - Len(data) + 1, n) = data
                    /\ SubSeq(Under(b, n), 1, n - Len(e)) = StunHeader(type, n - 20, tx) \o flat
  BY Zenon DEF Signs
<1>1. PICK l \in Nat : l = Len(data) /\ l % 4 = 0
  BY Joined
<1>2. PICK k \in Nat : k = Len(flat)
  BY Joined
<1>3. e \in Blob /\ Len(e) = 4 + l
  <2>1. Padding(l) = 0
    BY <1>1, PaddingNone
  <2>2. e \in Blob /\ Len(e) = 4 + Len(data) + Padding(Len(data))
    BY BlobAttribute
  <2> QED
    BY <1>1, <2>1, <2>2
<1>4. PICK er \in Blob : er = e \o rest
  BY <1>3, Joined
<1>5. PICK whole \in Blob : whole = flat \o er
  BY Joined
<1>6. PICK h \in Blob : h = StunHeader(type, length, tx) /\ Len(h) = 20
  <2>1. HeaderFits(type, length, tx)
    BY HeaderFitsAll, Zenon
  <2>2. 8 + Len(tx) = 20
    OBVIOUS
  <2> QED
    BY <2>1, <2>2, Zenon DEF HeaderFits
<1>7. b \in Blob /\ b = h \o whole
  BY <1>4, <1>5, <1>6, Joined
<1>8. PICK o \in Nat : o = 20 + k
  OBVIOUS
<1>9. PICK m \in Nat : m = k + (4 + l)
  OBVIOUS
<1>10. /\ n = m + 20 /\ m = n - 20 /\ Len(e) = 4 + l /\ n - Len(e) = o
       /\ n = o + 4 + l /\ n - l + 1 = o + 5
  <2>1. PICK q \in Nat : q = 20 + k + (4 + l)
    OBVIOUS
  <2>2. n = q
    BY <1>2, <1>3, <2>1
  <2>3. /\ q = m + 20 /\ m = q - 20 /\ q - (4 + l) = o
        /\ q = o + 4 + l /\ q - l + 1 = o + 5
    BY <1>8, <1>9, <2>1
  <2> QED
    BY <1>3, <2>2, <2>3, Zenon
<1>11. Holds(b, o, e)
  <2>1. Holds(b, 20, flat \o er)
    BY <1>5, <1>6, <1>7, BlobHolds
  <2>2. Holds(b, o, e \o rest)
    <3>1. Holds(b, 20 + Len(flat), er)
      BY <1>7, <2>1, BlobHoldsTwo
    <3> QED
      BY <1>2, <1>4, <1>8, <3>1
  <2> QED
    BY <1>3, <1>7, <2>2, BlobHoldsTwo
<1>12. SubSeq(b, n - Len(data) + 1, n) = data
  <2>1. SubSeq(b, o + 5, o + 4 + Len(data)) = data
    BY <1>7, <1>11, BlobAttributeRead
  <2> QED
    BY <1>1, <1>10, <2>1, Zenon
<1>13. Under(b, n) = StunHeader(type, m, tx) \o whole
  <2>1. n = m + 20
    BY <1>10
  <2>2. HeadsUnder(type, length, m, tx, whole)
    BY UnderIs
  <2> QED
    BY <1>6, <1>7, <2>1, <2>2 DEF HeadsUnder
<1>14. PICK g \in Blob : g = StunHeader(type, m, tx) /\ Len(g) = 20
  <2>1. StunHeader(type, m, tx) \in Blob /\ Len(StunHeader(type, m, tx)) = 8 + Len(tx)
    <3>1. HeaderFits(type, m, tx)
      BY HeaderFitsAll, Zenon
    <3> QED
      BY <3>1, Zenon DEF HeaderFits
  <2>2. 8 + Len(tx) = 20
    OBVIOUS
  <2> QED
    BY <2>1, <2>2, Zenon
<1>15. PICK front \in Blob : front = g \o flat /\ Len(front) = Len(g) + Len(flat)
  BY Joined
<1>16. g \o whole = front \o er
  <2>1. Groups(g, flat, er)
    BY Regroup
  <2> QED
    BY <1>5, <1>15, <2>1 DEF Groups
<1>17. SubSeq(g \o whole, 1, Len(front)) = front
  BY <1>16, BlobFront
<1>18. Len(front) = n - Len(e) /\ m = n - 20
  <2>1. Len(front) = o
    BY <1>2, <1>8, <1>14, <1>15
  <2> QED
    BY <1>10, <2>1, Zenon
<1> QED
  BY <1>1, <1>3, <1>12, <1>13, <1>14, <1>15, <1>17, <1>18

LEMMA TxIdIs == TxId \in Blob /\ Len(TxId) = 12
<1>1. IsNonce(TxId, 12)
  BY WireAssumption DEF InputsAreTyped
<1> QED
  BY <1>1 DEF IsNonce, Blob

LEMMA NoBytes == <<>> \in Blob /\ Len(<<>>) = 0 /\ \A s \in Blob : s \o <<>> = s
  BY ConcatEmptySeq DEF Blob

LEMMA HeadedIs ==
  ASSUME NEW type \in Nat, NEW length \in Nat, NEW flat \in Blob
  PROVE  StunHeader(type, length, TxId) \o flat \in Blob
<1>1. StunHeader(type, length, TxId) \in Blob
  BY TxIdIs, BlobHeader
<1> QED
  BY <1>1, Joined

LEMMA MacIs ==
  ASSUME NEW k \in Blob, NEW b \in Blob
  PROVE  Hmac(k, b) \in Blob /\ Len(Hmac(k, b)) = 20
<1>1. <<1>> \in Blob
  BY DEF Blob, Octets
<1>2. PICK c \in Blob : c = k \o <<1>> \o b
  BY <1>1, Joined
<1>3. Digest(c, 20) \in Blob /\ Len(Digest(c, 20)) = 20
  BY BlobDigest
<1> QED
  BY <1>2, <1>3 DEF Hmac

LEMMA CrcIs ==
  ASSUME NEW b \in Blob
  PROVE  Crc32(b) \in Blob /\ Len(Crc32(b)) = 4
  BY BlobDigest DEF Crc32

LEMMA SmallNumbers ==
  /\ Is16(1) /\ Is16(3) /\ Is16(4) /\ Is16(20) /\ 20 % 4 = 0 /\ 4 % 4 = 0
  /\ Integrity \in Nat /\ Fingerprint \in Nat /\ Is16(Integrity) /\ Is16(Fingerprint)
  BY DEF Is16, Integrity, Fingerprint

-----------------------------------------------------------------------------
\* What is put under an HMAC, and then under a fingerprint.
Mac(type, flat, k) == Hmac(k, StunHeader(type, Len(flat) + 24, TxId) \o flat)
MacAttribute(type, flat, k) == EncodeAttribute(Integrity, Mac(type, flat, k))
Sum(type, sealed) == Crc32(StunHeader(type, Len(sealed) + 8, TxId) \o sealed)
SumAttribute(type, sealed) == EncodeAttribute(Fingerprint, Sum(type, sealed))

IsKey(key) == key = <<>> \/ \E k \in Blob : key = <<k>>

LEMMA MacAttributeIs ==
  ASSUME NEW type \in Nat, NEW flat \in Blob, NEW k \in Blob
  PROVE  /\ Mac(type, flat, k) \in Blob /\ Len(Mac(type, flat, k)) = 20
         /\ MacAttribute(type, flat, k) \in Blob /\ Len(MacAttribute(type, flat, k)) = 24
         /\ IsAttribute(Attribute(Integrity, Mac(type, flat, k)))
<1>1. PICK n \in Nat : n = Len(flat) + 24
  BY Joined
<1>2. PICK h \in Blob : h = StunHeader(type, n, TxId) \o flat
  BY HeadedIs
<1>3. PICK m \in Blob : m = Mac(type, flat, k) /\ Len(m) = 20
  <2>1. Hmac(k, h) \in Blob /\ Len(Hmac(k, h)) = 20
    BY MacIs
  <2> QED
    BY <1>1, <1>2, <2>1 DEF Mac
<1>4. EncodeAttribute(Integrity, m) \in Blob /\ Len(EncodeAttribute(Integrity, m)) = 24
  <2>1. EncodeAttribute(Integrity, m) \in Blob /\ Len(EncodeAttribute(Integrity, m)) = 4 + Len(m) + Padding(Len(m))
    BY BlobAttribute, SmallNumbers
  <2>2. Padding(20) = 0
    BY PaddingNone
  <2>3. 4 + Len(m) + Padding(Len(m)) = 24
    BY <1>3, <2>2
  <2> QED
    BY <2>1, <2>3, Zenon
<1>5. IsAttribute(Attribute(Integrity, m))
  <2>1. m \in Seq(Octets) /\ Integrity \in Nat /\ Is16(Integrity) /\ Is16(Len(m))
    BY <1>3, SmallNumbers DEF Blob
  <2> QED
    BY <2>1 DEF IsAttribute, Attribute
<1> QED
  BY <1>3, <1>4, <1>5 DEF MacAttribute

LEMMA SumAttributeIs ==
  ASSUME NEW type \in Nat, NEW sealed \in Blob
  PROVE  /\ Sum(type, sealed) \in Blob /\ Len(Sum(type, sealed)) = 4
         /\ SumAttribute(type, sealed) \in Blob /\ Len(SumAttribute(type, sealed)) = 8
         /\ IsAttribute(Attribute(Fingerprint, Sum(type, sealed)))
<1>1. PICK n \in Nat : n = Len(sealed) + 8
  BY Joined
<1>2. PICK h \in Blob : h = StunHeader(type, n, TxId) \o sealed
  BY HeadedIs
<1>3. PICK m \in Blob : m = Sum(type, sealed) /\ Len(m) = 4
  <2>1. Crc32(h) \in Blob /\ Len(Crc32(h)) = 4
    BY CrcIs
  <2> QED
    BY <1>1, <1>2, <2>1 DEF Sum
<1>4. EncodeAttribute(Fingerprint, m) \in Blob /\ Len(EncodeAttribute(Fingerprint, m)) = 8
  <2>1. EncodeAttribute(Fingerprint, m) \in Blob /\ Len(EncodeAttribute(Fingerprint, m)) = 4 + Len(m) + Padding(Len(m))
    BY BlobAttribute, SmallNumbers
  <2>2. Padding(4) = 0
    BY PaddingNone
  <2>3. 4 + Len(m) + Padding(Len(m)) = 8
    BY <1>3, <2>2
  <2> QED
    BY <2>1, <2>3, Zenon
<1>5. IsAttribute(Attribute(Fingerprint, m))
  <2>1. m \in Seq(Octets) /\ Fingerprint \in Nat /\ Is16(Fingerprint) /\ Is16(Len(m))
    BY <1>3, SmallNumbers DEF Blob
  <2> QED
    BY <2>1 DEF IsAttribute, Attribute
<1> QED
  BY <1>3, <1>4, <1>5 DEF SumAttribute

\* The attributes with the HMAC's, if there is a key.
LEMMA SealedIs ==
  ASSUME NEW type \in Nat, NEW ats, NEW flat, NEW key, LaidOut(ats, flat), IsKey(key)
  PROVE  \E all, sealed :
           /\ sealed = WithIntegrity(type, flat, key) /\ LaidOut(all, sealed)
           /\ Len(all) = Len(ats) + Len(key) /\ \A i \in 1 .. Len(ats) : all[i] = ats[i]
           /\ Len(sealed) = Len(flat) + 24 * Len(key)
           /\ IF key = <<>> THEN sealed = flat ELSE sealed = flat \o MacAttribute(type, flat, key[1])
<1>1. flat \in Blob /\ Len(flat) \in Nat /\ Len(ats) \in Nat
  BY LaidOutLengths, WrittenIs DEF LaidOut, Blob
<1>2. CASE key = <<>>
  <2>1. WithIntegrity(type, flat, key) = flat /\ Len(key) = 0
    BY <1>2 DEF WithIntegrity
  <2>2. Len(ats) = Len(ats) + Len(key) /\ Len(flat) = Len(flat) + 24 * Len(key)
    BY <1>1, <2>1
  <2> QED
    BY <1>2, <2>1, <2>2
<1>3. CASE key # <<>>
  <2>1. PICK k \in Blob : key = <<k>> /\ key[1] = k /\ Len(key) = 1
    BY <1>3 DEF IsKey
  <2>2. PICK e \in Blob : /\ e = MacAttribute(type, flat, k) /\ Len(e) = 24
    BY <1>1, MacAttributeIs
  <2>3. PICK a : a = Attribute(Integrity, Mac(type, flat, k))
    OBVIOUS
  <2>4. IsAttribute(a) /\ e = EncodeAttribute(a.type, a.data)
    BY <1>1, <2>2, <2>3, MacAttributeIs DEF MacAttribute, Attribute
  <2>5. PICK all, sealed : all = ats \o <<a>> /\ sealed = flat \o e
    OBVIOUS
  <2>6. LaidOut(all, sealed) /\ Len(all) = Len(ats) + 1 /\ \A i \in 1 .. Len(ats) : all[i] = ats[i]
    BY <2>4, <2>5, LaidOutNext
  <2>7. sealed = WithIntegrity(type, flat, key)
    BY <1>3, <2>1, <2>2, <2>5 DEF WithIntegrity, MacAttribute, Mac
  <2>8. Len(sealed) = Len(flat) + Len(e)
    BY <1>1, <2>5, Joined
  <2>9. Len(flat) + Len(e) = Len(flat) + 24 * Len(key)
    BY <1>1, <2>1, <2>2
  <2> QED
    BY <1>3, <2>1, <2>2, <2>5, <2>6, <2>7, <2>8, <2>9
<1> QED
  BY <1>2, <1>3

\* And the whole, with the fingerprint's.
Whole(type, ats, flat, key, fingerprint) ==
    \E all, whole, sealed :
      /\ BuildStunMessage(type, flat, key, fingerprint) = StunHeader(type, Len(whole), TxId) \o whole
      /\ LaidOut(all, whole)
      /\ Len(all) = Len(ats) + (Len(key) + Bit(fingerprint)) /\ \A i \in 1 .. Len(ats) : all[i] = ats[i]
      /\ sealed \in Blob
      /\ IF key = <<>> THEN sealed = flat ELSE sealed = flat \o MacAttribute(type, flat, key[1])
      /\ IF fingerprint THEN whole = sealed \o SumAttribute(type, sealed) ELSE whole = sealed
      /\ Len(sealed) = Len(flat) + 24 * Len(key)
      /\ Len(whole) = Len(flat) + (24 * Len(key) + 8 * Bit(fingerprint))

LEMMA WholeIs ==
  ASSUME NEW type \in Nat, NEW ats, NEW flat, NEW key, NEW fingerprint \in BOOLEAN, LaidOut(ats, flat), IsKey(key)
  PROVE  Whole(type, ats, flat, key, fingerprint)
<1>1. PICK most, sealed :
        /\ sealed = WithIntegrity(type, flat, key) /\ LaidOut(most, sealed)
        /\ Len(most) = Len(ats) + Len(key) /\ \A i \in 1 .. Len(ats) : most[i] = ats[i]
        /\ Len(sealed) = Len(flat) + 24 * Len(key)
        /\ IF key = <<>> THEN sealed = flat ELSE sealed = flat \o MacAttribute(type, flat, key[1])
  BY SealedIs
<1>2. sealed \in Blob /\ Len(sealed) \in Nat
  BY <1>1, LaidOutLengths DEF LaidOut, Blob
<1>3. Len(flat) \in Nat /\ Len(ats) \in Nat /\ Len(key) \in Nat
  <2>1. Len(flat) \in Nat /\ Len(ats) \in Nat
    BY LaidOutLengths, WrittenIs DEF LaidOut
  <2>2. Len(key) \in Nat
    BY DEF IsKey
  <2> QED
    BY <2>1, <2>2
<1>4. CASE ~fingerprint
  <2>1. BuildStunMessage(type, flat, key, fingerprint) = StunHeader(type, Len(sealed), TxId) \o sealed
    BY <1>1, <1>4 DEF BuildStunMessage
  <2>2. Bit(fingerprint) = 0
    BY <1>4 DEF Bit
  <2>3. /\ Len(most) = Len(ats) + (Len(key) + Bit(fingerprint))
        /\ Len(sealed) = Len(flat) + (24 * Len(key) + 8 * Bit(fingerprint))
    BY <1>1, <1>3, <2>2
  <2> QED
    BY <1>1, <1>2, <1>4, <2>1, <2>3 DEF Whole
<1>5. CASE fingerprint
  <2>1. PICK e \in Blob : e = SumAttribute(type, sealed) /\ Len(e) = 8
    BY <1>2, SumAttributeIs
  <2>2. PICK a : a = Attribute(Fingerprint, Sum(type, sealed))
    OBVIOUS
  <2>3. IsAttribute(a) /\ e = EncodeAttribute(a.type, a.data)
    BY <1>2, <2>1, <2>2, SumAttributeIs DEF SumAttribute, Attribute
  <2>4. PICK all, whole : all = most \o <<a>> /\ whole = sealed \o e
    OBVIOUS
  <2>5. LaidOut(all, whole) /\ Len(all) = Len(most) + 1 /\ \A i \in 1 .. Len(most) : all[i] = most[i]
    BY <1>1, <2>3, <2>4, LaidOutNext
  <2>6. BuildStunMessage(type, flat, key, fingerprint) = StunHeader(type, Len(whole), TxId) \o whole
    BY <1>1, <1>5, <2>1, <2>4 DEF BuildStunMessage, SumAttribute, Sum
  <2>7. Bit(fingerprint) = 1
    BY <1>5 DEF Bit
  <2>8. Len(whole) = Len(sealed) + 8
    <3>1. Len(sealed \o e) = Len(sealed) + Len(e)
      BY <1>2, <2>1, Joined, Zenon
    <3> QED
      BY <2>1, <2>4, <3>1, Zenon
  <2>9. /\ Len(all) = Len(ats) + (Len(key) + Bit(fingerprint))
        /\ Len(whole) = Len(flat) + (24 * Len(key) + 8 * Bit(fingerprint))
    BY <1>1, <1>3, <2>5, <2>7, <2>8
  <2>10. \A i \in 1 .. Len(ats) : all[i] = ats[i]
    <3>1. \A i \in 1 .. Len(ats) : i \in 1 .. Len(most)
      BY <1>1, <1>3
    <3> QED
      BY <1>1, <2>5, <3>1
  <2> QED
    BY <1>1, <1>2, <1>5, <2>1, <2>4, <2>5, <2>6, <2>9, <2>10 DEF Whole
<1> QED
  BY <1>4, <1>5

\* What the parser makes of a header and attributes.
LEMMA ParsedIs ==
  ASSUME NEW b, NEW p, Len(b) \in Nat, Len(b) >= 20, SubSeq(b, 5, 8) = Cookie, p = ParseStunResponse(b)
  PROVE  /\ p.type = Uint16(b, 1) /\ p.class = ClassOf(Uint16(b, 1)) /\ p.method = MethodOf(Uint16(b, 1))
         /\ p.attrs = ParseAttributes(b)
<1>1. ~(Len(b) < 20)
  OBVIOUS
<1>2. PICK e, c : p = [type |-> Uint16(b, 1), class |-> ClassOf(Uint16(b, 1)), method |-> MethodOf(Uint16(b, 1)),
                       attrs |-> ParseAttributes(b), error |-> e, conn |-> c]
  BY <1>1, Zenon DEF ParseStunResponse
<1> QED
  BY <1>2

Reads(type, ats, flat, b) ==
    b = StunHeader(type, Len(flat), TxId) \o flat
    => /\ b \in Blob /\ Len(b) = 20 + Len(flat) /\ Uint16(b, 1) = type /\ b[1] = (type \div 256) % 256
       /\ SubSeq(b, 5, 8) = Cookie /\ ParseAttributes(b) = ats

LEMMA MessageRead ==
  ASSUME NEW type \in Nat, NEW ats, NEW flat, NEW b, Is16(type), Is16(Len(flat)), LaidOut(ats, flat)
  PROVE  Reads(type, ats, flat, b)
<1> SUFFICES ASSUME b = StunHeader(type, Len(flat), TxId) \o flat
             PROVE  /\ b \in Blob /\ Len(b) = 20 + Len(flat) /\ Uint16(b, 1) = type /\ b[1] = (type \div 256) % 256
                    /\ SubSeq(b, 5, 8) = Cookie /\ ParseAttributes(b) = ats
  BY Zenon DEF Reads
<1>1. PICK L \in Nat : L = Len(flat) /\ Is16(L) /\ flat \in Blob
  BY LaidOutLengths DEF LaidOut, Blob
<1>2. PICK h \in Blob : h = StunHeader(type, L, TxId) /\ Len(h) = 20
  <2>1. TxId \in Blob /\ Len(TxId) = 12
    BY TxIdIs
  <2>2. StunHeader(type, L, TxId) \in Blob /\ Len(StunHeader(type, L, TxId)) = 8 + Len(TxId)
    BY <2>1, BlobHeader
  <2>3. 8 + Len(TxId) = 20
    BY <2>1
  <2> QED
    BY <2>2, <2>3, Zenon
<1>3. b = h \o flat /\ b \in Blob /\ Len(b) = 20 + L
  BY <1>1, <1>2, Joined
<1>4. Holds(b, 0, h) /\ Holds(b, 20, flat)
  BY <1>1, <1>2, <1>3, BlobHolds
<1>5. /\ Uint16(b, 1) = type /\ Uint16(b, 3) = L /\ SubSeq(b, 5, 8) = Cookie /\ b[1] = (type \div 256) % 256
  <2>1. PICK q \in Seq(Octets) : q = b
    BY <1>3 DEF Blob
  <2>2. PICK tx \in Seq(Octets) : tx = TxId /\ Len(tx) = 12
    BY TxIdIs DEF Blob
  <2>3. Holds(q, 0, StunHeader(type, L, tx))
    BY <1>2, <1>4, <2>1, <2>2
  <2>4. /\ Uint16(q, 1) = type /\ Uint16(q, 3) = L /\ SubSeq(q, 5, 8) = Cookie /\ q[1] = (type \div 256) % 256
    BY <1>1, <2>2, <2>3, HeaderRead
  <2> QED
    BY <2>1, <2>4
<1>6. ParseAttributes(b) = ats
  <2>1. PICK q \in Seq(Octets) : q = b
    BY <1>3 DEF Blob
  <2>2. PICK w \in Seq(Octets) : w = flat
    BY <1>1 DEF Blob
  <2>3. PICK f : Parts(f, Written(ats), w)
    BY <2>2 DEF LaidOut
  <2>4. AttributesOf(ats) /\ Len(q) = 20 + Len(w) /\ Uint16(q, 3) = Len(w) /\ Holds(q, 20, w)
    BY <1>1, <1>3, <1>4, <1>5, <2>1, <2>2 DEF LaidOut
  <2> QED
    BY <2>1, <2>3, <2>4, AttributesParsed
<1> QED
  BY <1>1, <1>3, <1>5, <1>6

\* The first of them, if there are more.
LEMMA FirstOnes ==
  ASSUME NEW ats, NEW all, AttributesOf(ats), AttributesOf(all), Len(ats) <= Len(all),
         \A i \in 1 .. Len(ats) : all[i] = ats[i]
  PROVE  SubSeq(all, 1, Len(ats)) = ats
<1>1. PICK S : all \in Seq(S)
  BY DEF AttributesOf
<1>2. PICK R : ats \in Seq(R)
  BY DEF AttributesOf
<1>3. PICK N \in Nat : N = Len(ats)
  BY <1>2
<1>4. \A i \in 1 .. N : ats[i] \in S
  <2>1. \A i \in 1 .. N : i \in 1 .. Len(all)
    BY <1>3
  <2> QED
    BY <1>1, <1>3, <2>1
<1>5. ats \in Seq(S)
  <2>1. IsSequence(ats)
    BY <1>2 DEF IsSequence
  <2> QED
    BY <1>3, <1>4, <2>1, SequenceOver
<1>6. \A x \in 1 .. N : all[1 + x - 1] = ats[x]
  <2>1. \A x \in 1 .. N : 1 + x - 1 = x
    OBVIOUS
  <2> QED
    BY <1>3, <2>1
<1>7. PICK s \in Seq(S), t \in Seq(S) : s = all /\ t = ats
  BY <1>1, <1>5
<1>8. N \in Int /\ N - 1 + 1 = Len(t) /\ 1 \in Nat /\ \A x \in 1 .. Len(t) : s[1 + x - 1] = t[x]
  BY <1>3, <1>6, <1>7
<1>9. SubSeq(s, 1, N) = t
  BY <1>8, SubSeqIs
<1> QED
  BY <1>3, <1>7, <1>9

-----------------------------------------------------------------------------
MacHolds(type, length, flat, k, rest, b, n) ==
    /\ b = StunHeader(type, length, TxId) \o (flat \o (MacAttribute(type, flat, k) \o rest))
    /\ n = 20 + Len(flat) + 24
    => SubSeq(b, n - 19, n) = Hmac(k, SubSeq(Under(b, n), 1, n - 24))

LEMMA MacVerifies ==
  ASSUME NEW type \in Nat, NEW length \in Nat, NEW flat \in Blob, NEW k \in Blob, NEW rest \in Blob, NEW b, NEW n
  PROVE  MacHolds(type, length, flat, k, rest, b, n)
<1> SUFFICES ASSUME b = StunHeader(type, length, TxId) \o (flat \o (MacAttribute(type, flat, k) \o rest)),
                    n = 20 + Len(flat) + 24
             PROVE  SubSeq(b, n - 19, n) = Hmac(k, SubSeq(Under(b, n), 1, n - 24))
  BY Zenon DEF MacHolds
<1>1. PICK m \in Blob : m = Mac(type, flat, k) /\ Len(m) = 20
  BY MacAttributeIs
<1>2. PICK e \in Blob : e = MacAttribute(type, flat, k) /\ Len(e) = 24 /\ e = EncodeAttribute(Integrity, m)
  BY <1>1, MacAttributeIs DEF MacAttribute
<1>3. /\ Integrity \in Nat /\ Is16(Integrity) /\ Is16(Len(m)) /\ Len(m) % 4 = 0
      /\ TxId \in Blob /\ Len(TxId) = 12
  BY <1>1, SmallNumbers, TxIdIs
<1>4. b = StunHeader(type, length, TxId) \o (flat \o (e \o rest)) /\ n = 20 + Len(flat) + Len(e)
  BY <1>2
<1>5. /\ SubSeq(b, n - Len(m) + 1, n) = m
      /\ SubSeq(Under(b, n), 1, n - Len(e)) = StunHeader(type, n - 20, TxId) \o flat
  <2>1. Signs(type, length, TxId, flat, Integrity, m, rest, e, b, n)
    BY <1>3, Signed
  <2> QED
    BY <1>2, <1>4, <2>1, Zenon DEF Signs
<1>6. PICK l \in Nat : l = Len(flat)
  BY Joined
<1>7. n - Len(m) + 1 = n - 19 /\ n - Len(e) = n - 24 /\ n - 20 = l + 24
  <2>1. PICK q \in Nat : q = 20 + l + 24
    OBVIOUS
  <2>2. q = n
    BY <1>6, <2>1
  <2>3. q - 20 + 1 = q - 19 /\ q - 20 = l + 24
    BY <2>1
  <2> QED
    BY <1>1, <1>2, <2>2, <2>3
<1> QED
  BY <1>1, <1>2, <1>5, <1>6, <1>7 DEF Mac

SumHolds(type, length, sealed, b, n) ==
    /\ b = StunHeader(type, length, TxId) \o (sealed \o SumAttribute(type, sealed))
    /\ n = 20 + Len(sealed)
    => SubSeq(b, n + 5, n + 8) = Crc32(SubSeq(Under(b, n + 8), 1, n))

LEMMA SumVerifies ==
  ASSUME NEW type \in Nat, NEW length \in Nat, NEW sealed \in Blob, NEW b, NEW n
  PROVE  SumHolds(type, length, sealed, b, n)
<1> SUFFICES ASSUME b = StunHeader(type, length, TxId) \o (sealed \o SumAttribute(type, sealed)),
                    n = 20 + Len(sealed)
             PROVE  SubSeq(b, n + 5, n + 8) = Crc32(SubSeq(Under(b, n + 8), 1, n))
  BY Zenon DEF SumHolds
<1>1. PICK m \in Blob : m = Sum(type, sealed) /\ Len(m) = 4
  BY SumAttributeIs
<1>2. PICK e \in Blob : e = SumAttribute(type, sealed) /\ Len(e) = 8 /\ e = EncodeAttribute(Fingerprint, m)
  BY <1>1, SumAttributeIs DEF SumAttribute
<1>3. /\ Fingerprint \in Nat /\ Is16(Fingerprint) /\ Is16(Len(m)) /\ Len(m) % 4 = 0
      /\ TxId \in Blob /\ Len(TxId) = 12
  BY <1>1, SmallNumbers, TxIdIs
<1>4. PICK rest \in Blob : rest = <<>> /\ e \o rest = e
  BY NoBytes
<1>5. PICK l \in Nat : l = Len(sealed)
  BY Joined
<1>6. PICK q \in Nat : q = n + 8 /\ q = 20 + l + 8
  BY <1>5
<1>7. b = StunHeader(type, length, TxId) \o (sealed \o (e \o rest)) /\ q = 20 + Len(sealed) + Len(e)
  BY <1>2, <1>4, <1>5, <1>6
<1>8. /\ SubSeq(b, q - Len(m) + 1, q) = m
      /\ SubSeq(Under(b, q), 1, q - Len(e)) = StunHeader(type, q - 20, TxId) \o sealed
  <2>1. Signs(type, length, TxId, sealed, Fingerprint, m, rest, e, b, q)
    BY <1>3, Signed
  <2> QED
    BY <1>2, <1>7, <2>1, Zenon DEF Signs
<1>9. q - Len(m) + 1 = n + 5 /\ q - Len(e) = n /\ q - 20 = l + 8
  BY <1>1, <1>2, <1>5, <1>6
<1> QED
  BY <1>1, <1>5, <1>6, <1>8, <1>9 DEF Sum

LEMMA StunVerifies ==
  ASSUME NEW type \in Nat, NEW ats, NEW flat, NEW key, NEW fingerprint \in BOOLEAN, NEW p, LaidOut(ats, flat), IsKey(key),
         p.bytes = BuildStunMessage(type, flat, key, fingerprint), p.key = key, p.fingerprint = fingerprint
  PROVE  Verifies(p)
<1>20. Whole(type, ats, flat, key, fingerprint)
  BY WholeIs
<1>1. PICK all, whole, sealed :
        /\ BuildStunMessage(type, flat, key, fingerprint) = StunHeader(type, Len(whole), TxId) \o whole
        /\ LaidOut(all, whole) /\ sealed \in Blob
        /\ IF key = <<>> THEN sealed = flat ELSE sealed = flat \o MacAttribute(type, flat, key[1])
        /\ IF fingerprint THEN whole = sealed \o SumAttribute(type, sealed) ELSE whole = sealed
        /\ Len(sealed) = Len(flat) + 24 * Len(key)
        /\ Len(whole) = Len(flat) + (24 * Len(key) + 8 * Bit(fingerprint))
  BY <1>20, Zenon DEF Whole
<1>2. flat \in Blob /\ whole \in Blob
  BY <1>1 DEF LaidOut, Blob
<1>3. PICK l, k \in Nat : l = Len(flat) /\ k = Len(key)
  <2>1. Len(flat) \in Nat
    BY LaidOutLengths
  <2>2. Len(key) \in Nat
    BY DEF IsKey
  <2> QED
    BY <2>1, <2>2
<1>4. PICK b : b = StunHeader(type, Len(whole), TxId) \o whole
  OBVIOUS
<1>5. p.bytes = b
  BY <1>1, <1>4
<1>6. Len(b) = 20 + Len(whole) /\ Len(whole) \in Nat
  <2>1. TxId \in Blob /\ 8 + Len(TxId) = 20
    BY TxIdIs
  <2>2. PICK m \in Nat : m = Len(whole)
    BY <1>2, Joined
  <2>3. StunHeader(type, m, TxId) \in Blob /\ Len(StunHeader(type, m, TxId)) = 8 + Len(TxId)
    BY <2>1, BlobHeader
  <2>4. Len(b) = Len(StunHeader(type, m, TxId)) + Len(whole)
    BY <1>2, <1>4, <2>2, <2>3, Joined
  <2> QED
    BY <2>1, <2>2, <2>3, <2>4, Zenon
<1>7. PICK n \in Nat : n = 20 + l + 24 * k
  OBVIOUS
<1>8. Len(b) - (IF fingerprint THEN 8 ELSE 0) = n /\ n = 20 + Len(sealed)
  <2>1. PICK w \in Nat : w = Len(whole)
    BY <1>6
  <2>2. Len(b) = 20 + w
    BY <1>6, <2>1
  <2>5. n = 20 + Len(sealed)
    BY <1>1, <1>3, <1>7
  <2>3. CASE fingerprint
    <3>1. w = l + (24 * k + 8)
      BY <1>1, <1>3, <2>1, <2>3 DEF Bit
    <3>2. (20 + w) - 8 = 20 + l + 24 * k
      BY <3>1
    <3> QED
      BY <1>7, <2>2, <2>3, <3>2, <2>5
  <2>4. CASE ~fingerprint
    <3>1. w = l + (24 * k + 0)
      BY <1>1, <1>3, <2>1, <2>4 DEF Bit
    <3>2. (20 + w) - 0 = 20 + l + 24 * k
      BY <3>1
    <3> QED
      BY <1>7, <2>2, <2>4, <3>2, <2>5
  <2> QED
    BY <2>3, <2>4
<1>9. ASSUME key # <<>>
      PROVE  SubSeq(b, n - 19, n) = Hmac(key[1], SubSeq(Under(b, n), 1, n - 24))
  <2>1. PICK x \in Blob : key = <<x>> /\ key[1] = x /\ k = 1
    BY <1>3, <1>9 DEF IsKey
  <2>2. PICK m \in Blob : m = MacAttribute(type, flat, x)
    BY <1>2, MacAttributeIs
  <2>3. PICK rest \in Blob : whole = flat \o (m \o rest)
    <3>1. sealed = flat \o m
      BY <1>1, <1>9, <2>1, <2>2
    <3>2. CASE fingerprint
      <4>1. PICK s \in Blob : s = SumAttribute(type, sealed)
        BY <1>1, SumAttributeIs
      <4>2. Groups(flat, m, s)
        BY <1>2, Regroup
      <4> QED
        BY <1>1, <3>1, <3>2, <4>1, <4>2 DEF Groups
    <3>3. CASE ~fingerprint
      <4>1. <<>> \in Blob /\ m \o <<>> = m
        BY NoBytes
      <4> QED
        BY <1>1, <3>1, <3>3, <4>1
    <3> QED
      BY <3>2, <3>3
  <2>4. n = 20 + Len(flat) + 24
    BY <1>3, <1>7, <2>1
  <2>5. PICK c \in Nat : c = Len(whole)
    BY <1>6
  <2>6. b = StunHeader(type, c, TxId) \o (flat \o (MacAttribute(type, flat, x) \o rest))
    BY <1>4, <2>2, <2>3, <2>5
  <2>7. SubSeq(b, n - 19, n) = Hmac(x, SubSeq(Under(b, n), 1, n - 24))
    <3>1. MacHolds(type, c, flat, x, rest, b, n)
      BY <1>2, MacVerifies
    <3> QED
      BY <2>4, <2>6, <3>1, Zenon DEF MacHolds
  <2> QED
    BY <2>1, <2>7
<1>10. ASSUME fingerprint
       PROVE  SubSeq(b, n + 5, n + 8) = Crc32(SubSeq(Under(b, n + 8), 1, n))
  <2>1. PICK c \in Nat : c = Len(whole)
    BY <1>6
  <2>2. b = StunHeader(type, c, TxId) \o (sealed \o SumAttribute(type, sealed))
    BY <1>1, <1>4, <1>10, <2>1
  <2>3. SumHolds(type, c, sealed, b, n)
    BY <1>1, SumVerifies
  <2> QED
    BY <1>8, <2>2, <2>3, Zenon DEF SumHolds
<1> QED
  BY <1>5, <1>8, <1>9, <1>10, Zenon DEF Verifies, Under

LEMMA Requests == \A type \in {1, 3} : Is16(type) /\ type \in Nat /\ ClassOf(type) = "request" /\ (type \div 256) % 256 = 0
<1>1. /\ 2 * ((1 \div 256) % 2) + ((1 \div 16) % 2) + 1 = 1
      /\ 2 * ((3 \div 256) % 2) + ((3 \div 16) % 2) + 1 = 1
  OBVIOUS
<1>2. <<"request", "indication", "success", "error">>[1] = "request"
  OBVIOUS
<1>3. ClassOf(1) = "request" /\ ClassOf(3) = "request"
  BY <1>1, <1>2, Zenon DEF ClassOf
<1>4. Is16(1) /\ Is16(3) /\ (1 \div 256) % 256 = 0 /\ (3 \div 256) % 256 = 0
  BY DEF Is16
<1> QED
  BY <1>3, <1>4

LEMMA WholeSays ==
  ASSUME NEW type, NEW ats, NEW flat, NEW key, NEW fingerprint, Whole(type, ats, flat, key, fingerprint)
  PROVE  \E all, whole :
           /\ BuildStunMessage(type, flat, key, fingerprint) = StunHeader(type, Len(whole), TxId) \o whole
           /\ LaidOut(all, whole)
           /\ Len(all) = Len(ats) + (Len(key) + Bit(fingerprint)) /\ \A i \in 1 .. Len(ats) : all[i] = ats[i]
           /\ Len(whole) = Len(flat) + (24 * Len(key) + 8 * Bit(fingerprint))
  BY Zenon DEF Whole

\* What a relay makes of a request, but for the streams in it.
StunReads(type, ats, flat, key, fingerprint, b, parsed) ==
    b = BuildStunMessage(type, flat, key, fingerprint) /\ parsed = ParseStunResponse(b)
    => /\ parsed.type = type /\ parsed.class = "request" /\ Len(b) % 4 = 0
       /\ Len(parsed.attrs) = Len(ats) + (Len(key) + Bit(fingerprint))
       /\ SubSeq(parsed.attrs, 1, Len(ats)) = ats /\ \A i \in 1 .. Len(ats) : parsed.attrs[i] = ats[i]
       /\ Route(b) = "none" /\ ClassifyPacket(b) = "STUN" /\ AttributesOf(parsed.attrs)

LEMMA StunRead ==
  \A type \in {1, 3} : \A ats, flat, key, b, parsed : \A fingerprint \in BOOLEAN :
    LaidOut(ats, flat) /\ IsKey(key) /\ Len(flat) < 65000
      => StunReads(type, ats, flat, key, fingerprint, b, parsed)
<1> SUFFICES ASSUME NEW type \in {1, 3}, NEW ats, NEW flat, NEW key, NEW b, NEW parsed, NEW fingerprint \in BOOLEAN
             PROVE  LaidOut(ats, flat) /\ IsKey(key) /\ Len(flat) < 65000
                      => StunReads(type, ats, flat, key, fingerprint, b, parsed)
  OBVIOUS
<1>17. SUFFICES ASSUME LaidOut(ats, flat), IsKey(key), Len(flat) < 65000
                PROVE  StunReads(type, ats, flat, key, fingerprint, b, parsed)
  OBVIOUS
<1>16. SUFFICES ASSUME b = BuildStunMessage(type, flat, key, fingerprint), parsed = ParseStunResponse(b)
                PROVE  /\ parsed.type = type /\ parsed.class = "request" /\ Len(b) % 4 = 0
                       /\ Len(parsed.attrs) = Len(ats) + (Len(key) + Bit(fingerprint))
                       /\ SubSeq(parsed.attrs, 1, Len(ats)) = ats /\ \A i \in 1 .. Len(ats) : parsed.attrs[i] = ats[i]
                       /\ Route(b) = "none" /\ ClassifyPacket(b) = "STUN" /\ AttributesOf(parsed.attrs)
  BY Zenon DEF StunReads
<1>1. type \in Nat /\ Is16(type) /\ ClassOf(type) = "request" /\ (type \div 256) % 256 = 0
  BY Requests
<1>2. PICK all, whole :
        /\ b = StunHeader(type, Len(whole), TxId) \o whole /\ LaidOut(all, whole)
        /\ Len(all) = Len(ats) + (Len(key) + Bit(fingerprint)) /\ \A i \in 1 .. Len(ats) : all[i] = ats[i]
        /\ Len(whole) = Len(flat) + (24 * Len(key) + 8 * Bit(fingerprint))
  <2>1. Whole(type, ats, flat, key, fingerprint)
    BY <1>1, <1>17, WholeIs
  <2>2. BuildStunMessage(type, flat, key, fingerprint) = b
    BY <1>16
  <2>3. Whole(type, ats, flat, key, fingerprint) =>
          \E all, whole :
            /\ BuildStunMessage(type, flat, key, fingerprint) = StunHeader(type, Len(whole), TxId) \o whole
            /\ LaidOut(all, whole)
            /\ Len(all) = Len(ats) + (Len(key) + Bit(fingerprint)) /\ \A i \in 1 .. Len(ats) : all[i] = ats[i]
            /\ Len(whole) = Len(flat) + (24 * Len(key) + 8 * Bit(fingerprint))
    BY WholeSays
  <2> QED
    BY <2>1, <2>2, <2>3, Zenon
<1>3. PICK k, f \in Nat : k = Len(key) /\ f = Bit(fingerprint) /\ k <= 1 /\ f <= 1
  <2>1. Len(key) \in Nat /\ Len(key) <= 1
    <3>1. key = <<>> => Len(key) = 0
      OBVIOUS
    <3>2. ASSUME NEW x \in Blob, key = <<x>> PROVE Len(key) = 1
      BY <3>2
    <3>3. Len(key) = 0 \/ Len(key) = 1
      BY <1>17, <3>1, <3>2 DEF IsKey
    <3>4. 0 \in Nat /\ 0 <= 1 /\ 1 \in Nat /\ 1 <= 1
      OBVIOUS
    <3> QED
      BY <3>3, <3>4, Zenon
  <2>2. Bit(fingerprint) \in Nat /\ Bit(fingerprint) <= 1
    BY DEF Bit
  <2> QED
    BY <2>1, <2>2
<1>4. PICK L \in Nat : L = Len(whole) /\ Is16(L) /\ L % 4 = 0
  <2>1. PICK l \in Nat : l = Len(flat)
    BY <1>17, LaidOutLengths
  <2>2. PICK L \in Nat : L = Len(whole) /\ L % 4 = 0
    BY <1>2, LaidOutLengths
  <2>3. l < 65000 /\ L = l + (24 * k + 8 * f)
    BY <1>2, <1>3, <1>17, <2>1, <2>2
  <2>4. L < 65536
    BY <1>3, <2>3
  <2> QED
    BY <2>2, <2>4 DEF Is16
<1>5. /\ b \in Blob /\ Len(b) = 20 + L /\ Uint16(b, 1) = type /\ b[1] = (type \div 256) % 256
      /\ SubSeq(b, 5, 8) = Cookie /\ ParseAttributes(b) = all
  <2>1. Reads(type, all, whole, b)
    BY <1>1, <1>2, <1>4, MessageRead
  <2>2. b = StunHeader(type, Len(whole), TxId) \o whole /\ L = Len(whole)
    BY <1>2, <1>4
  <2> QED
    BY <2>1, <2>2 DEF Reads
<1>6. Len(b) \in Nat /\ Len(b) >= 20 /\ Len(b) % 4 = 0 /\ Len(b) >= 2
  BY <1>4, <1>5
<1>7. /\ parsed.type = Uint16(b, 1) /\ parsed.class = ClassOf(Uint16(b, 1)) /\ parsed.attrs = ParseAttributes(b)
  BY <1>5, <1>6, <1>16, ParsedIs
<1>8. SubSeq(all, 1, Len(ats)) = ats
  <2>1. AttributesOf(ats) /\ AttributesOf(all)
    BY <1>2, <1>17 DEF LaidOut
  <2>2. PICK N \in Nat : N = Len(ats)
    BY <2>1, WrittenIs
  <2>3. Len(ats) <= Len(all)
    <3>1. N <= N + (k + f)
      OBVIOUS
    <3> QED
      BY <1>2, <1>3, <2>2, <3>1
  <2> QED
    BY <1>2, <2>1, <2>3, FirstOnes
<1>9. b[1] = 0
  BY <1>1, <1>5
<1>10. Route(b) = "none"
  <2>1. IsStunPacket(b)
    BY <1>6, <1>9 DEF IsStunPacket
  <2> QED
    BY <2>1 DEF Route
<1>11. ClassifyPacket(b) = "STUN"
  <2>1. parsed # Unparsed
    <3>1. Unparsed.type = -1
      BY DEF Unparsed
    <3>2. parsed.type = type
      BY <1>5, <1>7
    <3>3. type # -1
      OBVIOUS
    <3> QED
      BY <3>1, <3>2, <3>3
  <2>2. b[1] \div 64 + 1 = 1
    <3>1. 0 \div 64 + 1 = 1
      OBVIOUS
    <3> QED
      BY <1>9, <3>1
  <2>3. ~(Len(b) < 2)
    BY <1>6
  <2>4. <<"STUN", "DTLS?", "RTP/SRTP", "unknown">>[1] = "STUN"
    OBVIOUS
  <2>5. (IF Len(b) >= 20 /\ ParseStunResponse(b) # Unparsed THEN "STUN" ELSE "STUN?") = "STUN"
    <3>1. Len(b) >= 20 /\ ParseStunResponse(b) # Unparsed
      BY <1>6, <1>16, <2>1
    <3> QED
      BY <3>1, Zenon
  <2> QED
    <3>1. ClassifyPacket(b) =
            <<IF Len(b) >= 20 /\ ParseStunResponse(b) # Unparsed THEN "STUN" ELSE "STUN?",
              "DTLS?", "RTP/SRTP", "unknown">>[b[1] \div 64 + 1]
      BY <2>3, Zenon DEF ClassifyPacket
    <3> QED
      BY <2>2, <2>4, <2>5, <3>1, Zenon
<1>12. parsed.type = type /\ parsed.class = "request" /\ parsed.attrs = all
  <2>1. Uint16(b, 1) = type /\ ParseAttributes(b) = all
    BY <1>5
  <2>2. ClassOf(type) = "request"
    BY <1>1
  <2>3. parsed.type = Uint16(b, 1) /\ parsed.class = ClassOf(Uint16(b, 1)) /\ parsed.attrs = ParseAttributes(b)
    BY <1>7
  <2> QED
    BY <2>1, <2>2, <2>3, Zenon
<1>13. Len(b) % 4 = 0
  BY <1>6
<1>14. Len(all) = Len(ats) + (Len(key) + Bit(fingerprint)) /\ \A i \in 1 .. Len(ats) : all[i] = ats[i]
  BY <1>2
<1>15. AttributesOf(all)
  BY <1>2 DEF LaidOut
<1> QED
  BY <1>8, <1>10, <1>11, <1>12, <1>13, <1>14, <1>15, Zenon

-----------------------------------------------------------------------------
(* Varints and the fields of protobuf messages.                            *)

\* The base-128 digits of a number, and what is left after each.
Digits(v, q) ==
    /\ \A n \in 1 .. 5 : q[n] = v \div Weights[n] /\ q[n] \in Nat
    /\ q[1] = v /\ q[5] < 128
    /\ \A n \in 1 .. 4 : q[n] = 128 * q[n + 1] + (q[n] % 128)
    /\ (q[1] % 128) * Weights[1] + (q[2] % 128) * Weights[2] + (q[3] % 128) * Weights[3]
       + (q[4] % 128) * Weights[4] + (q[5] % 128) * Weights[5] = v

LEMMA WeightsAre ==
  /\ Weights[1] = 1 /\ Weights[2] = 128 /\ Weights[3] = 128 * 128 /\ Weights[4] = 128 * (128 * 128)
  /\ Weights[5] = (128 * 128) * (128 * 128)
  BY SMT DEF Weights

LEMMA WeightsTyped == \A n \in 1 .. 5 : Weights[n] \in Nat
  BY SMT DEF Weights

LEMMA DigitsAre ==
  ASSUME NEW v \in Nat, Is32(v)
  PROVE  \E q : Digits(v, q)
<1> DEFINE q == [n \in 1 .. 5 |-> v \div Weights[n]]
<1>1. PICK a, b, c, d \in Nat :
        a = v \div Weights[2] /\ b = v \div Weights[3] /\ c = v \div Weights[4] /\ d = v \div Weights[5]
  BY SMT, WeightsAre
<1>2. PICK k, l, m, n \in Nat :
        /\ k < 128 /\ l < 128 /\ m < 128 /\ n < 128
        /\ v = 128 * a + k /\ a = 128 * b + l /\ b = 128 * c + m /\ c = 128 * d + n
  <2>1. v \div Weights[2] = v \div 128
    BY SMT, WeightsAre
  <2>2. v \div Weights[3] = (v \div 128) \div 128
    BY SMT, WeightsAre
  <2>3. v \div Weights[4] = ((v \div 128) \div 128) \div 128
    BY SMT, WeightsAre
  <2>4. v \div Weights[5] = (((v \div 128) \div 128) \div 128) \div 128
    BY SMT, WeightsAre
  <2>5. b = a \div 128 /\ c = b \div 128 /\ d = c \div 128 /\ a = v \div 128
    BY <1>1, <2>1, <2>2, <2>3, <2>4, Zenon
  <2>6. \A x \in Nat : x % 128 \in Nat /\ x % 128 < 128 /\ x = 128 * (x \div 128) + (x % 128)
    BY SMT
  <2> QED
    BY <2>5, <2>6
<1>3. k = v % 128 /\ l = a % 128 /\ m = b % 128 /\ n = c % 128
  BY <1>2, SMT
<1>5. d < 128
  <2>1. PICK w, u \in Nat : w < 65536 /\ u < 65536 /\ v = (w * 65536) + u
    BY Halves DEF Is32
  <2>2. v < 65536 * 65536
    BY <2>1, SMT
  <2> QED
    BY <1>1, <2>2, SMT, WeightsAre
<1>6. q[1] = v /\ q[2] = a /\ q[3] = b /\ q[4] = c /\ q[5] = d
  <2>1. v \div Weights[1] = v
    BY SMT, WeightsAre
  <2>2. 1 \in 1 .. 5 /\ 2 \in 1 .. 5 /\ 3 \in 1 .. 5 /\ 4 \in 1 .. 5 /\ 5 \in 1 .. 5
    OBVIOUS
  <2> QED
    BY <1>1, <2>1, <2>2, Zenon
<1>7. \A i \in 1 .. 5 : q[i] = v \div Weights[i]
  OBVIOUS
<1> HIDE DEF q
<1>8. \A i \in 1 .. 5 : i = 1 \/ i = 2 \/ i = 3 \/ i = 4 \/ i = 5
  OBVIOUS
<1>9. \A i \in 1 .. 5 : q[i] \in Nat
  BY <1>6, <1>8
<1>11. \A i \in 1 .. 4 : q[i] = 128 * q[i + 1] + (q[i] % 128)
  <2>1. \A i \in 1 .. 4 : i = 1 \/ i = 2 \/ i = 3 \/ i = 4
    OBVIOUS
  <2>2. /\ q[1] = 128 * q[1 + 1] + (q[1] % 128) /\ q[2] = 128 * q[2 + 1] + (q[2] % 128)
        /\ q[3] = 128 * q[3 + 1] + (q[3] % 128) /\ q[4] = 128 * q[4 + 1] + (q[4] % 128)
    <3>1. 1 + 1 = 2 /\ 2 + 1 = 3 /\ 3 + 1 = 4 /\ 4 + 1 = 5
      OBVIOUS
    <3>2. /\ v = 128 * a + (v % 128) /\ a = 128 * b + (a % 128)
          /\ b = 128 * c + (b % 128) /\ c = 128 * d + (c % 128)
      BY <1>2, <1>3
    <3> QED
      BY <1>6, <3>1, <3>2, SMT
  <2> QED
    BY <2>1, <2>2
<1>12. /\ (q[1] % 128) * Weights[1] + (q[2] % 128) * Weights[2] + (q[3] % 128) * Weights[3]
          + (q[4] % 128) * Weights[4] + (q[5] % 128) * Weights[5] = v
  <2> DEFINE z == 128
  <2>1. q[1] % z = k /\ q[2] % z = l /\ q[3] % z = m /\ q[4] % z = n /\ q[5] % z = d
    <3>1. d % 128 = d
      BY <1>5
    <3> QED
      BY <1>3, <1>6, <3>1
  <2>2. k * 1 + l * 128 + m * (128 * 128) + n * (128 * (128 * 128)) + d * ((128 * 128) * (128 * 128)) = v
    BY <1>2, SMT
  <2>3. k * Weights[1] + l * Weights[2] + m * Weights[3] + n * Weights[4] + d * Weights[5] = v
    BY <2>2, WeightsAre, SMT
  <2> HIDE DEF z
  <2>4. /\ (q[1] % z) * Weights[1] + (q[2] % z) * Weights[2] + (q[3] % z) * Weights[3]
           + (q[4] % z) * Weights[4] + (q[5] % z) * Weights[5] = v
    BY <2>1, <2>3, Zenon
  <2> QED
    BY <2>4 DEF z
<1> QED
  BY <1>5, <1>6, <1>7, <1>9, <1>11, <1>12, Zenon DEF Digits

LEMMA LeastIs ==
  ASSUME NEW T, T \in SUBSET Nat, NEW x \in T, \A y \in T : x <= y
  PROVE  Min(T) = x
<1>1. \A y \in T : y \in Nat
  OBVIOUS
<1>2. ASSUME NEW z \in T, \A y \in T : z <= y PROVE z = x
  BY <1>1, <1>2
<1>3. Min(T) = CHOOSE z \in T : \A y \in T : z <= y
  BY DEF Min
<1> QED
  BY <1>2, <1>3

\* How long a varint is: up to the first digit with nothing left after it.
Ends(q, size) == size \in 1 .. 5 /\ q[size] < 128 /\ \A n \in 1 .. size - 1 : q[n] >= 128

LEMMA EndsIs ==
  ASSUME NEW v \in Nat, NEW q, Digits(v, q)
  PROVE  \E size \in 1 .. 5 : Ends(q, size) /\ EncodeVarint(v) =
           [k \in 1 .. size |-> (q[k] % 128) + (IF k < size THEN 128 ELSE 0)]
<1> DEFINE T == {n \in 1 .. 5 : v \div Weights[n] < 128}
<1>1. T \in SUBSET Nat /\ 5 \in T /\ \A n \in T : n \in 1 .. 5
  BY DEF Digits
<1>2. PICK size \in T : \A y \in T : size <= y
  <2> HIDE DEF T
  <2>1. T # {}
    BY <1>1
  <2> QED
    BY <1>1, <2>1, MinExists
<1>3. Min(T) = size
  <2> HIDE DEF T
  <2> QED
    BY <1>1, <1>2, LeastIs
<1>4. size \in 1 .. 5 /\ q[size] < 128
  BY <1>2 DEF Digits
<1>5. ASSUME NEW n \in 1 .. size - 1 PROVE q[n] >= 128
  <2>1. n \in 1 .. 5 /\ n < size
    BY <1>4
  <2>2. n \notin T
    BY <1>2, <1>4, <2>1
  <2>3. q[n] = v \div Weights[n] /\ q[n] \in Nat
    BY <2>1 DEF Digits
  <2> QED
    BY <2>1, <2>2, <2>3
<1>6. EncodeVarint(v) = [k \in 1 .. size |-> ((v \div Weights[k]) % 128) + (IF k < size THEN 128 ELSE 0)]
  BY <1>3 DEF EncodeVarint
<1>7. ASSUME NEW k \in 1 .. size PROVE (v \div Weights[k]) % 128 = q[k] % 128
  <2>1. k \in 1 .. 5
    BY <1>4
  <2> QED
    BY <2>1 DEF Digits
<1> HIDE DEF T
<1>8. EncodeVarint(v) = [k \in 1 .. size |-> (q[k] % 128) + (IF k < size THEN 128 ELSE 0)]
  BY <1>6, <1>7
<1> QED
  BY <1>4, <1>5, <1>8 DEF Ends

VarintIs(v, size, e) ==
    /\ e \in Blob /\ Len(e) = size /\ size \in 1 .. 5 /\ (v < 128 => size = 1)
    /\ \A n \in 1 .. size : e[n] \in Octets /\ (e[n] < 128 <=> n = size)
    /\ (e[1] % 128) * Weights[1] + (IF 2 > size THEN 0 ELSE (e[2] % 128) * Weights[2]) + (IF 3 > size THEN 0 ELSE (e[3] % 128) * Weights[3])
       + (IF 4 > size THEN 0 ELSE (e[4] % 128) * Weights[4]) + (IF 5 > size THEN 0 ELSE (e[5] % 128) * Weights[5]) = v

LEMMA VarintWritten ==
  ASSUME NEW v \in Nat, Is32(v)
  PROVE  \E size \in 1 .. 5 : VarintIs(v, size, EncodeVarint(v))
<1>1. PICK q : Digits(v, q)
  BY DigitsAre
<1>2. PICK size \in 1 .. 5 :
        Ends(q, size) /\ EncodeVarint(v) = [k \in 1 .. size |-> (q[k] % 128) + (IF k < size THEN 128 ELSE 0)]
  BY <1>1, EndsIs
<1>3. PICK e : e = EncodeVarint(v)
  OBVIOUS
<1>4. \A n \in 1 .. 5 : q[n] \in Nat
  BY <1>1 DEF Digits
<1>5. \A n \in 1 .. size : n \in 1 .. 5
  OBVIOUS
<1>6. ASSUME NEW n \in 1 .. size
      PROVE  e[n] \in Octets /\ (e[n] < 128 <=> n = size) /\ e[n] % 128 = q[n] % 128
  <2>1. PICK x \in Nat : x = q[n]
    BY <1>4, <1>5
  <2>2. e[n] = (x % 128) + (IF n < size THEN 128 ELSE 0)
    BY <1>2, <1>3, <2>1
  <2>3. CASE n < size
    <3>1. e[n] = (x % 128) + 128
      BY <2>2, <2>3
    <3> QED
      BY <2>1, <2>3, <3>1 DEF Octets
  <2>4. CASE n = size
    <3>1. e[n] = (x % 128)
      BY <2>2, <2>4
    <3> QED
      BY <2>1, <2>4, <3>1 DEF Octets
  <2> QED
    BY <2>3, <2>4
<1>7. e \in Blob /\ Len(e) = size
  <2>1. e = [k \in 1 .. size |-> e[k]]
    BY <1>2, <1>3
  <2>2. \A n \in 1 .. size : e[n] \in Octets
    BY <1>6
  <2> QED
    BY <2>1, <2>2 DEF Blob
<1>8. PICK a, b, c, d, f \in Nat : a = q[1] /\ b = q[2] /\ c = q[3] /\ d = q[4] /\ f = q[5]
  <2>1. 1 \in 1 .. 5 /\ 2 \in 1 .. 5 /\ 3 \in 1 .. 5 /\ 4 \in 1 .. 5 /\ 5 \in 1 .. 5
    OBVIOUS
  <2>2. q[1] \in Nat /\ q[2] \in Nat /\ q[3] \in Nat /\ q[4] \in Nat /\ q[5] \in Nat
    BY <1>4, <2>1, Zenon
  <2> QED
    BY <2>2, Zenon
<1>9. /\ a = v /\ f < 128 /\ a = 128 * b + (a % 128) /\ b = 128 * c + (b % 128)
      /\ c = 128 * d + (c % 128) /\ d = 128 * f + (d % 128)
  <2>1. \A n \in 1 .. 4 : q[n] = 128 * q[n + 1] + (q[n] % 128)
    BY <1>1 DEF Digits
  <2>2. /\ q[1] = 128 * q[2] + (q[1] % 128) /\ q[2] = 128 * q[3] + (q[2] % 128)
        /\ q[3] = 128 * q[4] + (q[3] % 128) /\ q[4] = 128 * q[5] + (q[4] % 128)
    BY <2>1
  <2>3. q[1] = v /\ q[5] < 128
    BY <1>1 DEF Digits
  <2> QED
    BY <1>8, <2>2, <2>3
<1>10. size = 1 \/ size = 2 \/ size = 3 \/ size = 4 \/ size = 5
  OBVIOUS
<1>11. q[size] < 128 /\ \A n \in 1 .. size - 1 : q[n] >= 128
  BY <1>2 DEF Ends
<1>12. v < 128 => size = 1
  <2>1. CASE size # 1
    <3>1. 1 \in 1 .. size - 1
      BY <2>1
    <3>2. a >= 128
      BY <1>8, <1>11, <3>1
    <3> QED
      BY <1>9, <3>2
  <2> QED
    BY <2>1
<1>13. /\ (e[1] % 128) * Weights[1] + (IF 2 > size THEN 0 ELSE (e[2] % 128) * Weights[2]) + (IF 3 > size THEN 0 ELSE (e[3] % 128) * Weights[3])
          + (IF 4 > size THEN 0 ELSE (e[4] % 128) * Weights[4]) + (IF 5 > size THEN 0 ELSE (e[5] % 128) * Weights[5]) = v
  <2>1. PICK k, l, m, n, o \in Nat : k = a % 128 /\ l = b % 128 /\ m = c % 128 /\ n = d % 128 /\ o = f % 128
    OBVIOUS
  <2>9. PICK s, t, u, w, x \in Nat :
          s = Weights[1] /\ t = Weights[2] /\ u = Weights[3] /\ w = Weights[4] /\ x = Weights[5]
    <3>1. 1 \in 1 .. 5 /\ 2 \in 1 .. 5 /\ 3 \in 1 .. 5 /\ 4 \in 1 .. 5 /\ 5 \in 1 .. 5
      OBVIOUS
    <3>2. /\ Weights[1] \in Nat /\ Weights[2] \in Nat /\ Weights[3] \in Nat /\ Weights[4] \in Nat
          /\ Weights[5] \in Nat
      BY <3>1, WeightsTyped, Zenon
    <3> QED
      BY <3>2, Zenon
  <2>2. k * s + l * t + m * u + n * w + o * x = v
    <3>1. (q[1] % 128) * Weights[1] + (q[2] % 128) * Weights[2] + (q[3] % 128) * Weights[3]
          + (q[4] % 128) * Weights[4] + (q[5] % 128) * Weights[5] = v
      BY <1>1, Zenon DEF Digits
    <3> QED
      BY <1>8, <2>1, <2>9, <3>1, Zenon
  <2>3. e[1] % 128 = k
    <3>1. 1 \in 1 .. size
      OBVIOUS
    <3> QED
      BY <1>6, <1>8, <2>1, <3>1
  <2>4. CASE size = 1
    <3>1. a < 128 /\ b = 0 /\ c = 0 /\ d = 0 /\ f = 0
      <4>1. a < 128
        BY <1>8, <1>11, <2>4
      <4> QED
        BY <1>9, <4>1
    <3>2. l = 0 /\ m = 0 /\ n = 0 /\ o = 0
      BY <2>1, <3>1
    <3> QED
      BY <2>2, <2>3, <2>9, <2>4, <3>2
  <2>5. CASE size = 2
    <3>1. c = 0 /\ d = 0 /\ f = 0
      <4>1. b < 128
        BY <1>8, <1>11, <2>5
      <4> QED
        BY <1>9, <4>1
    <3>2. m = 0 /\ n = 0 /\ o = 0
      BY <2>1, <3>1
    <3>3. e[2] % 128 = l
      BY <1>6, <1>8, <2>1, <2>5
    <3> QED
      BY <2>2, <2>3, <2>9, <2>5, <3>2, <3>3
  <2>6. CASE size = 3
    <3>1. d = 0 /\ f = 0
      <4>1. c < 128
        BY <1>8, <1>11, <2>6
      <4> QED
        BY <1>9, <4>1
    <3>2. n = 0 /\ o = 0
      BY <2>1, <3>1
    <3>3. e[2] % 128 = l /\ e[3] % 128 = m
      BY <1>6, <1>8, <2>1, <2>6
    <3> QED
      BY <2>2, <2>3, <2>9, <2>6, <3>2, <3>3
  <2>7. CASE size = 4
    <3>1. f = 0
      <4>1. d < 128
        BY <1>8, <1>11, <2>7
      <4> QED
        BY <1>9, <4>1
    <3>2. o = 0
      BY <2>1, <3>1
    <3>3. e[2] % 128 = l /\ e[3] % 128 = m /\ e[4] % 128 = n
      BY <1>6, <1>8, <2>1, <2>7
    <3> QED
      BY <2>2, <2>3, <2>9, <2>7, <3>2, <3>3
  <2>8. CASE size = 5
    <3>3. e[2] % 128 = l /\ e[3] % 128 = m /\ e[4] % 128 = n /\ e[5] % 128 = o
      BY <1>6, <1>8, <2>1, <2>8
    <3> QED
      BY <2>2, <2>3, <2>9, <2>8, <3>3
  <2> QED
    BY <1>10, <2>4, <2>5, <2>6, <2>7, <2>8
<1> QED
  BY <1>3, <1>6, <1>7, <1>12, <1>13 DEF VarintIs

\* A varint is read where it was put.
LEMMA VarintRead ==
  ASSUME NEW b \in Blob, NEW o \in Nat, NEW v \in Nat, Is32(v), NEW at, at = o + 1, Holds(b, o, EncodeVarint(v))
  PROVE  ReadVarint(b, at).v = v /\ ReadVarint(b, at).next = at + Len(EncodeVarint(v))
<1>1. PICK e : e = EncodeVarint(v)
  OBVIOUS
<1>2. PICK size \in 1 .. 5 : VarintIs(v, size, e)
  BY <1>1, VarintWritten
<1>3. /\ Len(e) = size
      /\ \A n \in 1 .. size : e[n] \in Octets /\ (e[n] < 128 <=> n = size)
      /\ (e[1] % 128) * Weights[1] + (IF 2 > size THEN 0 ELSE (e[2] % 128) * Weights[2]) + (IF 3 > size THEN 0 ELSE (e[3] % 128) * Weights[3])
         + (IF 4 > size THEN 0 ELSE (e[4] % 128) * Weights[4]) + (IF 5 > size THEN 0 ELSE (e[5] % 128) * Weights[5]) = v
  BY <1>2 DEF VarintIs
<1>4. PICK m \in Nat : m = Len(b)
  BY DEF Blob
<1>5. o + size <= m /\ \A n \in 1 .. size : b[o + n] = e[n]
  BY <1>1, <1>3, <1>4 DEF Holds
<1>6. \A n \in 1 .. 5 : at + n - 1 = o + n
  OBVIOUS
<1> DEFINE T == {n \in 1 .. 5 : at + n - 1 <= Len(b) /\ b[at + n - 1] < 128}
<1>7. T \in SUBSET Nat /\ \A n \in T : n \in 1 .. 5 /\ b[at + n - 1] < 128
  OBVIOUS
<1>8. size \in T
  <2>1. size \in 1 .. size /\ at + size - 1 = o + size
    OBVIOUS
  <2>2. b[o + size] < 128
    BY <1>3, <1>5, <2>1
  <2> QED
    BY <1>4, <1>5, <2>1, <2>2
<1>9. ASSUME NEW n \in T PROVE size <= n
  <2>1. n \in 1 .. 5 /\ b[o + n] < 128
    BY <1>6, <1>7
  <2>2. CASE n < size
    <3>1. n \in 1 .. size /\ n # size
      BY <2>1, <2>2
    <3> QED
      BY <1>3, <1>5, <2>1, <3>1
  <2> QED
    BY <2>1, <2>2
<1>10. Min(T) = size
  <2> HIDE DEF T
  <2> QED
    BY <1>7, <1>8, <1>9, LeastIs
<1> DEFINE part == [n \in 1 .. 5 |-> IF n > size THEN 0 ELSE (b[at + n - 1] % 128) * Weights[n]]
<1>11. ReadVarint(b, at) = [v |-> part[1] + part[2] + part[3] + part[4] + part[5], next |-> at + size]
  BY <1>10, Zenon DEF ReadVarint
<1>12. \A n \in 1 .. size : at + n - 1 = o + n /\ b[at + n - 1] = e[n]
  BY <1>5, <1>6
<1>13. /\ part[1] = (e[1] % 128) * Weights[1] /\ part[2] = IF 2 > size THEN 0 ELSE (e[2] % 128) * Weights[2]
       /\ part[3] = IF 3 > size THEN 0 ELSE (e[3] % 128) * Weights[3]
       /\ part[4] = IF 4 > size THEN 0 ELSE (e[4] % 128) * Weights[4]
       /\ part[5] = IF 5 > size THEN 0 ELSE (e[5] % 128) * Weights[5]
  BY <1>12
<1> HIDE DEF part
<1>14. part[1] + part[2] + part[3] + part[4] + part[5] = v
  BY <1>3, <1>13
<1> QED
  BY <1>1, <1>3, <1>11, <1>14

\* What a field of a protobuf message says wherever it is put.
Says(b, at, fld, v, data, next) ==
    /\ FieldAt(b, at).field = fld /\ FieldAt(b, at).v = v /\ FieldAt(b, at).data = data
    /\ FieldAt(b, at).next = next
Coded(e, fld, v, data) ==
    /\ e \in Blob /\ Len(e) \in Nat /\ Len(e) >= 1
    /\ \A b \in Blob, o \in Nat : Holds(b, o, e) => Says(b, o + 1, fld, v, data, o + 1 + Len(e))

LEMMA Small32 == \A v \in 0 .. 127 : v \in Nat /\ Is32(v)
<1> SUFFICES ASSUME NEW v \in 0 .. 127 PROVE v \in Nat /\ Is32(v)
  OBVIOUS
<1>1. v \div 65536 = 0
  BY SMT
<1> QED
  BY <1>1, SMT DEF Is32

\* A varint is a blob, read where it was put.
VarintAt(v, e) ==
    /\ e \in Blob /\ Len(e) \in 1 .. 5 /\ (v < 128 => Len(e) = 1)
    /\ \A b \in Blob, o \in Nat : \A at : at = o + 1 /\ Holds(b, o, e)
         => ReadVarint(b, at).v = v /\ ReadVarint(b, at).next = at + Len(e)

LEMMA VarintIsAt ==
  ASSUME NEW v \in Nat, Is32(v)
  PROVE  VarintAt(v, EncodeVarint(v))
<1>1. PICK e : e = EncodeVarint(v)
  OBVIOUS
<1>2. PICK size \in 1 .. 5 : VarintIs(v, size, e)
  BY <1>1, VarintWritten
<1>3. e \in Blob /\ Len(e) \in 1 .. 5 /\ (v < 128 => Len(e) = 1)
  BY <1>2, Zenon DEF VarintIs
<1>4. ASSUME NEW b \in Blob, NEW o \in Nat, NEW at, at = o + 1, Holds(b, o, e)
      PROVE  ReadVarint(b, at).v = v /\ ReadVarint(b, at).next = at + Len(e)
  BY <1>1, <1>4, VarintRead
<1> QED
  BY <1>1, <1>3, <1>4, Zenon DEF VarintAt

LEMMA ReadAt ==
  ASSUME NEW v, NEW e, VarintAt(v, e), NEW b \in Blob, NEW o \in Nat, NEW at \in Nat, at = o + 1, Holds(b, o, e)
  PROVE  ReadVarint(b, at).v = v /\ ReadVarint(b, at).next = at + Len(e)
  BY Zenon DEF VarintAt

\* Two blobs, the first of which is read before the second.
LEMMA VarintFieldCoded ==
  ASSUME NEW fld \in 1 .. 15, NEW v \in Nat, Is32(v)
  PROVE  /\ Coded(EncodeProtobufVarintField(fld, v), fld, v, <<>>)
         /\ Len(EncodeProtobufVarintField(fld, v)) <= 6
         /\ (v < 128 => Len(EncodeProtobufVarintField(fld, v)) = 2)
<1>1. fld * 8 \in 0 .. 127 /\ (fld * 8) % 8 = 0 /\ (fld * 8) \div 8 = fld
  OBVIOUS
<1>2. PICK t \in 0 .. 127 : t = fld * 8
  BY <1>1
<1>3. PICK s, u : s = EncodeVarint(t) /\ u = EncodeVarint(v)
  OBVIOUS
<1>4. VarintAt(t, s) /\ VarintAt(v, u)
  BY <1>3, Small32, VarintIsAt
<1>5. s \in Blob /\ u \in Blob /\ Len(s) = 1 /\ Len(u) \in 1 .. 5 /\ (v < 128 => Len(u) = 1)
  <2>1. t < 128
    OBVIOUS
  <2> QED
    BY <1>4, <2>1, Zenon DEF VarintAt
<1>6. PICK e : e = s \o u
  OBVIOUS
<1>7. e \in Blob /\ Len(e) = 1 + Len(u)
  BY <1>5, <1>6, Joined
<1>8. ASSUME NEW b \in Blob, NEW o \in Nat, Holds(b, o, e)
      PROVE  Says(b, o + 1, fld, v, <<>>, o + 1 + Len(e))
  <2>1. Holds(b, o, s) /\ Holds(b, o + 1, u)
    <3>1. Holds(b, o, s) /\ Holds(b, o + Len(s), u)
      BY <1>5, <1>6, <1>8, BlobHoldsTwo
    <3> QED
      BY <1>5, <3>1
  <2>2. PICK a, c \in Nat : a = o + 1 /\ c = a + 1
    OBVIOUS
  <2>3. ReadVarint(b, a).v = t /\ ReadVarint(b, a).next = c
    <3>1. ReadVarint(b, a).v = t /\ ReadVarint(b, a).next = a + Len(s)
      BY <1>4, <2>1, <2>2, ReadAt
    <3> QED
      BY <1>5, <2>2, <3>1
  <2>4. ReadVarint(b, c).v = v /\ ReadVarint(b, c).next = c + Len(u)
    <3>1. Holds(b, a, u)
      BY <2>1, <2>2
    <3> QED
      BY <1>4, <2>2, <3>1, ReadAt
  <2>5. FieldAt(b, a) = [field |-> fld, v |-> v, data |-> <<>>, next |-> c + Len(u)]
    <3>1. t % 8 = 0 /\ t \div 8 = fld
      BY <1>1, <1>2
    <3> QED
      BY <2>3, <2>4, <3>1, Zenon DEF FieldAt
  <2>6. c + Len(u) = o + 1 + Len(e)
    BY <1>5, <1>7, <2>2
  <2> QED
    BY <2>2, <2>5, <2>6 DEF Says
<1>9. EncodeProtobufVarintField(fld, v) = e
  BY <1>2, <1>3, <1>6 DEF EncodeProtobufVarintField
<1>10. Len(e) \in Nat /\ Len(e) >= 1 /\ Len(e) <= 6 /\ (v < 128 => Len(e) = 2)
  <2>1. PICK m \in 1 .. 5 : m = Len(u) /\ (v < 128 => m = 1)
    BY <1>5
  <2>2. Len(e) = 1 + m
    BY <1>7, <2>1
  <2>3. 1 + m \in Nat /\ 1 + m >= 1 /\ 1 + m <= 6 /\ (m = 1 => 1 + m = 2)
    OBVIOUS
  <2> QED
    BY <2>1, <2>2, <2>3, Zenon
<1> QED
  BY <1>7, <1>8, <1>9, <1>10, Zenon DEF Coded

LEMMA BlockCoded ==
  ASSUME NEW data \in Blob, Is32(Len(data))
  PROVE  /\ Coded(EncodeProtobufLengthDelimited(1, data), 1, -1, data)
         /\ Len(EncodeProtobufLengthDelimited(1, data)) <= 6 + Len(data)
         /\ (Len(data) < 128 => Len(EncodeProtobufLengthDelimited(1, data)) = 2 + Len(data))
<1>1. PICK l \in Nat : l = Len(data)
  BY DEF Blob
<1>2. PICK s, u : s = EncodeVarint(10) /\ u = EncodeVarint(l)
  OBVIOUS
<1>3. VarintAt(10, s) /\ VarintAt(l, u)
  <2>1. 10 \in 0 .. 127
    OBVIOUS
  <2>2. 10 \in Nat /\ Is32(10) /\ l \in Nat /\ Is32(l)
    BY <1>1, <2>1, Small32
  <2> QED
    BY <1>2, <2>2, VarintIsAt
<1>4. s \in Blob /\ u \in Blob /\ Len(s) = 1 /\ Len(u) \in 1 .. 5 /\ (l < 128 => Len(u) = 1)
  <2>1. 10 < 128
    OBVIOUS
  <2> QED
    BY <1>3, <2>1, Zenon DEF VarintAt
<1>5. PICK m \in 1 .. 5 : m = Len(u)
  BY <1>4
<1>6. PICK e : e = s \o (u \o data)
  OBVIOUS
<1>7. u \o data \in Blob /\ Len(u \o data) = m + l /\ e \in Blob /\ Len(e) = 1 + (m + l)
  <2>1. u \o data \in Blob /\ Len(u \o data) = m + l
    BY <1>1, <1>4, <1>5, Joined
  <2>2. PICK x \in Blob : x = u \o data
    BY <2>1
  <2>3. s \o x \in Blob /\ Len(s \o x) = Len(s) + Len(x)
    BY <1>4, Joined
  <2> QED
    BY <1>4, <1>6, <2>1, <2>2, <2>3, Zenon
<1>8. ASSUME NEW b \in Blob, NEW o \in Nat, Holds(b, o, e)
      PROVE  Says(b, o + 1, 1, -1, data, o + 1 + Len(e))
  <2>1. Holds(b, o, s) /\ Holds(b, o + 1, u) /\ Holds(b, o + 1 + m, data)
    <3>1. Holds(b, o, s) /\ Holds(b, o + Len(s), u \o data)
      BY <1>4, <1>6, <1>7, <1>8, BlobHoldsTwo
    <3>2. o + 1 \in Nat /\ Holds(b, o + 1, u \o data)
      BY <1>4, <3>1
    <3>3. Holds(b, o + 1, u) /\ Holds(b, o + 1 + Len(u), data)
      BY <1>4, <3>2, BlobHoldsTwo
    <3> QED
      BY <1>5, <3>1, <3>3
  <2>2. PICK a, c, d \in Nat : a = o + 1 /\ c = a + 1 /\ d = c + m
    OBVIOUS
  <2>3. ReadVarint(b, a).v = 10 /\ ReadVarint(b, a).next = c
    <3>1. ReadVarint(b, a).v = 10 /\ ReadVarint(b, a).next = a + Len(s)
      BY <1>3, <2>1, <2>2, ReadAt
    <3> QED
      BY <1>4, <2>2, <3>1
  <2>4. ReadVarint(b, c).v = l /\ ReadVarint(b, c).next = d
    <3>1. Holds(b, a, u)
      BY <2>1, <2>2
    <3>2. ReadVarint(b, c).v = l /\ ReadVarint(b, c).next = c + Len(u)
      BY <1>3, <2>2, <3>1, ReadAt
    <3> QED
      BY <1>5, <2>2, <3>2
  <2>5. SubSeq(b, d, d + l - 1) = data
    <3>1. PICK g \in Nat : g = o + 1 + m
      OBVIOUS
    <3>2. SubSeq(b, g + 1, g + Len(data)) = data
      <4>1. b \in Seq(Octets) /\ data \in Seq(Octets) /\ Holds(b, g, data)
        BY <2>1, <3>1 DEF Blob
      <4> QED
        BY <4>1, HoldsCut
    <3>3. g + 1 = d /\ g + l = d + l - 1
      BY <2>2, <3>1
    <3> QED
      BY <1>1, <3>2, <3>3
  <2>6. FieldAt(b, a) = [field |-> 1, v |-> -1, data |-> data, next |-> d + l]
    <3>1. 10 % 8 # 0 /\ 10 \div 8 = 1
      OBVIOUS
    <3> QED
      BY <2>3, <2>4, <2>5, <3>1, Zenon DEF FieldAt
  <2>7. d + l = o + 1 + Len(e)
    BY <1>7, <2>2
  <2> QED
    BY <2>2, <2>6, <2>7 DEF Says
<1>9. EncodeProtobufLengthDelimited(1, data) = e
  <2>1. 1 * 8 + 2 = 10
    OBVIOUS
  <2>2. EncodeProtobufLengthDelimited(1, data) = (s \o u) \o data
    BY <1>1, <1>2, <2>1, Zenon DEF EncodeProtobufLengthDelimited
  <2>3. Groups(s, u, data)
    BY <1>4, Regroup
  <2> QED
    BY <1>6, <2>2, <2>3, Zenon DEF Groups
<1>10. /\ Len(e) \in Nat /\ Len(e) >= 1 /\ Len(e) <= 6 + Len(data)
       /\ (Len(data) < 128 => Len(e) = 2 + Len(data))
  <2>1. m <= 5 /\ (l < 128 => m = 1)
    BY <1>4, <1>5
  <2>2. PICK n \in Nat : n = 1 + (m + l)
    OBVIOUS
  <2>3. n >= 1 /\ n <= 6 + l /\ (l < 128 => n = 2 + l)
    BY <2>1, <2>2
  <2> QED
    BY <1>1, <1>7, <2>2, <2>3, Zenon
<1> QED
  BY <1>7, <1>8, <1>9, <1>10, Zenon DEF Coded

LEMMA FieldsAtIs ==
  ASSUME NEW b, NEW n \in Nat, n = Len(b) + 1, NEW h,
         \A k \in 1 .. n : h[k] = IF k = 1 THEN 1 ELSE AfterField(b, h[k - 1])
  PROVE  \A k \in 1 .. n : FieldsAt(b)[k] = h[k]
<1> DEFINE at[k \in 1 .. Len(b) + 1] == IF k = 1 THEN 1 ELSE AfterField(b, at[k - 1])
           Unrolls(e) == e = [k \in 1 .. Len(b) + 1 |-> IF k = 1 THEN 1 ELSE AfterField(b, e[k - 1])]
           g == [k \in 1 .. n |-> h[k]]
<1>1. Unrolls(g)
  <2> SUFFICES ASSUME NEW k \in 1 .. n
               PROVE  g[k] = IF k = 1 THEN 1 ELSE AfterField(b, g[k - 1])
    OBVIOUS
  <2>1. k # 1 => k - 1 \in 1 .. n
    OBVIOUS
  <2>2. g[k] = h[k] /\ (k # 1 => g[k - 1] = h[k - 1])
    BY <2>1
  <2> HIDE DEF g
  <2> QED
    BY <2>2
<1>2. at = CHOOSE e : Unrolls(e)
  OBVIOUS
<1>3. Unrolls(at)
  <2> HIDE DEF Unrolls, g, at
  <2> QED
    BY <1>1, <1>2
<1>4. FieldsAt(b) = at
  BY DEF FieldsAt
<1>5. \A k \in 1 .. n : at[k] = IF k = 1 THEN 1 ELSE AfterField(b, at[k - 1])
  <2> HIDE DEF at
  <2> QED
    BY <1>3
<1> HIDE DEF at
<1> DEFINE P == {k \in 0 .. n : k = 0 \/ at[k] = h[k]}
<1>6. ASSUME NEW k \in 1 .. n, k - 1 \in P PROVE k \in P
  <2>1. k # 1 => at[k - 1] = h[k - 1]
    BY <1>6
  <2>2. at[k] = h[k]
    BY <1>5, <2>1
  <2> QED
    BY <2>2
<1>7. 0 .. n \subseteq P
  <2>1. 0 \in P /\ n \in Nat
    OBVIOUS
  <2> HIDE DEF P
  <2> QED
    BY <1>6, <2>1, AllUpTo
<1> QED
  BY <1>4, <1>7

\* Fields one after the other are read.
LEMMA FieldsParsed ==
  ASSUME NEW b \in Blob, NEW ss \in Seq(Seq(Octets)), NEW f, Parts(f, ss, b), NEW F, NEW V, NEW D,
         \A i \in 1 .. Len(ss) : Coded(ss[i], F[i], V[i], D[i])
  PROVE  /\ DOMAIN ReadFields(b) = 1 .. Len(ss)
         /\ \A i \in 1 .. Len(ss) :
              ReadFields(b)[i].field = F[i] /\ ReadFields(b)[i].v = V[i] /\ ReadFields(b)[i].data = D[i]
<1>1. b \in Seq(Octets)
  BY DEF Blob
<1>2. PICK N, L \in Nat : N = Len(ss) /\ L = Len(b)
  BY <1>1
<1>5. f \in [0 .. N -> 0 .. L] /\ f[0] = 0 /\ f[N] = L /\ \A i \in 1 .. N : f[i] = f[i - 1] + Len(ss[i])
  BY <1>2 DEF Parts
<1>6. \A i \in 0 .. N : f[i] \in Nat /\ f[i] <= L
  BY <1>2, <1>5
\* Each is there.
<1>8. ASSUME NEW i \in 1 .. N
      PROVE  /\ ~(1 + f[i - 1] > Len(b)) /\ AfterField(b, 1 + f[i - 1]) = 1 + f[i]
             /\ FieldAt(b, 1 + f[i - 1]).field = F[i] /\ FieldAt(b, 1 + f[i - 1]).v = V[i]
             /\ FieldAt(b, 1 + f[i - 1]).data = D[i]
             /\ f[i - 1] < f[i]
  <2>1. PICK o, g \in Nat : o = f[i - 1] /\ g = f[i] /\ g <= L
    <3>1. i - 1 \in 0 .. N /\ i \in 0 .. N
      OBVIOUS
    <3>2. f[i - 1] \in Nat /\ f[i] \in Nat /\ f[i] <= L
      BY <1>6, <3>1
    <3> QED
      BY <3>2
  <2>2. PICK e : e = ss[i]
    OBVIOUS
  <2>3. Coded(e, F[i], V[i], D[i])
    BY <1>2, <2>2
  <2>4. Holds(b, o, e)
    <3>1. 0 \in Nat /\ i \in 1 .. Len(ss) /\ Holds(b, 0, b)
      <4>1. IsSequence(b)
        BY <1>1 DEF IsSequence
      <4> QED
        BY <1>2, <4>1, HoldsItself
    <3>2. Holds(b, 0 + f[i - 1], ss[i])
      BY <1>1, <3>1, HoldsPart
    <3>3. 0 + f[i - 1] = o
      BY <2>1
    <3> QED
      BY <2>2, <3>2, <3>3
  <2>5. Says(b, o + 1, F[i], V[i], D[i], o + 1 + Len(e)) /\ Len(e) \in Nat /\ Len(e) >= 1
    BY <2>3, <2>4, Zenon DEF Coded
  <2>6. PICK l \in Nat : l = Len(e) /\ l >= 1
    BY <2>5
  <2>7. g = o + l
    BY <1>5, <2>1, <2>2, <2>6
  <2>8. PICK a \in Nat : a = o + 1 /\ a = 1 + f[i - 1]
    BY <2>1
  <2>9. o + 1 + Len(e) = 1 + f[i] /\ ~(a > L)
    <3>1. o + 1 + l = 1 + g /\ ~(a > L)
      <4>1. l >= 1 /\ g <= L /\ a = o + 1 /\ g = o + l
        BY <2>1, <2>6, <2>7, <2>8, Zenon
      <4> QED
        BY <4>1
    <3> QED
      BY <2>1, <2>6, <3>1, Zenon
  <2>10. Says(b, a, F[i], V[i], D[i], 1 + f[i])
    BY <2>5, <2>8, <2>9, Zenon
  <2>11. f[i - 1] < f[i]
    BY <2>1, <2>6, <2>7
  <2>12. ~(a > Len(b)) /\ AfterField(b, a) = 1 + f[i]
    <3>1. ~(a > Len(b))
      BY <1>2, <2>9
    <3> QED
      BY <2>10, <3>1, Zenon DEF AfterField, Says
  <2> QED
    BY <2>8, <2>10, <2>11, <2>12, Zenon DEF Says
<1>9. 1 + L > Len(b)
  BY <1>2
<1> DEFINE M == Len(b) + 1
           h == [k \in 1 .. M |-> 1 + f[IF k <= N THEN k - 1 ELSE N]]
\* There are no more fields than bytes.
<1>10. N <= L
  <2> DEFINE P == {i \in 0 .. N : i <= f[i]}
  <2>1. 0 \in P
    BY <1>5
  <2>2. ASSUME NEW i \in 1 .. N, i - 1 \in P PROVE i \in P
    <3>1. i - 1 <= f[i - 1] /\ f[i - 1] < f[i] /\ f[i - 1] \in Nat /\ f[i] \in Nat
      <4>1. i - 1 \in 0 .. N /\ i \in 0 .. N
        OBVIOUS
      <4> QED
        BY <1>6, <1>8, <2>2, <4>1
    <3> QED
      BY <3>1
  <2>3. 0 .. N \subseteq P
    <3> HIDE DEF P
    <3> QED
      BY <2>1, <2>2, AllUpTo
  <2>4. N \in 0 .. N
    OBVIOUS
  <2>5. N <= f[N]
    BY <2>3, <2>4
  <2> QED
    BY <1>5, <2>5
<1>11. M \in Nat /\ N < M /\ M = Len(b) + 1
  BY <1>2, <1>10
<1>12. /\ \A k \in 1 .. N : h[k] = 1 + f[k - 1]
       /\ \A k \in N + 1 .. M : h[k] = 1 + L
  <2>1. ASSUME NEW k \in 1 .. N PROVE h[k] = 1 + f[k - 1]
    BY <1>11
  <2>2. ASSUME NEW k \in N + 1 .. M PROVE h[k] = 1 + L
    BY <1>5, <1>11
  <2> QED
    BY <2>1, <2>2
<1> HIDE DEF h
<1>13. ASSUME NEW k \in 1 .. M PROVE h[k] = IF k = 1 THEN 1 ELSE AfterField(b, h[k - 1])
  <2>1. CASE k = 1
    <3>1. CASE N = 0
      <4>1. k \in N + 1 .. M
        BY <1>11, <2>1, <3>1
      <4>2. L = 0
        BY <1>5, <3>1
      <4> QED
        BY <1>12, <2>1, <4>1, <4>2
    <3>2. CASE N # 0
      <4>1. k \in 1 .. N /\ k - 1 = 0
        BY <2>1, <3>2
      <4> QED
        BY <1>5, <1>12, <2>1, <4>1
    <3> QED
      BY <3>1, <3>2
  <2>2. CASE k # 1 /\ k - 1 <= N
    <3>1. k - 1 \in 1 .. N
      BY <2>2
    <3>2. AfterField(b, h[k - 1]) = 1 + f[k - 1]
      BY <1>8, <1>12, <3>1
    <3>3. CASE k <= N
      <4>1. k \in 1 .. N
        BY <3>3
      <4> QED
        BY <1>12, <2>2, <3>2, <4>1
    <3>4. CASE k = N + 1
      <4>1. k \in N + 1 .. M /\ k - 1 = N
        BY <1>11, <3>4
      <4> QED
        BY <1>5, <1>12, <2>2, <3>2, <4>1
    <3> QED
      BY <2>2, <3>3, <3>4
  <2>3. CASE ~(k - 1 <= N)
    <3>1. k \in N + 1 .. M /\ k - 1 \in N + 1 .. M /\ k # 1
      BY <1>11, <2>3
    <3>2. h[k] = 1 + L /\ h[k - 1] = 1 + L
      BY <1>12, <3>1
    <3>3. AfterField(b, 1 + L) = 1 + L
      BY <1>9 DEF AfterField
    <3> QED
      BY <3>1, <3>2, <3>3
  <2> QED
    BY <2>1, <2>2, <2>3
<1> HIDE DEF M
<1>14. PICK at : at = FieldsAt(b)
  OBVIOUS
<1>15. \A k \in 1 .. M : at[k] = h[k]
  BY <1>11, <1>13, <1>14, FieldsAtIs
<1>16. /\ \A k \in 1 .. N : /\ at[k] <= Len(b) /\ FieldAt(b, at[k]).field = F[k]
                            /\ FieldAt(b, at[k]).v = V[k] /\ FieldAt(b, at[k]).data = D[k]
       /\ at[N + 1] > Len(b)
  <2>1. ASSUME NEW k \in 1 .. N
        PROVE  /\ at[k] <= Len(b) /\ FieldAt(b, at[k]).field = F[k]
               /\ FieldAt(b, at[k]).v = V[k] /\ FieldAt(b, at[k]).data = D[k]
    <3>1. k \in 1 .. M
      BY <1>11
    <3>2. at[k] = 1 + f[k - 1]
      BY <1>12, <1>15, <3>1
    <3>3. f[k - 1] \in Nat
      <4>1. k - 1 \in 0 .. N
        OBVIOUS
      <4> QED
        BY <1>6, <4>1
    <3>4. at[k] <= Len(b)
      <4>1. ~(1 + f[k - 1] > Len(b))
        BY <1>8
      <4> QED
        BY <1>2, <3>2, <3>3, <4>1
    <3> QED
      BY <1>8, <3>2, <3>4
  <2>2. at[N + 1] > Len(b)
    <3>1. N + 1 \in 1 .. M /\ N + 1 \in N + 1 .. M
      BY <1>11
    <3>2. at[N + 1] = 1 + L
      BY <1>12, <1>15, <3>1
    <3> QED
      BY <1>9, <3>2
  <2> QED
    BY <2>1, <2>2
<1> DEFINE Stops(n) == at[n + 1] > Len(b) /\ \A k \in 1 .. n : at[k] <= Len(b)
           count == CHOOSE n \in 0 .. Len(b) : Stops(n)
<1>17. count = N
  <2>1. N \in 0 .. Len(b) /\ Stops(N)
    BY <1>11, <1>16
  <2>2. ASSUME NEW n \in 0 .. Len(b), Stops(n) PROVE n = N
    <3>1. n \in Nat /\ \A k \in 1 .. M : at[k] \in Nat
      <4>1. ASSUME NEW k \in 1 .. M PROVE h[k] \in Nat
        <5>1. CASE k <= N
          <6>1. k \in 1 .. N /\ k - 1 \in 0 .. N
            BY <5>1
          <6> QED
            BY <1>6, <1>12, <6>1
        <5>2. CASE ~(k <= N)
          <6>1. k \in N + 1 .. M
            BY <1>11, <5>2
          <6> QED
            BY <1>12, <6>1
        <5> QED
          BY <5>1, <5>2
      <4> QED
        BY <1>15, <4>1
    <3>2. CASE n < N
      <4>1. n + 1 \in 1 .. N /\ n + 1 \in 1 .. M
        BY <1>11, <3>1, <3>2
      <4>2. PICK x \in Nat : x = at[n + 1]
        BY <3>1, <4>1
      <4>3. x <= L /\ x > L
        BY <1>2, <1>16, <2>2, <4>1, <4>2
      <4> QED
        BY <4>3
    <3>3. CASE n > N
      <4>1. N + 1 \in 1 .. n /\ N + 1 \in 1 .. M
        BY <1>11, <3>1, <3>3
      <4>2. PICK x \in Nat : x = at[N + 1]
        BY <3>1, <4>1
      <4>3. x <= L /\ x > L
        BY <1>2, <1>16, <2>2, <4>1, <4>2
      <4> QED
        BY <4>3
    <3> QED
      BY <3>1, <3>2, <3>3
  <2>3. count \in 0 .. Len(b) /\ Stops(count)
    <3> HIDE DEF Stops
    <3> QED
      BY <2>1
  <2> HIDE DEF Stops, count
  <2> QED
    BY <2>2, <2>3
<1>18. ReadFields(b) = [k \in 1 .. count |-> FieldAt(b, at[k])]
  BY <1>14 DEF ReadFields
<1> HIDE DEF count
<1>19. ReadFields(b) = [k \in 1 .. N |-> FieldAt(b, at[k])]
  BY <1>17, <1>18
<1>20. \A k \in 1 .. N : ReadFields(b)[k] = FieldAt(b, at[k])
  BY <1>19
<1>21. DOMAIN ReadFields(b) = 1 .. N
  BY <1>19
<1> QED
  BY <1>2, <1>16, <1>20, <1>21

Three(S, x, y, z, q) ==
    q = (<<x>> \o <<y>>) \o <<z>>
    => /\ <<x>> \o <<y>> \in Seq(S) /\ q \in Seq(S) /\ Len(q) = 3 /\ q[1] = x /\ q[2] = y /\ q[3] = z

LEMMA ThreeIs ==
  ASSUME NEW S, NEW x \in S, NEW y \in S, NEW z \in S, NEW q
  PROVE  Three(S, x, y, z, q)
<1> SUFFICES ASSUME q = (<<x>> \o <<y>>) \o <<z>>
             PROVE  /\ <<x>> \o <<y>> \in Seq(S) /\ q \in Seq(S) /\ Len(q) = 3
                    /\ q[1] = x /\ q[2] = y /\ q[3] = z
  BY DEF Three
<1>1. /\ <<x>> \in Seq(S) /\ <<y>> \in Seq(S) /\ <<z>> \in Seq(S)
      /\ Len(<<x>>) = 1 /\ Len(<<y>>) = 1 /\ Len(<<z>>) = 1
      /\ <<x>>[1] = x /\ <<y>>[1] = y /\ <<z>>[1] = z
  OBVIOUS
<1>2. PICK p : p = <<x>> \o <<y>>
  OBVIOUS
<1>3. /\ p \in Seq(S) /\ Len(p) = 1 + 1
      /\ \A i \in 1 .. 1 : p[i] = <<x>>[i]
      /\ \A i \in 1 .. 1 : p[1 + i] = <<y>>[i]
  <2>1. /\ p \in Seq(S) /\ Len(p) = Len(<<x>>) + Len(<<y>>)
        /\ \A i \in 1 .. Len(<<x>>) : p[i] = <<x>>[i]
        /\ \A i \in 1 .. Len(<<y>>) : p[Len(<<x>>) + i] = <<y>>[i]
    BY <1>1, <1>2, TwoInARow
  <2> QED
    BY <1>1, <2>1, Zenon
<1>4. q = p \o <<z>>
  BY <1>2
<1>5. /\ q \in Seq(S) /\ Len(q) = 2 + 1
      /\ \A i \in 1 .. 2 : q[i] = p[i]
      /\ \A i \in 1 .. 1 : q[2 + i] = <<z>>[i]
  <2>1. /\ q \in Seq(S) /\ Len(q) = Len(p) + Len(<<z>>)
        /\ \A i \in 1 .. Len(p) : q[i] = p[i]
        /\ \A i \in 1 .. Len(<<z>>) : q[Len(p) + i] = <<z>>[i]
    BY <1>1, <1>3, <1>4, TwoInARow
  <2>2. Len(p) = 2
    BY <1>3
  <2> QED
    BY <1>1, <2>1, <2>2, Zenon
<1>6. 1 + 1 = 2 /\ 2 + 1 = 3 /\ 1 \in 1 .. 1 /\ 1 \in 1 .. 2 /\ 2 \in 1 .. 2
  OBVIOUS
<1>7. p[1] = x /\ p[2] = y
  BY <1>1, <1>3, <1>6, Zenon
<1>8. q[1] = x /\ q[2] = y /\ q[3] = z
  BY <1>1, <1>5, <1>6, <1>7, Zenon
<1> QED
  BY <1>2, <1>3, <1>5, <1>6, <1>8, Zenon

\* Fields that are written one after the other, and what is read of them.
CodedAll(ss, F, V, D) == \A i \in 1 .. Len(ss) : Coded(ss[i], F[i], V[i], D[i])
SaysAll(b, n, F, V, D) ==
    /\ DOMAIN ReadFields(b) = 1 .. n
    /\ \A i \in 1 .. n :
         ReadFields(b)[i].field = F[i] /\ ReadFields(b)[i].v = V[i] /\ ReadFields(b)[i].data = D[i]

LEMMA FieldsRead ==
  ASSUME NEW b \in Blob, NEW ss \in Seq(Seq(Octets)), NEW F, NEW V, NEW D, CodedAll(ss, F, V, D),
         \E f : Parts(f, ss, b)
  PROVE  SaysAll(b, Len(ss), F, V, D)
<1>1. PICK f : Parts(f, ss, b)
  OBVIOUS
<1>2. \A i \in 1 .. Len(ss) : Coded(ss[i], F[i], V[i], D[i])
  BY Zenon DEF CodedAll
<1>3. /\ DOMAIN ReadFields(b) = 1 .. Len(ss)
      /\ \A i \in 1 .. Len(ss) :
           ReadFields(b)[i].field = F[i] /\ ReadFields(b)[i].v = V[i] /\ ReadFields(b)[i].data = D[i]
  BY <1>1, <1>2, FieldsParsed
<1> QED
  BY <1>3, Zenon DEF SaysAll

\* Three fields of numbers are read.
Triple(b, u, v, w) ==
    /\ b \in Blob /\ DOMAIN ReadFields(b) = 1 .. 3
    /\ ReadFields(b)[1].v = u /\ ReadFields(b)[2].v = v /\ ReadFields(b)[3].v = w

LEMMA TripleRead ==
  ASSUME NEW x \in Blob, NEW y \in Blob, NEW z \in Blob, NEW k, NEW l, NEW m, NEW u, NEW v, NEW w,
         Coded(x, k, u, <<>>), Coded(y, l, v, <<>>), Coded(z, m, w, <<>>)
  PROVE  Triple((x \o y) \o z, u, v, w)
<1>1. x \in Seq(Octets) /\ y \in Seq(Octets) /\ z \in Seq(Octets)
  BY DEF Blob
<1>2. PICK f : Parts(f, <<x>>, x)
  BY <1>1, PartsOne
<1>3. PICK g : Parts(g, <<y>>, y)
  BY <1>1, PartsOne
<1>4. PICK h : Parts(h, <<z>>, z)
  BY <1>1, PartsOne
<1>5. <<x>> \in Seq(Seq(Octets)) /\ <<y>> \in Seq(Seq(Octets)) /\ <<z>> \in Seq(Seq(Octets))
  <2>1. \A s \in Seq(Octets) : <<s>> \in Seq(Seq(Octets))
    OBVIOUS
  <2> QED
    BY <1>1, <2>1
<1>6. PICK i : Parts(i, <<x>> \o <<y>>, x \o y)
  BY <1>1, <1>2, <1>3, <1>5, PartsJoin
<1>9. x \o y \in Seq(Octets) /\ x \o y \in Blob /\ (x \o y) \o z \in Blob
  <2>1. x \o y \in Blob
    BY Joined
  <2>2. (x \o y) \o z \in Blob
    BY <2>1, Joined
  <2> QED
    BY <2>1, <2>2 DEF Blob
<1>11. PICK ss, b : ss = (<<x>> \o <<y>>) \o <<z>> /\ b = (x \o y) \o z
  OBVIOUS
<1>13. /\ <<x>> \o <<y>> \in Seq(Seq(Octets))
       /\ ss \in Seq(Seq(Octets)) /\ Len(ss) = 3 /\ ss[1] = x /\ ss[2] = y /\ ss[3] = z
  <2>1. Three(Seq(Octets), x, y, z, ss)
    BY <1>1, ThreeIs
  <2> QED
    BY <1>11, <2>1 DEF Three
<1>12. PICK j : Parts(j, ss, b)
  <2>1. \E j : Parts(j, (<<x>> \o <<y>>) \o <<z>>, (x \o y) \o z)
    BY <1>1, <1>4, <1>5, <1>6, <1>9, <1>13, PartsJoin
  <2> QED
    BY <1>11, <2>1, Zenon
<1>14. PICK F, V, D : F = <<k, l, m>> /\ V = <<u, v, w>> /\ D = << <<>>, <<>>, <<>> >>
  OBVIOUS
<1>15. /\ F[1] = k /\ F[2] = l /\ F[3] = m /\ V[1] = u /\ V[2] = v /\ V[3] = w
       /\ D[1] = <<>> /\ D[2] = <<>> /\ D[3] = <<>>
  BY <1>14
<1>16. CodedAll(ss, F, V, D)
  <2>1. ASSUME NEW n \in 1 .. Len(ss) PROVE Coded(ss[n], F[n], V[n], D[n])
    <3>1. n = 1 \/ n = 2 \/ n = 3
      BY <1>13
    <3> QED
      BY <1>13, <1>15, <3>1, Zenon
  <2> QED
    BY <2>1, Zenon DEF CodedAll
<1>17. SaysAll(b, 3, F, V, D)
  <2>1. b \in Blob /\ \E g1 : Parts(g1, ss, b)
    BY <1>9, <1>11, <1>12
  <2>2. SaysAll(b, Len(ss), F, V, D)
    BY <1>13, <1>16, <2>1, FieldsRead
  <2> QED
    BY <1>13, <2>2
<1>18. 1 \in 1 .. 3 /\ 2 \in 1 .. 3 /\ 3 \in 1 .. 3
  OBVIOUS
<1>19. ReadFields(b)[1].v = u /\ ReadFields(b)[2].v = v /\ ReadFields(b)[3].v = w /\ DOMAIN ReadFields(b) = 1 .. 3
  BY <1>15, <1>17, <1>18, Zenon DEF SaysAll
<1> QED
  BY <1>9, <1>11, <1>19, Zenon DEF Triple

LEMMA TripleLength ==
  ASSUME NEW x \in Blob, NEW y \in Blob, NEW z \in Blob, NEW k \in Nat, NEW l \in Nat, NEW m \in Nat,
         Len(x) <= k, Len(y) <= l, Len(z) <= m
  PROVE  (x \o y) \o z \in Blob /\ Len((x \o y) \o z) \in Nat /\ Len((x \o y) \o z) <= k + l + m
<1>1. PICK a \in Nat : a = Len(x)
  BY Joined
<1>2. PICK b \in Nat : b = Len(y)
  BY Joined
<1>3. PICK c \in Nat : c = Len(z)
  BY Joined
<1>4. PICK s \in Blob : s = x \o y /\ Len(s) = a + b
  BY <1>1, <1>2, Joined
<1>5. s \o z \in Blob /\ Len(s \o z) = (a + b) + c
  BY <1>3, <1>4, Joined
<1>6. (a + b) + c <= k + l + m /\ (a + b) + c \in Nat
  BY <1>1, <1>2, <1>3
<1> QED
  BY <1>4, <1>5, <1>6

LEMMA TenIs == 2 + 2 + 6 = 10 /\ 6 + 2 + 2 = 10
  OBVIOUS

\* An allocation's entry for a stream.
EntryBody(x) ==
    (EncodeProtobufVarintField(1, 0) \o EncodeProtobufVarintField(2, 1)) \o EncodeProtobufVarintField(3, x)
EntryOf(x) == SubscriptionEntry(0, x)
Ssrcs32 == {v \in Nat : Is32(v)}

LEMMA FieldIs ==
  \A fld \in 1 .. 15, v \in Ssrcs32 :
    /\ Coded(EncodeProtobufVarintField(fld, v), fld, v, <<>>)
    /\ EncodeProtobufVarintField(fld, v) \in Blob /\ Len(EncodeProtobufVarintField(fld, v)) <= 6
    /\ (v < 128 => Len(EncodeProtobufVarintField(fld, v)) <= 2)
<1> SUFFICES ASSUME NEW fld \in 1 .. 15, NEW v \in Ssrcs32
             PROVE  /\ Coded(EncodeProtobufVarintField(fld, v), fld, v, <<>>)
                    /\ EncodeProtobufVarintField(fld, v) \in Blob /\ Len(EncodeProtobufVarintField(fld, v)) <= 6
                    /\ (v < 128 => Len(EncodeProtobufVarintField(fld, v)) <= 2)
  OBVIOUS
<1>1. v \in Nat /\ Is32(v)
  BY DEF Ssrcs32
<1>2. /\ Coded(EncodeProtobufVarintField(fld, v), fld, v, <<>>)
      /\ Len(EncodeProtobufVarintField(fld, v)) <= 6
      /\ (v < 128 => Len(EncodeProtobufVarintField(fld, v)) = 2)
  BY <1>1, VarintFieldCoded
<1>3. EncodeProtobufVarintField(fld, v) \in Blob
  BY <1>2, Zenon DEF Coded
<1>4. 2 <= 2
  OBVIOUS
<1> QED
  BY <1>2, <1>3, <1>4, Zenon

LEMMA EntryIs ==
  ASSUME NEW x \in Ssrcs32
  PROVE  /\ Coded(EntryOf(x), 1, -1, EntryBody(x)) /\ EntryOf(x) \in Seq(Octets) /\ Len(EntryOf(x)) <= 12
         /\ Triple(EntryBody(x), 0, 1, x)
<1>1. 0 \in Ssrcs32 /\ 1 \in Ssrcs32
  <2>1. 0 \in 0 .. 127 /\ 1 \in 0 .. 127
    OBVIOUS
  <2> QED
    BY <2>1, Small32 DEF Ssrcs32
<1>2. PICK a, b, c : /\ a = EncodeProtobufVarintField(1, 0) /\ b = EncodeProtobufVarintField(2, 1)
                     /\ c = EncodeProtobufVarintField(3, x)
  OBVIOUS
<1>3. /\ Coded(a, 1, 0, <<>>) /\ Coded(b, 2, 1, <<>>) /\ Coded(c, 3, x, <<>>)
      /\ a \in Blob /\ b \in Blob /\ c \in Blob /\ Len(a) <= 2 /\ Len(b) <= 2 /\ Len(c) <= 6
  <2>1. 1 \in 1 .. 15 /\ 2 \in 1 .. 15 /\ 3 \in 1 .. 15 /\ 0 < 128 /\ 1 < 128
    OBVIOUS
  <2> QED
    BY <1>1, <1>2, <2>1, FieldIs, Zenon
<1>4. PICK body \in Blob : body = (a \o b) \o c
  BY <1>3, TripleLength
<1>5. EntryBody(x) = body
  BY <1>2, <1>4, Zenon DEF EntryBody
<1>6. Triple(body, 0, 1, x)
  BY <1>3, <1>4, TripleRead
<1>7. PICK l \in Nat : l = Len(body) /\ l <= 10
  <2>1. Len((a \o b) \o c) \in Nat /\ Len((a \o b) \o c) <= 2 + 2 + 6
    BY <1>3, TripleLength
  <2> QED
    BY <1>4, <2>1, TenIs, Zenon
<1>8. Is32(Len(body)) /\ l < 128
  <2>1. l <= 10
    BY <1>7
  <2>2. l \in 0 .. 127 /\ l < 128
    BY <2>1
  <2>3. Is32(l)
    BY <2>2, Small32
  <2> QED
    BY <1>7, <2>2, <2>3, Zenon
<1>9. EntryOf(x) = EncodeProtobufLengthDelimited(1, body)
  BY <1>2, <1>4, Zenon DEF EntryOf, SubscriptionEntry
<1>10. PICK e : e = EncodeProtobufLengthDelimited(1, body)
  OBVIOUS
<1>11. Coded(e, 1, -1, body) /\ Len(e) = 2 + l
  BY <1>7, <1>8, <1>10, BlockCoded
<1>12. e \in Seq(Octets)
  BY <1>11, BlobOf, Zenon DEF Coded
<1> QED
  <2>1. l <= 10
    BY <1>7
  <2>2. 2 + l <= 12
    BY <2>1
  <2> QED
    BY <1>5, <1>6, <1>9, <1>10, <1>11, <1>12, <2>2, Zenon

\* What a binding says of the stream it is for.
LEMMA SenderIs ==
  ASSUME NEW x \in Ssrcs32
  PROVE  /\ BuildSenderSubscriptions(x) \in Seq(Octets) /\ Len(BuildSenderSubscriptions(x)) \in 1 .. 24
         /\ ReadFields(ReadFields(BuildSenderSubscriptions(x))[1].data)[1].v = x
<1>1. 0 \in Ssrcs32
  <2>1. 0 \in 0 .. 127
    OBVIOUS
  <2> QED
    BY <2>1, Small32 DEF Ssrcs32
<1>2. PICK a, b, c : /\ a = EncodeProtobufVarintField(3, x) /\ b = EncodeProtobufVarintField(5, 0)
                     /\ c = EncodeProtobufVarintField(6, 0)
  OBVIOUS
<1>3. /\ Coded(a, 3, x, <<>>) /\ Coded(b, 5, 0, <<>>) /\ Coded(c, 6, 0, <<>>)
      /\ a \in Blob /\ b \in Blob /\ c \in Blob /\ Len(a) <= 6 /\ Len(b) <= 2 /\ Len(c) <= 2
  <2>1. 3 \in 1 .. 15 /\ 5 \in 1 .. 15 /\ 6 \in 1 .. 15 /\ 0 < 128
    OBVIOUS
  <2> QED
    BY <1>1, <1>2, <2>1, FieldIs, Zenon
<1>4. PICK body \in Blob : body = (a \o b) \o c
  BY <1>3, TripleLength
<1>6. Triple(body, x, 0, 0)
  BY <1>3, <1>4, TripleRead
<1>7. PICK l \in Nat : l = Len(body) /\ l <= 10
  <2>1. Len((a \o b) \o c) \in Nat /\ Len((a \o b) \o c) <= 6 + 2 + 2
    BY <1>3, TripleLength
  <2> QED
    BY <1>4, <2>1, TenIs, Zenon
<1>8. Is32(Len(body)) /\ l < 128
  <2>1. l <= 10
    BY <1>7
  <2>2. l \in 0 .. 127 /\ l < 128
    BY <2>1
  <2>3. Is32(l)
    BY <2>2, Small32
  <2> QED
    BY <1>7, <2>2, <2>3, Zenon
<1>9. BuildSenderSubscriptions(x) = EncodeProtobufLengthDelimited(1, body)
  BY <1>2, <1>4, Zenon DEF BuildSenderSubscriptions
<1>10. PICK e : e = EncodeProtobufLengthDelimited(1, body)
  OBVIOUS
<1>11. Coded(e, 1, -1, body) /\ Len(e) = 2 + l
  BY <1>7, <1>8, <1>10, BlockCoded
<1>12. e \in Seq(Octets) /\ e \in Blob
  BY <1>11, BlobOf, Zenon DEF Coded
<1>13. ReadFields(e)[1].data = body
  <2>1. PICK f : Parts(f, <<e>>, e)
    BY <1>12, PartsOne
  <2>2. <<e>> \in Seq(Seq(Octets)) /\ Len(<<e>>) = 1 /\ <<e>>[1] = e
    BY <1>12
  <2>3. PICK F, V, D : F = <<1>> /\ V = <<-1>> /\ D = <<body>>
    OBVIOUS
  <2>4. F[1] = 1 /\ V[1] = -1 /\ D[1] = body
    BY <2>3
  <2>5. CodedAll(<<e>>, F, V, D)
    <3>1. \A n \in 1 .. 1 : n = 1
      OBVIOUS
    <3> QED
      BY <1>11, <2>2, <2>4, <3>1, Zenon DEF CodedAll
  <2>6. SaysAll(e, 1, F, V, D)
    <3>1. SaysAll(e, Len(<<e>>), F, V, D)
      BY <1>12, <2>1, <2>2, <2>5, FieldsRead
    <3> QED
      BY <2>2, <3>1
  <2>7. 1 \in 1 .. 1
    OBVIOUS
  <2> QED
    BY <2>4, <2>6, <2>7, Zenon DEF SaysAll
<1>14. ReadFields(body)[1].v = x
  BY <1>6, Zenon DEF Triple
<1>15. Len(e) \in 1 .. 24
  <2>1. l <= 10
    BY <1>7
  <2>2. 2 + l \in 1 .. 24
    BY <2>1
  <2> QED
    BY <1>11, <2>2, Zenon
<1> QED
  BY <1>9, <1>10, <1>12, <1>13, <1>14, <1>15, Zenon

EntriesOf(seq) == [k \in 1 .. Len(seq) |-> EntryOf(seq[k])]

LEMMA EntriesOfIs ==
  ASSUME NEW s \in Seq(Ssrcs32)
  PROVE  /\ EntriesOf(s) \in Seq(Seq(Octets)) /\ Len(EntriesOf(s)) = Len(s)
         /\ \A k \in 1 .. Len(s) : EntriesOf(s)[k] = EntryOf(s[k]) /\ s[k] \in Ssrcs32
<1>1. PICK n \in Nat : n = Len(s)
  OBVIOUS
<1>2. \A k \in 1 .. n : s[k] \in Ssrcs32
  BY <1>1
<1>3. \A k \in 1 .. n : EntryOf(s[k]) \in Seq(Octets)
  BY <1>2, EntryIs
<1>4. EntriesOf(s) = [k \in 1 .. n |-> EntryOf(s[k])]
  BY <1>1 DEF EntriesOf
<1> QED
  BY <1>1, <1>2, <1>3, <1>4

LEMMA EntriesJoin ==
  ASSUME NEW s \in Seq(Ssrcs32), NEW t \in Seq(Ssrcs32)
  PROVE  EntriesOf(s \o t) = EntriesOf(s) \o EntriesOf(t)
<1>1. PICK n \in Nat : n = Len(s)
  OBVIOUS
<1>2. PICK m \in Nat : m = Len(t)
  OBVIOUS
<1>3. PICK p : p = s \o t
  OBVIOUS
<1>4. /\ p \in Seq(Ssrcs32) /\ Len(p) = n + m
      /\ \A x \in 1 .. n : p[x] = s[x]
      /\ \A x \in 1 .. m : p[n + x] = t[x]
  BY <1>1, <1>2, <1>3, TwoInARow
<1>5. PICK a, b, c : a = EntriesOf(s) /\ b = EntriesOf(t) /\ c = EntriesOf(p)
  OBVIOUS
<1>6. /\ a \in Seq(Seq(Octets)) /\ Len(a) = n /\ \A k \in 1 .. n : a[k] = EntryOf(s[k])
      /\ b \in Seq(Seq(Octets)) /\ Len(b) = m /\ \A k \in 1 .. m : b[k] = EntryOf(t[k])
      /\ c \in Seq(Seq(Octets)) /\ Len(c) = n + m /\ \A k \in 1 .. n + m : c[k] = EntryOf(p[k])
  BY <1>1, <1>2, <1>4, <1>5, EntriesOfIs
<1>7. PICK d : d = a \o b
  OBVIOUS
<1>8. /\ d \in Seq(Seq(Octets)) /\ Len(d) = n + m
      /\ \A x \in 1 .. n : d[x] = a[x]
      /\ \A x \in 1 .. m : d[n + x] = b[x]
  <2>1. a \in Seq(Seq(Octets)) /\ b \in Seq(Seq(Octets))
    BY <1>6
  <2>2. /\ d \in Seq(Seq(Octets)) /\ Len(d) = Len(a) + Len(b)
        /\ \A x \in 1 .. Len(a) : d[x] = a[x]
        /\ \A x \in 1 .. Len(b) : d[Len(a) + x] = b[x]
    BY <1>7, <2>1, TwoInARow
  <2>3. Len(a) = n /\ Len(b) = m
    BY <1>6
  <2> QED
    BY <2>2, <2>3, Zenon
<1>9. ASSUME NEW k \in 1 .. n + m PROVE c[k] = d[k]
  <2>1. CASE k <= n
    <3>1. k \in 1 .. n
      BY <2>1
    <3> QED
      BY <1>4, <1>6, <1>8, <3>1
  <2>2. CASE ~(k <= n)
    <3>1. PICK x \in 1 .. m : k = n + x
      <4>1. k - n \in 1 .. m /\ k = n + (k - n)
        BY <2>2
      <4> QED
        BY <4>1
    <3>2. p[n + x] = t[x] /\ d[n + x] = b[x] /\ b[x] = EntryOf(t[x])
      BY <1>4, <1>6, <1>8, Zenon
    <3>3. c[k] = EntryOf(p[k])
      BY <1>6
    <3> QED
      BY <3>1, <3>2, <3>3, Zenon
  <2> QED
    BY <2>1, <2>2
<1>10. c = d
  BY <1>6, <1>8, <1>9, SeqEqual
<1> QED
  BY <1>3, <1>5, <1>7, <1>10

-----------------------------------------------------------------------------
(* The streams a message asks for.                                         *)

LEMMA SequenceIs ==
  ASSUME NEW S, NEW n \in Nat, NEW f, f = [i \in 1 .. n |-> f[i]], \A i \in 1 .. n : f[i] \in S
  PROVE  f \in Seq(S) /\ Len(f) = n
  OBVIOUS

\* The entries of the streams that are asked for, one after the other.
Asks(asked, ent) ==
    asked \in Seq(Ssrcs32) /\ ent \in Seq(Octets) /\ \E f : Parts(f, EntriesOf(asked), ent)

LEMMA AsksJoin ==
  ASSUME NEW s, NEW t, NEW b, NEW c, Asks(s, b), Asks(t, c)
  PROVE  Asks(s \o t, b \o c)
<1>1. s \in Seq(Ssrcs32) /\ t \in Seq(Ssrcs32) /\ b \in Seq(Octets) /\ c \in Seq(Octets)
  BY DEF Asks
<1>2. PICK f : Parts(f, EntriesOf(s), b)
  BY DEF Asks
<1>3. PICK g : Parts(g, EntriesOf(t), c)
  BY DEF Asks
<1>4. PICK ss, tt : ss = EntriesOf(s) /\ tt = EntriesOf(t)
  OBVIOUS
<1>5. ss \in Seq(Seq(Octets)) /\ tt \in Seq(Seq(Octets))
  BY <1>1, <1>4, EntriesOfIs
<1>6. \E h : Parts(h, ss \o tt, b \o c)
  BY <1>1, <1>2, <1>3, <1>4, <1>5, PartsJoin
<1>7. ss \o tt = EntriesOf(s \o t)
  BY <1>1, <1>4, EntriesJoin
<1>8. s \o t \in Seq(Ssrcs32)
  BY <1>1, TwoInARow
<1>9. b \o c \in Seq(Octets)
  BY <1>1, TwoInARow
<1> QED
  BY <1>6, <1>7, <1>8, <1>9, Zenon DEF Asks

LEMMA AsksNone == Asks(<<>>, <<>>)
<1>1. <<>> \in Seq(Ssrcs32) /\ <<>> \in Seq(Octets) /\ Len(<<>>) = 0
  OBVIOUS
<1>2. EntriesOf(<<>>) = <<>>
  <2>1. EntriesOf(<<>>) \in Seq(Seq(Octets)) /\ Len(EntriesOf(<<>>)) = 0
    BY <1>1, EntriesOfIs
  <2> QED
    BY <2>1
<1> QED
  BY <1>1, <1>2, PartsNone DEF Asks

LEMMA AsksOne ==
  ASSUME NEW x \in Ssrcs32
  PROVE  Asks(<<x>>, EntryOf(x))
<1>1. <<x>> \in Seq(Ssrcs32) /\ Len(<<x>>) = 1 /\ <<x>>[1] = x
  OBVIOUS
<1>2. PICK e \in Seq(Octets) : e = EntryOf(x)
  BY EntryIs
<1>3. EntriesOf(<<x>>) = <<e>>
  <2>1. PICK ss : ss = EntriesOf(<<x>>)
    OBVIOUS
  <2>2. ss \in Seq(Seq(Octets)) /\ Len(ss) = 1 /\ \A k \in 1 .. 1 : ss[k] = EntryOf(<<x>>[k])
    BY <1>1, <2>1, EntriesOfIs
  <2>3. ss[1] = e
    <3>1. 1 \in 1 .. 1
      OBVIOUS
    <3> QED
      BY <1>1, <1>2, <2>2, <3>1, Zenon
  <2> QED
    BY <2>1, <2>2, <2>3
<1>4. \E f : Parts(f, <<e>>, e)
  BY PartsOne
<1> QED
  BY <1>1, <1>2, <1>3, <1>4, Zenon DEF Asks

\* Of the streams of a list those that have an SSRC.
LEMMA ListAsks ==
  ASSUME NEW list, IsList(list)
  PROVE  Asks(AskedOf(list), Entries(list, 0)) /\ Len(Entries(list, 0)) <= 11988
<1>1. list \in Seq(Nat) /\ \A i \in DOMAIN list : Is32(list[i])
  BY DEF IsList
<1>2. PICK N \in Nat : N = Len(list) /\ N <= 999
  <2>1. PICK N \in Nat : N = Len(list)
    BY <1>1
  <2>2. N < 1000
    BY <2>1 DEF IsList
  <2> QED
    BY <2>1, <2>2
<1>3. DOMAIN list = 1 .. N
  BY <1>1, <1>2
<1>4. \A i \in 1 .. N : list[i] \in Ssrcs32
  BY <1>1, <1>3 DEF Ssrcs32
<1> DEFINE aa == [i \in DOMAIN list |-> IF list[i] = 0 THEN <<>> ELSE <<list[i]>>]
           ee == [i \in DOMAIN list |-> IF list[i] = 0 THEN <<>> ELSE SubscriptionEntry(0, list[i])]
<1>5. ASSUME NEW i \in 1 .. N
      PROVE  aa[i] \in Seq(Ssrcs32) /\ ee[i] \in Seq(Octets) /\ Asks(aa[i], ee[i]) /\ Len(ee[i]) <= 12
  <2>1. PICK x \in Ssrcs32 : x = list[i]
    BY <1>4
  <2>2. aa[i] = (IF x = 0 THEN <<>> ELSE <<x>>) /\ ee[i] = (IF x = 0 THEN <<>> ELSE EntryOf(x))
    BY <1>3, <2>1 DEF EntryOf
  <2>3. CASE x = 0
    <3>1. Len(<<>>) <= 12 /\ <<>> \in Seq(Ssrcs32) /\ <<>> \in Seq(Octets)
      OBVIOUS
    <3> QED
      BY <2>2, <2>3, <3>1, AsksNone, Zenon
  <2>4. CASE x # 0
    <3>1. <<x>> \in Seq(Ssrcs32)
      OBVIOUS
    <3>2. EntryOf(x) \in Seq(Octets) /\ Len(EntryOf(x)) <= 12
      BY EntryIs
    <3> QED
      BY <2>2, <2>4, <3>1, <3>2, AsksOne, Zenon
  <2> QED
    BY <2>3, <2>4
<1>6. aa \in Seq(Seq(Ssrcs32)) /\ Len(aa) = N /\ ee \in Seq(Seq(Octets)) /\ Len(ee) = N
  <2>1. aa = [i \in 1 .. N |-> aa[i]] /\ ee = [i \in 1 .. N |-> ee[i]]
    BY <1>3
  <2>2. \A i \in 1 .. N : aa[i] \in Seq(Ssrcs32) /\ ee[i] \in Seq(Octets)
    BY <1>5
  <2> HIDE DEF aa, ee
  <2>3. aa \in Seq(Seq(Ssrcs32)) /\ Len(aa) = N
    BY <2>1, <2>2, SequenceIs
  <2>4. ee \in Seq(Seq(Octets)) /\ Len(ee) = N
    BY <2>1, <2>2, SequenceIs
  <2> QED
    BY <2>3, <2>4
<1>7. AskedOf(list) = FlattenSeq(aa) /\ Entries(list, 0) = FlattenSeq(ee)
  BY DEF AskedOf, Entries
<1> HIDE DEF aa, ee
<1>8. PICK g : Flattening(g, aa, Ssrcs32) /\ FlattenSeq(aa) = g[N]
  BY <1>6, FlattenSteps
<1>9. PICK h : Flattening(h, ee, Octets) /\ FlattenSeq(ee) = h[N]
  BY <1>6, FlattenSteps
<1>10. /\ g[0] = <<>> /\ \A k \in 1 .. N : g[k] = g[k - 1] \o aa[k]
       /\ h[0] = <<>> /\ \A k \in 1 .. N : h[k] = h[k - 1] \o ee[k] /\ h[k - 1] \in Seq(Octets)
  <2>1. \A k \in 1 .. N : k - 1 \in 0 .. N
    OBVIOUS
  <2> QED
    BY <1>6, <1>8, <1>9, <2>1 DEF Flattening
<1> DEFINE P == {n \in 0 .. N : Asks(g[n], h[n]) /\ \E l \in Nat : l = Len(h[n]) /\ l <= 12 * n}
<1>11. 0 \in P
  <2>1. Len(<<>>) = 0 /\ 0 <= 12 * 0
    OBVIOUS
  <2> QED
    BY <1>10, <2>1, AsksNone
<1>12. ASSUME NEW n \in 1 .. N, n - 1 \in P PROVE n \in P
  <2>1. Asks(g[n - 1], h[n - 1])
    BY <1>12
  <2>2. Asks(g[n - 1] \o aa[n], h[n - 1] \o ee[n])
    BY <1>5, <2>1, AsksJoin
  <2>3. Asks(g[n], h[n])
    BY <1>10, <2>2
  <2>4. PICK l \in Nat : l = Len(h[n - 1]) /\ l <= 12 * (n - 1)
    BY <1>12
  <2>5. PICK k \in Nat : k = Len(ee[n]) /\ k <= 12
    BY <1>5
  <2>6. Len(h[n]) = l + k
    <3>1. h[n] = h[n - 1] \o ee[n] /\ h[n - 1] \in Seq(Octets) /\ ee[n] \in Seq(Octets)
      BY <1>5, <1>10
    <3>2. Len(h[n]) = Len(h[n - 1]) + Len(ee[n])
      BY <3>1, TwoInARow
    <3> QED
      BY <2>4, <2>5, <3>2
  <2>7. l + k \in Nat /\ l + k <= 12 * n
    <3>1. l <= 12 * (n - 1) /\ k <= 12
      BY <2>4, <2>5, Zenon
    <3> QED
      BY <3>1
  <2> QED
    BY <2>3, <2>6, <2>7
<1>13. 0 .. N \subseteq P
  <2> HIDE DEF P
  <2> QED
    BY <1>11, <1>12, AllUpTo
<1>14. Asks(g[N], h[N]) /\ \E l \in Nat : l = Len(h[N]) /\ l <= 12 * N
  <2>1. N \in P
    BY <1>13
  <2> QED
    BY <2>1
<1>15. PICK l \in Nat : l = Len(h[N]) /\ l <= 11988
  BY <1>2, <1>14
<1> QED
  BY <1>7, <1>8, <1>9, <1>14, <1>15

\* What a relay reads of them.
LEMMA AskedRead ==
  ASSUME NEW s, NEW b, Asks(s, b)
  PROVE  /\ b \in Seq(Octets) /\ DOMAIN ReadFields(b) = DOMAIN s
         /\ \A k \in DOMAIN s : Triple(ReadFields(b)[k].data, 0, 1, s[k])
<1>1. s \in Seq(Ssrcs32) /\ b \in Seq(Octets) /\ \E f : Parts(f, EntriesOf(s), b)
  BY DEF Asks
<1>2. PICK n \in Nat : n = Len(s) /\ DOMAIN s = 1 .. n
  BY <1>1
<1>3. PICK ss : ss = EntriesOf(s)
  OBVIOUS
<1>4. /\ ss \in Seq(Seq(Octets)) /\ Len(ss) = n
      /\ \A k \in 1 .. n : ss[k] = EntryOf(s[k]) /\ s[k] \in Ssrcs32
  BY <1>1, <1>2, <1>3, EntriesOfIs
<1>5. PICK F, V, D : /\ F = [k \in 1 .. n |-> 1] /\ V = [k \in 1 .. n |-> -1]
                     /\ D = [k \in 1 .. n |-> EntryBody(s[k])]
  OBVIOUS
<1>6. CodedAll(ss, F, V, D)
  <2>1. ASSUME NEW k \in 1 .. Len(ss) PROVE Coded(ss[k], F[k], V[k], D[k])
    <3>1. k \in 1 .. n
      BY <1>4
    <3>2. F[k] = 1 /\ V[k] = -1 /\ D[k] = EntryBody(s[k])
      BY <1>5, <3>1
    <3>3. Coded(EntryOf(s[k]), 1, -1, EntryBody(s[k]))
      BY <1>4, <3>1, EntryIs
    <3> QED
      BY <1>4, <3>1, <3>2, <3>3, Zenon
  <2> QED
    BY <2>1, Zenon DEF CodedAll
<1>7. SaysAll(b, n, F, V, D)
  <2>1. b \in Blob /\ \E f : Parts(f, ss, b)
    BY <1>1, <1>3 DEF Blob
  <2>2. SaysAll(b, Len(ss), F, V, D)
    BY <1>4, <1>6, <2>1, FieldsRead
  <2> QED
    BY <1>4, <2>2
<1>8. DOMAIN ReadFields(b) = 1 .. n /\ \A k \in 1 .. n : ReadFields(b)[k].data = D[k]
  BY <1>7, Zenon DEF SaysAll
<1>9. ASSUME NEW k \in 1 .. n PROVE Triple(ReadFields(b)[k].data, 0, 1, s[k])
  <2>1. D[k] = EntryBody(s[k])
    BY <1>5
  <2>2. Triple(EntryBody(s[k]), 0, 1, s[k])
    BY <1>4, EntryIs
  <2> QED
    BY <1>8, <2>1, <2>2, Zenon
<1> QED
  BY <1>1, <1>2, <1>8, <1>9, Zenon

\* Attributes that a message can have.
AttributeSet == {a \in [type : Nat, data : Seq(Octets)] : Is16(a.type) /\ Is16(Len(a.data))}

LEMMA AttributeSetIs ==
  ASSUME NEW a \in AttributeSet
  PROVE  IsAttribute(a)
<1>1. a \in [type : Nat, data : Seq(Octets)] /\ Is16(a.type) /\ Is16(Len(a.data))
  BY DEF AttributeSet
<1>2. a = [type |-> a.type, data |-> a.data] /\ a.type \in Nat /\ a.data \in Seq(Octets)
  BY <1>1
<1> QED
  BY <1>1, <1>2, Zenon DEF IsAttribute, Attribute

LEMMA InAttributeSet ==
  ASSUME NEW type \in Nat, NEW data \in Seq(Octets), Is16(type), Is16(Len(data))
  PROVE  /\ Attribute(type, data) \in AttributeSet
         /\ Attribute(type, data).type = type /\ Attribute(type, data).data = data
  BY DEF Attribute, AttributeSet

LEMMA SetAttributes ==
  ASSUME NEW ats \in Seq(AttributeSet)
  PROVE  AttributesOf(ats)
<1>1. \A i \in 1 .. Len(ats) : ats[i] \in AttributeSet
  OBVIOUS
<1>2. \A i \in 1 .. Len(ats) : IsAttribute(ats[i])
  BY <1>1, AttributeSetIs
<1> QED
  BY <1>2, Zenon DEF AttributesOf

LEMMA UpToFour == \A n \in 1 .. 4 : \A i \in 1 .. n : i - 1 \in 0 .. n /\ i \in 1 .. 4
  OBVIOUS

LEMMA Sums == \A x, y \in Nat : x + y \in Nat
  OBVIOUS

LEMMA OneMore == \A x, y, b, c \in Nat : x <= b /\ y <= x + c => y <= b + c
  OBVIOUS

PadsUpTo(m, l, p, b) == m + (4 + l + p) <= m + (b + 7)

LEMMA PadsThree == \A m, l, p, b \in Nat : p < 4 /\ l <= b => PadsUpTo(m, l, p, b)
  BY DEF PadsUpTo

\* How long up to four attributes are.
LEMMA EncodedLength ==
  ASSUME NEW ats, AttributesOf(ats), NEW n \in 1 .. 4, n = Len(ats), NEW B \in [1 .. 4 -> Nat],
         \A i \in 1 .. n : Len(ats[i].data) <= B[i]
  PROVE  Len(Encoded(ats)) <= (B[1] + 7) + (B[2] + 7) + (B[3] + 7) + (B[4] + 7)
<1>1. PICK flat \in Seq(Octets) : flat = Encoded(ats) /\ \E f : Parts(f, Written(ats), flat)
  BY EncodedLaidOut DEF LaidOut
<1>2. PICK f : Parts(f, Written(ats), flat)
  BY <1>1
<1>3. PICK ws : ws = Written(ats)
  OBVIOUS
<1>4. /\ ws \in Seq(Seq(Octets)) /\ Len(ws) = n
      /\ \A i \in 1 .. n : ws[i] = EncodeAttribute(ats[i].type, ats[i].data) /\ IsAttribute(ats[i])
  BY <1>3, WrittenIs DEF AttributesOf
<1>5. /\ f[0] = 0 /\ f[n] = Len(flat) /\ \A i \in 0 .. n : f[i] \in Nat
      /\ \A i \in 1 .. n : f[i] = f[i - 1] + Len(ws[i])
  <2>1. PICK L \in Nat : L = Len(flat)
    BY <1>1
  <2>2. f \in [0 .. n -> 0 .. L] /\ f[0] = 0 /\ f[n] = Len(flat) /\ \A i \in 1 .. n : f[i] = f[i - 1] + Len(ws[i])
    BY <1>2, <1>3, <1>4, <2>1 DEF Parts
  <2> QED
    BY <2>2
<1>6. ASSUME NEW i \in 1 .. n PROVE f[i] <= f[i - 1] + (B[i] + 7)
  <2>1. PICK l \in Nat : l = Len(ats[i].data) /\ l <= B[i]
    <3>1. ats[i].data \in Seq(Octets)
      BY <1>4 DEF IsAttribute
    <3> QED
      BY <3>1
  <2>2. Len(ws[i]) = 4 + l + Padding(l)
    <3>1. ats[i].type \in Nat /\ ats[i].data \in Seq(Octets)
      BY <1>4 DEF IsAttribute
    <3> QED
      BY <1>4, <2>1, <3>1, AttributeIs
  <2>3. PICK p \in Nat : p = Padding(l) /\ p < 4
    BY PaddingIs
  <2>4. PICK m, b \in Nat : m = f[i - 1] /\ b = B[i]
    <3>1. i - 1 \in 0 .. n /\ i \in 1 .. 4
      BY UpToFour, Zenon
    <3> QED
      BY <1>5, <3>1
  <2>5. f[i] = m + (4 + l + p)
    BY <1>5, <2>2, <2>3, <2>4
  <2>6. l <= b
    BY <2>1, <2>4
  <2>7. m + (4 + l + p) <= m + (b + 7)
    BY <2>3, <2>6, PadsThree, Zenon DEF PadsUpTo
  <2> QED
    BY <2>4, <2>5, <2>7
<1>7. PICK b \in Nat : b = B[1] + 7
  OBVIOUS
<1>8. PICK c \in Nat : c = B[2] + 7
  OBVIOUS
<1>9. PICK d \in Nat : d = B[3] + 7
  OBVIOUS
<1>10. PICK e \in Nat : e = B[4] + 7
  OBVIOUS
<1>11. f[1] <= b /\ f[1] \in Nat
  <2>1. 1 \in 1 .. n /\ 1 - 1 = 0 /\ 1 \in 0 .. n
    OBVIOUS
  <2>2. f[1] <= f[1 - 1] + (B[1] + 7) /\ f[1] \in Nat
    BY <1>5, <1>6, <2>1
  <2> QED
    BY <1>5, <1>7, <2>1, <2>2
<1>12. n >= 2 => f[2] <= b + c /\ f[2] \in Nat
  <2> SUFFICES ASSUME n >= 2 PROVE f[2] <= b + c /\ f[2] \in Nat
    OBVIOUS
  <2>1. 2 \in 1 .. n /\ 2 - 1 = 1 /\ 2 \in 0 .. n
    OBVIOUS
  <2>2. f[2] <= f[2 - 1] + (B[2] + 7) /\ f[2] \in Nat
    BY <1>5, <1>6, <2>1
  <2> QED
    <3>1. f[2] <= f[1] + c /\ f[2] \in Nat
      BY <1>8, <2>1, <2>2, Zenon
    <3> QED
      BY <1>11, <3>1, OneMore, Zenon
<1>13. n >= 3 => f[3] <= b + c + d /\ f[3] \in Nat
  <2> SUFFICES ASSUME n >= 3 PROVE f[3] <= b + c + d /\ f[3] \in Nat
    OBVIOUS
  <2>1. 3 \in 1 .. n /\ 3 - 1 = 2 /\ 3 \in 0 .. n /\ n >= 2
    OBVIOUS
  <2>2. f[3] <= f[3 - 1] + (B[3] + 7) /\ f[3] \in Nat
    BY <1>5, <1>6, <2>1
  <2> QED
    <3>1. f[3] <= f[2] + d /\ f[3] \in Nat /\ f[2] <= b + c /\ f[2] \in Nat
      BY <1>9, <1>12, <2>1, <2>2, Zenon
    <3>2. PICK s \in Nat : s = b + c
      BY Sums, Zenon
    <3>3. f[2] <= s
      BY <3>1, <3>2, Zenon
    <3>4. f[3] <= s + d
      BY <3>1, <3>3, OneMore, Zenon
    <3> QED
      BY <3>1, <3>2, <3>4, Zenon
<1>14. n >= 4 => f[4] <= b + c + d + e /\ f[4] \in Nat
  <2> SUFFICES ASSUME n >= 4 PROVE f[4] <= b + c + d + e /\ f[4] \in Nat
    OBVIOUS
  <2>1. 4 \in 1 .. n /\ 4 - 1 = 3 /\ 4 \in 0 .. n /\ n >= 3
    OBVIOUS
  <2>2. f[4] <= f[4 - 1] + (B[4] + 7) /\ f[4] \in Nat
    BY <1>5, <1>6, <2>1
  <2> QED
    <3>1. f[4] <= f[3] + e /\ f[4] \in Nat /\ f[3] <= b + c + d /\ f[3] \in Nat
      BY <1>10, <1>13, <2>1, <2>2, Zenon
    <3>2. PICK s \in Nat : s = b + c + d
      BY Sums, Zenon
    <3>3. f[3] <= s
      BY <3>1, <3>2, Zenon
    <3>4. f[4] <= s + e
      BY <3>1, <3>3, OneMore, Zenon
    <3> QED
      BY <3>1, <3>2, <3>4, Zenon
<1>15. f[n] <= b + c + d + e
  <2>1. n = 1 \/ n = 2 \/ n = 3 \/ n = 4
    OBVIOUS
  <2>2. CASE n = 1
    BY <1>11, <2>2
  <2>3. CASE n = 2
    BY <1>12, <2>3
  <2>4. CASE n = 3
    BY <1>13, <2>4
  <2>5. CASE n = 4
    BY <1>14, <2>5
  <2> QED
    BY <2>1, <2>2, <2>3, <2>4, <2>5
<1> QED
  BY <1>1, <1>5, <1>7, <1>8, <1>9, <1>10, <1>15

\* The first attribute of a type.
FirstAt(ats, type, k) ==
    k \in 1 .. Len(ats) /\ ats[k].type = type /\ \A j \in 1 .. k - 1 : ats[j].type # type

LEMMA FirstData ==
  ASSUME NEW all, AttributesOf(all), NEW type, NEW k, FirstAt(all, type, k)
  PROVE  DataOf(all, type) = all[k].data
<1>1. PICK S : all \in Seq(S)
  BY DEF AttributesOf
<1>2. PICK N \in Nat : N = Len(all) /\ DOMAIN all = 1 .. N
  BY <1>1
<1>3. k \in 1 .. N /\ all[k].type = type /\ \A j \in 1 .. k - 1 : all[j].type # type
  BY <1>2 DEF FirstAt
<1> DEFINE T == {j \in DOMAIN all : all[j].type = type}
<1>4. T \in SUBSET Nat /\ k \in T
  BY <1>2, <1>3
<1>5. ASSUME NEW j \in T PROVE k <= j
  <2>1. j \in 1 .. N /\ all[j].type = type
    BY <1>2
  <2>2. CASE j < k
    <3>1. j \in 1 .. k - 1
      BY <1>3, <2>1, <2>2
    <3> QED
      BY <1>3, <2>1, <3>1
  <2> QED
    BY <1>3, <2>1, <2>2
<1>6. Min(T) = k
  <2> HIDE DEF T
  <2> QED
    BY <1>4, <1>5, LeastIs
<1> QED
  BY <1>6, Zenon DEF DataOf

\* What a request asks for in its attribute for it.
Wanted(type) == IF type = 1 THEN Subscriptions ELSE SsrcList
Asking(type, data, streams) ==
    IF type = 1 THEN ReadFields(ReadFields(data)[1].data)[1].v = streams[1] ELSE Asks(streams, data)

LEMMA StreamsAreRead ==
  ASSUME NEW p, NEW data, Asking(p.type, data, p.streams),
         DataOf(ParseStunResponse(p.bytes).attrs, Wanted(p.type)) = data
  PROVE  StreamsRead(p)
<1>1. DataOf(ParseStunResponse(p.bytes).attrs, IF p.type = 1 THEN Subscriptions ELSE SsrcList) = data
  BY DEF Wanted
<1>2. CASE p.type = 1
  <2>1. ReadFields(ReadFields(data)[1].data)[1].v = p.streams[1]
    BY <1>2 DEF Asking
  <2> QED
    BY <1>1, <1>2, <2>1, Zenon DEF StreamsRead
<1>3. CASE p.type # 1
  <2>1. Asks(p.streams, data)
    BY <1>3 DEF Asking
  <2>2. PICK s : s = p.streams
    OBVIOUS
  <2>3. DOMAIN ReadFields(data) = DOMAIN s /\ \A k \in DOMAIN s : Triple(ReadFields(data)[k].data, 0, 1, s[k])
    BY <2>1, <2>2, AskedRead
  <2>4. ASSUME NEW k \in DOMAIN s
        PROVE  /\ DOMAIN ReadFields(ReadFields(data)[k].data) = 1 .. 3
               /\ ReadFields(ReadFields(data)[k].data)[1].v = 0
               /\ ReadFields(ReadFields(data)[k].data)[3].v = s[k]
    BY <2>3, Zenon DEF Triple
  <2> QED
    BY <1>1, <1>3, <2>2, <2>3, <2>4, Zenon DEF StreamsRead
<1> QED
  BY <1>2, <1>3

\* Attributes that a message has room for.
Light(ats) == AttributesOf(ats) /\ Len(Encoded(ats)) < 65000

LEMMA RequestReadsBack ==
  \A type \in {1, 3} : \A ats, key, streams, k : \A fingerprint \in BOOLEAN :
    /\ Light(ats) /\ IsKey(key)
    /\ FirstAt(ats, Wanted(type), k) /\ Asking(type, ats[k].data, streams)
    => PacketReadsBack(Stun(type, ats, key, fingerprint, streams))
<1> SUFFICES ASSUME NEW type \in {1, 3}, NEW ats, NEW key, NEW fingerprint \in BOOLEAN, NEW streams, NEW k
             PROVE  /\ Light(ats) /\ IsKey(key)
                    /\ FirstAt(ats, Wanted(type), k) /\ Asking(type, ats[k].data, streams)
                    => PacketReadsBack(Stun(type, ats, key, fingerprint, streams))
  OBVIOUS
<1>12. SUFFICES ASSUME Light(ats), IsKey(key), FirstAt(ats, Wanted(type), k), Asking(type, ats[k].data, streams)
                PROVE  PacketReadsBack(Stun(type, ats, key, fingerprint, streams))
  OBVIOUS
<1>10. AttributesOf(ats) /\ IsKey(key) /\ Len(Encoded(ats)) < 65000
       /\ FirstAt(ats, Wanted(type), k) /\ Asking(type, ats[k].data, streams)
  BY <1>12, SMT DEF Light
<1>11. PICK p : p = Stun(type, ats, key, fingerprint, streams)
  OBVIOUS
<1>1. PICK flat : flat = Encoded(ats)
  OBVIOUS
<1>2. LaidOut(ats, flat) /\ Len(flat) < 65000
  BY <1>1, <1>10, EncodedLaidOut
<1>3. PICK b : b = BuildStunMessage(type, flat, key, fingerprint)
  OBVIOUS
<1>4. /\ p.kind = "stun" /\ p.bytes = b /\ p.type = type /\ p.attrs = ats /\ p.key = key
      /\ p.fingerprint = fingerprint /\ p.streams = streams
  BY <1>1, <1>3, <1>11 DEF Stun
<1>5. PICK parsed : parsed = ParseStunResponse(b)
  OBVIOUS
<1>6. /\ parsed.type = type /\ parsed.class = "request" /\ Len(b) % 4 = 0
      /\ Len(parsed.attrs) = Len(ats) + (Len(key) + Bit(fingerprint))
      /\ SubSeq(parsed.attrs, 1, Len(ats)) = ats /\ \A i \in 1 .. Len(ats) : parsed.attrs[i] = ats[i]
      /\ Route(b) = "none" /\ ClassifyPacket(b) = "STUN" /\ AttributesOf(parsed.attrs)
  <2>1. StunReads(type, ats, flat, key, fingerprint, b, parsed)
    BY <1>2, <1>10, StunRead
  <2> QED
    BY <1>3, <1>5, <2>1, Zenon DEF StunReads
<1>7. Verifies(p)
  <2>1. type \in Nat
    OBVIOUS
  <2> QED
    BY <1>2, <1>3, <1>4, <1>10, <2>1, StunVerifies
<1>8. StreamsRead(p)
  <2>1. PICK all : all = parsed.attrs
    OBVIOUS
  <2>2. PICK n \in Nat : n = Len(ats)
    BY <1>10, WrittenIs
  <2>3. PICK m \in Nat : m = Len(all) /\ n <= m
    <3>1. Len(all) \in Nat
      BY <1>6, <2>1, WrittenIs
    <3>2. Len(key) \in Nat /\ Bit(fingerprint) \in Nat
      BY <1>10 DEF IsKey, Bit
    <3>3. PICK x, y \in Nat : x = Len(key) /\ y = Bit(fingerprint)
      BY <3>2
    <3>4. Len(all) = n + (x + y)
      BY <1>6, <2>1, <2>2, <3>3
    <3>5. n <= n + (x + y)
      OBVIOUS
    <3> QED
      BY <3>1, <3>4, <3>5
  <2>4. k \in 1 .. n /\ ats[k].type = Wanted(type) /\ \A j \in 1 .. k - 1 : ats[j].type # Wanted(type)
    BY <1>10, <2>2 DEF FirstAt
  <2>5. \A i \in 1 .. n : all[i] = ats[i]
    BY <1>6, <2>1, <2>2
  <2>6. k \in 1 .. m /\ all[k] = ats[k] /\ \A j \in 1 .. k - 1 : j \in 1 .. n /\ all[j] = ats[j]
    BY <2>3, <2>4, <2>5
  <2>7. FirstAt(all, Wanted(type), k)
    BY <2>3, <2>4, <2>6 DEF FirstAt
  <2>8. DataOf(all, Wanted(type)) = all[k].data
    BY <1>6, <2>1, <2>7, FirstData
  <2>9. DataOf(ParseStunResponse(p.bytes).attrs, Wanted(p.type)) = ats[k].data
    <3>1. ParseStunResponse(p.bytes).attrs = all /\ p.type = type
      BY <1>4, <1>5, <2>1
    <3> QED
      BY <2>6, <2>8, <3>1
  <2>10. Asking(p.type, ats[k].data, p.streams)
    BY <1>4, <1>10
  <2> QED
    BY <2>9, <2>10, StreamsAreRead
<1>9. StunReadsBack(p)
  <2>1. ParseStunResponse(p.bytes) = parsed
    BY <1>4, <1>5
  <2>2. /\ parsed.type = p.type /\ parsed.class = "request" /\ Len(p.bytes) % 4 = 0
        /\ Len(parsed.attrs) = Len(p.attrs) + (Len(p.key) + Bit(p.fingerprint))
        /\ SubSeq(parsed.attrs, 1, Len(p.attrs)) = p.attrs
        /\ Route(p.bytes) = "none" /\ ClassifyPacket(p.bytes) = "STUN"
    <3>1. PICK n, m : n = Len(ats) /\ m = Len(ats) + (Len(key) + Bit(fingerprint))
      OBVIOUS
    <3>2. Len(p.attrs) = n /\ Len(p.attrs) + (Len(p.key) + Bit(p.fingerprint)) = m
      BY <1>4, <3>1
    <3>3. /\ parsed.type = type /\ parsed.class = "request" /\ Len(b) % 4 = 0
          /\ Len(parsed.attrs) = m /\ SubSeq(parsed.attrs, 1, n) = ats
          /\ Route(b) = "none" /\ ClassifyPacket(b) = "STUN"
      BY <1>6, <3>1
    <3> QED
      BY <1>4, <3>2, <3>3, Zenon
  <2> QED
    BY <1>7, <1>8, <2>1, <2>2, Zenon DEF StunReadsBack
<1> QED
  BY <1>4, <1>9, <1>11 DEF PacketReadsBack

-----------------------------------------------------------------------------
(* The messages a relay is sent.                                           *)

Appended(S, s, x, q) ==
    q = s \o <<x>>
    => q \in Seq(S) /\ Len(q) = Len(s) + 1 /\ q[Len(s) + 1] = x /\ \A i \in 1 .. Len(s) : q[i] = s[i]

LEMMA AppendedIs ==
  ASSUME NEW S, NEW s \in Seq(S), NEW x \in S, NEW q
  PROVE  Appended(S, s, x, q)
<1> SUFFICES ASSUME q = s \o <<x>>
             PROVE  /\ q \in Seq(S) /\ Len(q) = Len(s) + 1 /\ q[Len(s) + 1] = x
                    /\ \A i \in 1 .. Len(s) : q[i] = s[i]
  BY DEF Appended
<1>1. <<x>> \in Seq(S) /\ Len(<<x>>) = 1 /\ <<x>>[1] = x
  OBVIOUS
<1>2. /\ q \in Seq(S) /\ Len(q) = Len(s) + Len(<<x>>)
      /\ \A i \in 1 .. Len(s) : q[i] = s[i]
      /\ \A i \in 1 .. Len(<<x>>) : q[Len(s) + i] = <<x>>[i]
  BY <1>1, TwoInARow
<1>3. 1 \in 1 .. 1
  OBVIOUS
<1> QED
  BY <1>1, <1>2, <1>3, Zenon

HasLength(S, q, n) == q \in Seq(S) /\ Len(q) = n

LEMMA OneListed ==
  ASSUME NEW S, NEW x \in S
  PROVE  HasLength(S, <<x>>, 1) /\ <<x>>[1] = x
  BY DEF HasLength

LEMMA TwoListed ==
  ASSUME NEW S, NEW x \in S, NEW y \in S
  PROVE  HasLength(S, <<x, y>>, 2) /\ <<x, y>>[1] = x /\ <<x, y>>[2] = y
  BY DEF HasLength

Four(S, a, b, c, d, q) ==
    q = ((<<a>> \o <<b>>) \o <<c>>) \o <<d>>
    => q \in Seq(S) /\ Len(q) = 4 /\ q[1] = a /\ q[2] = b /\ q[3] = c /\ q[4] = d

LEMMA FourIs ==
  ASSUME NEW S, NEW a \in S, NEW b \in S, NEW c \in S, NEW d \in S, NEW q
  PROVE  Four(S, a, b, c, d, q)
<1> SUFFICES ASSUME q = ((<<a>> \o <<b>>) \o <<c>>) \o <<d>>
             PROVE  q \in Seq(S) /\ Len(q) = 4 /\ q[1] = a /\ q[2] = b /\ q[3] = c /\ q[4] = d
  BY DEF Four
<1>1. PICK r : r = (<<a>> \o <<b>>) \o <<c>>
  OBVIOUS
<1>2. r \in Seq(S) /\ Len(r) = 3 /\ r[1] = a /\ r[2] = b /\ r[3] = c
  <2>1. Three(S, a, b, c, r)
    BY ThreeIs
  <2> QED
    BY <1>1, <2>1 DEF Three
<1>3. /\ q \in Seq(S) /\ Len(q) = Len(r) + 1 /\ q[Len(r) + 1] = d /\ \A i \in 1 .. Len(r) : q[i] = r[i]
  <2>1. Appended(S, r, d, q)
    BY <1>2, AppendedIs
  <2>2. q = r \o <<d>>
    BY <1>1
  <2> QED
    BY <2>1, <2>2, Zenon DEF Appended
<1>4. 3 + 1 = 4 /\ 1 \in 1 .. 3 /\ 2 \in 1 .. 3 /\ 3 \in 1 .. 3
  OBVIOUS
<1> QED
  BY <1>2, <1>3, <1>4, Zenon

LEMMA EmptyJoins ==
  ASSUME NEW S, NEW s \in Seq(S)
  PROVE  <<>> \o s = s /\ s \o <<>> = s
  BY ConcatEmptySeq

LEMMA TypesAre ==
  /\ Username \in Nat /\ Priority \in Nat /\ Subscriptions \in Nat /\ SsrcList \in Nat /\ XorRelayed \in Nat
  /\ Controlling \in Nat
  /\ Is16(Username) /\ Is16(Priority) /\ Is16(Subscriptions) /\ Is16(SsrcList) /\ Is16(XorRelayed) /\ Is16(Controlling)
  /\ Username # Subscriptions /\ Priority # Subscriptions /\ Controlling # Subscriptions /\ Subscriptions # SsrcList
  BY SMT DEF Username, Priority, Subscriptions, SsrcList, XorRelayed, Controlling, Is16

LEMMA PriorityIs ==
  /\ <<0, 255, 255, 255>> \in Seq(Octets) /\ Len(<<0, 255, 255, 255>>) = 4
  BY DEF Octets

LEMMA TieBreakerIs == TieBreaker \in Seq(Octets) /\ Len(TieBreaker) = 8
  BY WireAssumption DEF InputsAreTyped, IsNonce

\* A blob of at most so many bytes: a name, a list, and what is shorter.
UpTo(b, n) == b \in Blob /\ Len(b) <= n
Name(b) == UpTo(b, 40000)
List(b) == UpTo(b, 24000)
Short(b) == UpTo(b, 24)

LEMMA UpToMore ==
  ASSUME NEW b, NEW n \in Nat, NEW m \in Nat, n <= m, UpTo(b, n)
  PROVE  UpTo(b, m)
<1>1. b \in Blob /\ Len(b) <= n
  BY DEF UpTo
<1>2. PICK l \in Nat : l = Len(b)
  BY <1>1, Joined
<1>3. l <= m
  BY <1>1, <1>2
<1> QED
  BY <1>1, <1>2, <1>3 DEF UpTo

LEMMA UpTo16 ==
  ASSUME NEW b, UpTo(b, 40000)
  PROVE  b \in Seq(Octets) /\ Is16(Len(b))
<1>1. b \in Seq(Octets) /\ Len(b) <= 40000
  BY SMT DEF UpTo, Blob
<1>2. PICK l \in Nat : l = Len(b)
  BY <1>1, SMT
<1>3. l < 65536
  BY <1>1, <1>2, SMT
<1> QED
  BY <1>1, <1>2, <1>3, SMT DEF Is16

LEMMA NamesAre ==
  \A b : /\ (Short(b) => List(b)) /\ (List(b) => Name(b))
         /\ (Name(b) => b \in Seq(Octets) /\ Is16(Len(b)) /\ b \in Blob)
<1> TAKE b
<1>1. 24 \in Nat /\ 24000 \in Nat /\ 40000 \in Nat /\ 24 <= 24000 /\ 24000 <= 40000
  BY SMT
<1>2. Short(b) => List(b)
  BY <1>1, UpToMore DEF Short, List
<1>3. List(b) => Name(b)
  BY <1>1, UpToMore DEF List, Name
<1>4. Name(b) => b \in Seq(Octets) /\ Is16(Len(b))
  BY UpTo16 DEF Name
<1>5. Name(b) => b \in Blob
  BY DEF Name, UpTo
<1> QED
  BY <1>2, <1>3, <1>4, <1>5

LEMMA NamedIs ==
  ASSUME NEW a, NEW type \in Nat, Is16(type), NEW data, Name(data), a = Attribute(type, data)
  PROVE  a \in AttributeSet /\ a.type = type /\ a.data = data
<1>1. data \in Seq(Octets) /\ Is16(Len(data))
  BY NamesAre
<1> QED
  BY <1>1, InAttributeSet

\* What a message asks for, and how long it is.
Good(ats, type, data) ==
    /\ Light(ats)
    /\ \E k : FirstAt(ats, Wanted(type), k) /\ ats[k].data = data

LEMMA EncodedTyped ==
  ASSUME NEW ats, AttributesOf(ats)
  PROVE  Len(Encoded(ats)) \in Nat
<1>1. Encoded(ats) \in Seq(Octets)
  BY EncodedLaidOut DEF LaidOut
<1> QED
  BY <1>1

\* Up to four attributes of these sizes are less than a message may have.
Sizes(r, n) ==
    /\ n = Len(r) /\ Name(r[1].data) /\ (n >= 2 => List(r[2].data))
    /\ (n >= 3 => Short(r[3].data)) /\ (n >= 4 => Short(r[4].data))

LEMMA LengthOk ==
  ASSUME NEW r, AttributesOf(r), NEW n \in 1 .. 4, Sizes(r, n)
  PROVE  Len(Encoded(r)) < 65000
<1> DEFINE B == [i \in 1 .. 4 |-> IF i = 1 THEN 40000 ELSE IF i = 2 THEN 24000 ELSE 24]
<1>2. B \in [1 .. 4 -> Nat]
  BY SMT
<1>3. B[1] = 40000 /\ B[2] = 24000 /\ B[3] = 24 /\ B[4] = 24
  BY SMT
<1> HIDE DEF B
<1>4. \A i \in 1 .. n : i = 1 \/ (i = 2 /\ n >= 2) \/ (i = 3 /\ n >= 3) \/ (i = 4 /\ n >= 4)
  OBVIOUS
<1>5. /\ Len(r[1].data) <= B[1] /\ (n >= 2 => Len(r[2].data) <= B[2])
      /\ (n >= 3 => Len(r[3].data) <= B[3]) /\ (n >= 4 => Len(r[4].data) <= B[4])
  BY <1>3, SMT DEF Sizes, Name, List, Short, UpTo
<1>6. \A i \in 1 .. n : Len(r[i].data) <= B[i]
  BY <1>4, <1>5, SMT
<1>7. n = Len(r)
  BY DEF Sizes
<1>8. Len(Encoded(r)) <= (B[1] + 7) + (B[2] + 7) + (B[3] + 7) + (B[4] + 7)
  BY <1>2, <1>6, <1>7, EncodedLength
<1>9. PICK e \in Nat : e = Len(Encoded(r))
  BY EncodedTyped, SMT
<1>10. e <= (40000 + 7) + (24000 + 7) + (24 + 7) + (24 + 7)
  BY <1>3, <1>8, <1>9, SMT
<1>11. e < 65000
  BY <1>10, SMT
<1> QED
  BY <1>9, <1>11, SMT

LEMMA GoodIs ==
  ASSUME NEW r \in Seq(AttributeSet), NEW n \in 1 .. 4, Sizes(r, n), NEW type, NEW k, FirstAt(r, Wanted(type), k)
  PROVE  Good(r, type, r[k].data)
<1>1. AttributesOf(r)
  BY SetAttributes
<1>2. Len(Encoded(r)) < 65000
  BY <1>1, LengthOk
<1>3. r[k].data = r[k].data
  OBVIOUS
<1>4. Light(r)
  BY <1>1, <1>2, SMT DEF Light
<1> QED
  BY <1>3, <1>4, Zenon DEF Good

LEMMA Constants == Name(<<0, 255, 255, 255>>) /\ List(<<0, 255, 255, 255>>) /\ Short(<<0, 255, 255, 255>>) /\ Short(TieBreaker)
<1>1. UpTo(<<0, 255, 255, 255>>, 24)
  <2>1. 4 <= 24
    OBVIOUS
  <2> QED
    BY <2>1, PriorityIs, Zenon DEF UpTo, Blob
<1>2. UpTo(TieBreaker, 24)
  <2>1. Len(TieBreaker) <= 24
    BY TieBreakerIs, SMT
  <2> QED
    BY <2>1, TieBreakerIs, Zenon DEF UpTo, Blob
<1>3. Short(<<0, 255, 255, 255>>) /\ Short(TieBreaker)
  BY <1>1, <1>2, Zenon DEF Short
<1> QED
  BY <1>3, NamesAre

LEMMA BindingGood ==
  ASSUME NEW user, NEW subs, Name(user), Short(subs), user # <<>>, subs # <<>>
  PROVE  Good(BindingAttributes(user, subs, TRUE), 1, subs)
<1>1. PICK first : first = <<0, 255, 255, 255>>
  OBVIOUS
<1>2. PICK A : A = Attribute(Username, user)
  OBVIOUS
<1>3. PICK B : B = Attribute(Priority, first)
  OBVIOUS
<1>4. PICK C : C = Attribute(Controlling, TieBreaker)
  OBVIOUS
<1>5. PICK D : D = Attribute(Subscriptions, subs)
  OBVIOUS
<1>6. /\ Name(user) /\ Name(first) /\ List(first) /\ Name(TieBreaker) /\ Short(TieBreaker) /\ Name(subs) /\ Short(subs)
      /\ user # <<>> /\ subs # <<>>
  BY <1>1, Constants, NamesAre, Zenon
<1>7. A \in AttributeSet /\ A.type = Username /\ A.data = user
  BY <1>2, <1>6, TypesAre, NamedIs
<1>8. B \in AttributeSet /\ B.type = Priority /\ B.data = first
  BY <1>3, <1>6, TypesAre, NamedIs
<1>9. C \in AttributeSet /\ C.type = Controlling /\ C.data = TieBreaker
  BY <1>4, <1>6, TypesAre, NamedIs
<1>10. D \in AttributeSet /\ D.type = Subscriptions /\ D.data = subs
  BY <1>5, <1>6, TypesAre, NamedIs
<1>11. PICK r : r = ((<<A>> \o <<B>>) \o <<C>>) \o <<D>>
  OBVIOUS
<1>12. BindingAttributes(user, subs, TRUE) = r
  BY <1>1, <1>2, <1>3, <1>4, <1>5, <1>6, <1>11 DEF BindingAttributes
<1>13. r \in Seq(AttributeSet) /\ Len(r) = 4 /\ r[1] = A /\ r[2] = B /\ r[3] = C /\ r[4] = D
  <2>1. Four(AttributeSet, A, B, C, D, r)
    BY <1>7, <1>8, <1>9, <1>10, FourIs
  <2> QED
    BY <1>11, <2>1, Zenon DEF Four
<1>14. Sizes(r, 4)
  BY <1>6, <1>7, <1>8, <1>9, <1>10, <1>13, Zenon DEF Sizes
<1>15. FirstAt(r, Wanted(1), 4)
  <2>1. Wanted(1) = Subscriptions
    BY DEF Wanted
  <2>2. 4 \in 1 .. 4 /\ \A j \in 1 .. 4 - 1 : j = 1 \/ j = 2 \/ j = 3
    OBVIOUS
  <2>3. r[1].type # Subscriptions /\ r[2].type # Subscriptions /\ r[3].type # Subscriptions
    BY <1>7, <1>8, <1>9, <1>13, TypesAre, Zenon
  <2>4. \A j \in 1 .. 4 - 1 : r[j].type # Subscriptions
    BY <2>2, <2>3, Zenon
  <2> QED
    BY <1>10, <1>13, <2>1, <2>2, <2>4, Zenon DEF FirstAt
<1>16. Good(r, 1, r[4].data)
  <2>1. 4 \in 1 .. 4
    OBVIOUS
  <2> QED
    BY <1>13, <1>14, <1>15, <2>1, GoodIs
<1> QED
  BY <1>10, <1>12, <1>13, <1>16, Zenon

LEMMA PlainGood ==
  ASSUME NEW subs, Short(subs), subs # <<>>
  PROVE  Good(BindingAttributes(<<>>, subs, FALSE), 1, subs)
<1>1. PICK first : first = <<0, 255, 255, 255>>
  OBVIOUS
<1>3. PICK B : B = Attribute(Priority, first)
  OBVIOUS
<1>5. PICK D : D = Attribute(Subscriptions, subs)
  OBVIOUS
<1>6. Name(first) /\ Name(subs) /\ List(subs) /\ subs # <<>>
  BY <1>1, Constants, NamesAre, Zenon
<1>8. B \in AttributeSet /\ B.type = Priority /\ B.data = first
  BY <1>3, <1>6, TypesAre, NamedIs
<1>10. D \in AttributeSet /\ D.type = Subscriptions /\ D.data = subs
  BY <1>5, <1>6, TypesAre, NamedIs
<1>11. PICK r : r = <<B>> \o <<D>>
  OBVIOUS
<1>2. HasLength(AttributeSet, <<B>>, 1) /\ <<B>>[1] = B
  BY <1>8, OneListed
<1>12. BindingAttributes(<<>>, subs, FALSE) = r
  <2>1. <<B>> \in Seq(AttributeSet)
    BY <1>2 DEF HasLength
  <2>2. <<>> \o <<B>> = <<B>> /\ <<B>> \o <<>> = <<B>>
    BY <2>1, EmptyJoins
  <2>3. BindingAttributes(<<>>, subs, FALSE) = ((<<>> \o <<B>>) \o <<>>) \o <<D>>
    BY <1>1, <1>3, <1>5, <1>6, Zenon DEF BindingAttributes
  <2> QED
    BY <1>11, <2>2, <2>3, Zenon
<1>13. r \in Seq(AttributeSet) /\ Len(r) = 2 /\ r[1] = B /\ r[2] = D
  <2>1. 2 = 1 + 1 /\ 1 \in Nat /\ 2 \in Nat /\ 1 \in 1 .. 1
    OBVIOUS
  <2>2. <<B>> \in Seq(AttributeSet) /\ Len(<<B>>) = 1
    BY <1>2, Zenon DEF HasLength
  <2>3. Appended(AttributeSet, <<B>>, D, r)
    BY <1>10, <2>2, AppendedIs
  <2> QED
    BY <1>2, <1>11, <2>1, <2>2, <2>3, Zenon DEF Appended
<1>14. Sizes(r, 2)
  <2>1. ~(2 >= 3) /\ ~(2 >= 4)
    OBVIOUS
  <2> QED
    BY <1>6, <1>8, <1>10, <1>13, <2>1, Zenon DEF Sizes
<1>15. FirstAt(r, Wanted(1), 2)
  <2>1. Wanted(1) = Subscriptions
    BY DEF Wanted
  <2>2. 2 \in 1 .. 2 /\ \A j \in 1 .. 2 - 1 : j = 1
    OBVIOUS
  <2>3. r[1].type # Subscriptions
    BY <1>8, <1>13, TypesAre, Zenon
  <2>4. \A j \in 1 .. 2 - 1 : r[j].type # Subscriptions
    BY <2>2, <2>3, Zenon
  <2> QED
    BY <1>10, <1>13, <2>1, <2>2, <2>4, Zenon DEF FirstAt
<1>16. Good(r, 1, r[2].data)
  <2>1. 2 \in 1 .. 4
    OBVIOUS
  <2> QED
    BY <1>13, <1>14, <1>15, <2>1, GoodIs
<1> QED
  BY <1>10, <1>12, <1>13, <1>16, Zenon

LEMMA XorByteIs == \A x, y : XorByte(x, y) \in Octets
<1> TAKE x, y
<1> DEFINE Bits(w) == IF (x \div w) % 2 = (y \div w) % 2 THEN 0 ELSE w
<1>1. /\ Bits(1) \in {0, 1} /\ Bits(2) \in {0, 2} /\ Bits(4) \in {0, 4} /\ Bits(8) \in {0, 8}
      /\ Bits(16) \in {0, 16} /\ Bits(32) \in {0, 32} /\ Bits(64) \in {0, 64} /\ Bits(128) \in {0, 128}
  OBVIOUS
<1>2. XorByte(x, y) = Bits(1) + Bits(2) + Bits(4) + Bits(8) + Bits(16) + Bits(32) + Bits(64) + Bits(128)
  BY SMT DEF XorByte
<1> HIDE DEF Bits
<1>3. Bits(1) + Bits(2) + Bits(4) + Bits(8) + Bits(16) + Bits(32) + Bits(64) + Bits(128) \in Octets
  BY <1>1, SMT DEF Octets
<1> QED
  BY <1>2, <1>3

LEMMA XorBytesIs ==
  ASSUME NEW a \in Seq(Octets), NEW b
  PROVE  XorBytes(a, b) \in Seq(Octets) /\ Len(XorBytes(a, b)) = Len(a)
<1>1. PICK n \in Nat : n = Len(a)
  OBVIOUS
<1>2. PICK f : f = XorBytes(a, b)
  OBVIOUS
<1>3. f = [i \in 1 .. n |-> XorByte(a[i], b[i])]
  BY <1>1, <1>2 DEF XorBytes
<1>4. f = [i \in 1 .. n |-> f[i]] /\ \A i \in 1 .. n : f[i] \in Octets
  BY <1>3, XorByteIs
<1> QED
  BY <1>1, <1>2, <1>4, SequenceIs

LEMMA AddressShort ==
  ASSUME NEW ip \in Seq(Octets), Len(ip) = 4, NEW port \in Nat
  PROVE  Short(EncodeXorRelayedAddress(ip, port))
<1>1. PICK a : a = XorBytes(Field16(port), SubSeq(Cookie, 1, 2))
  OBVIOUS
<1>2. a \in Blob /\ Len(a) = 2
  <2>1. Field16(port) \in Seq(Octets) /\ Len(Field16(port)) = 2
    BY Field16Bytes
  <2> QED
    BY <1>1, <2>1, XorBytesIs DEF Blob
<1>3. PICK c : c = XorBytes(ip, Cookie)
  OBVIOUS
<1>4. c \in Blob /\ Len(c) = 4
  BY <1>3, XorBytesIs DEF Blob
<1>5. PICK z : z = <<0, 1>>
  OBVIOUS
<1>6. z \in Blob /\ Len(z) = 2
  BY <1>5 DEF Blob, Octets
<1>7. z \o a \in Blob /\ Len(z \o a) = 2 + 2
  BY <1>2, <1>6, Joined
<1>8. (z \o a) \o c \in Blob /\ Len((z \o a) \o c) = 2 + 2 + 4
  BY <1>4, <1>7, Joined
<1>9. EncodeXorRelayedAddress(ip, port) = (z \o a) \o c
  BY <1>1, <1>3, <1>5 DEF EncodeXorRelayedAddress
<1>10. 2 + 2 + 4 <= 24
  OBVIOUS
<1> QED
  BY <1>8, <1>9, <1>10, Zenon DEF Short, UpTo

LEMMA AllocateGood ==
  ASSUME NEW raw, NEW list, NEW ip, NEW port, Name(raw), List(list),
         ip # <<>> => Short(EncodeXorRelayedAddress(ip, port))
  PROVE  Good(AllocateAttributes(raw, list, ip, port), 3, list)
<1>1. PICK A : A = Attribute(Subscriptions, raw)
  OBVIOUS
<1>2. PICK B : B = Attribute(SsrcList, list)
  OBVIOUS
<1>3. Name(raw) /\ Name(list) /\ List(list)
  BY NamesAre, Zenon
<1>4. A \in AttributeSet /\ A.type = Subscriptions /\ A.data = raw
  BY <1>1, <1>3, TypesAre, NamedIs
<1>5. B \in AttributeSet /\ B.type = SsrcList /\ B.data = list
  BY <1>2, <1>3, TypesAre, NamedIs
<1>6. PICK s : s = <<A, B>>
  OBVIOUS
<1>7. s \in Seq(AttributeSet) /\ Len(s) = 2 /\ s[1] = A /\ s[2] = B
  BY <1>4, <1>5, <1>6, TwoListed DEF HasLength
<1>8. Wanted(3) = SsrcList
  BY DEF Wanted
<1>9. ASSUME NEW r, NEW n \in 1 .. 4, n >= 2, r \in Seq(AttributeSet), Len(r) = n, r[1] = A, r[2] = B, Sizes(r, n)
      PROVE  Good(r, 3, list)
  <2>1. 2 \in 1 .. n /\ \A j \in 1 .. 2 - 1 : j = 1
    BY <1>9
  <2>2. r[1].type # SsrcList
    BY <1>4, <1>9, TypesAre, Zenon
  <2>3. FirstAt(r, Wanted(3), 2)
    BY <1>5, <1>8, <1>9, <2>1, <2>2, Zenon DEF FirstAt
  <2>4. Good(r, 3, r[2].data)
    BY <1>9, <2>3, GoodIs
  <2> QED
    BY <1>5, <1>9, <2>4, Zenon
<1>10. CASE ip = <<>> \/ port = 0
  <2>1. AllocateAttributes(raw, list, ip, port) = s
    <3>1. AllocateAttributes(raw, list, ip, port) = s \o <<>>
      BY <1>1, <1>2, <1>6, <1>10, Zenon DEF AllocateAttributes
    <3>2. s \o <<>> = s
      BY <1>7, EmptyJoins
    <3> QED
      BY <3>1, <3>2, Zenon
  <2>2. Sizes(s, 2)
    <3>1. ~(2 >= 3) /\ ~(2 >= 4)
      OBVIOUS
    <3> QED
      BY <1>3, <1>4, <1>5, <1>7, <3>1, Zenon DEF Sizes
  <2>3. 2 \in 1 .. 4 /\ 2 >= 2
    OBVIOUS
  <2> QED
    BY <1>7, <1>9, <2>1, <2>2, <2>3
<1>11. CASE ~(ip = <<>> \/ port = 0)
  <2>1. PICK d : d = EncodeXorRelayedAddress(ip, port)
    OBVIOUS
  <2>2. PICK X : X = Attribute(XorRelayed, d)
    OBVIOUS
  <2>3. Short(d) /\ Name(d)
    <3>1. Short(d)
      BY <1>11, <2>1
    <3> QED
      BY <3>1, NamesAre, Zenon
  <2>4. X \in AttributeSet /\ X.type = XorRelayed /\ X.data = d
    BY <2>2, <2>3, TypesAre, NamedIs
  <2>5. PICK r : r = s \o <<X>>
    OBVIOUS
  <2>6. AllocateAttributes(raw, list, ip, port) = r
    BY <1>1, <1>2, <1>6, <1>11, <2>1, <2>2, <2>5, Zenon DEF AllocateAttributes
  <2>7. r \in Seq(AttributeSet) /\ Len(r) = 3 /\ r[1] = A /\ r[2] = B /\ r[3] = X
    <3>1. Appended(AttributeSet, s, X, r)
      BY <1>7, <2>4, AppendedIs
    <3>2. 2 + 1 = 3 /\ 1 \in 1 .. 2 /\ 2 \in 1 .. 2
      OBVIOUS
    <3> QED
      BY <1>7, <2>5, <3>1, <3>2, Zenon DEF Appended
  <2>8. Sizes(r, 3)
    <3>1. ~(3 >= 4)
      OBVIOUS
    <3> QED
      BY <1>3, <1>4, <1>5, <2>3, <2>4, <2>7, <3>1, Zenon DEF Sizes
  <2>9. 3 \in 1 .. 4 /\ 3 >= 2
    OBVIOUS
  <2> QED
    BY <1>9, <2>6, <2>7, <2>8, <2>9
<1> QED
  BY <1>10, <1>11

\* Packets that are all read as they were meant.
AllRead(w) == \E S : w \in Seq(S) /\ \A i \in 1 .. Len(w) : PacketReadsBack(w[i])

LEMMA AllReadNone == AllRead(<<>>)
<1>1. <<>> \in Seq({}) /\ Len(<<>>) = 0
  OBVIOUS
<1>2. \A i \in 1 .. 0 : FALSE
  OBVIOUS
<1> QED
  BY <1>1, <1>2, Zenon DEF AllRead

LEMMA AllReadOne ==
  ASSUME NEW p, PacketReadsBack(p)
  PROVE  AllRead(<<p>>)
<1>1. <<p>> \in Seq({p}) /\ Len(<<p>>) = 1 /\ <<p>>[1] = p
  OBVIOUS
<1>2. \A i \in 1 .. 1 : i = 1
  OBVIOUS
<1> QED
  BY <1>1, <1>2, Zenon DEF AllRead

LEMMA AllReadBoth ==
  ASSUME NEW v, NEW w, AllRead(v), AllRead(w)
  PROVE  AllRead(v \o w)
<1>1. PICK S : v \in Seq(S) /\ \A i \in 1 .. Len(v) : PacketReadsBack(v[i])
  BY DEF AllRead
<1>2. PICK T : w \in Seq(T) /\ \A i \in 1 .. Len(w) : PacketReadsBack(w[i])
  BY DEF AllRead
<1>3. PICK R : R = S \cup T
  OBVIOUS
<1>4. v \in Seq(R) /\ w \in Seq(R)
  <2>1. \A k \in 1 .. Len(v) : v[k] \in R
    BY <1>1, <1>3
  <2>2. \A k \in 1 .. Len(w) : w[k] \in R
    BY <1>2, <1>3
  <2>3. IsSequence(v) /\ IsSequence(w)
    BY <1>1, <1>2 DEF IsSequence
  <2> QED
    BY <2>1, <2>2, <2>3, SequenceOver
<1>5. PICK n \in Nat : n = Len(v)
  BY <1>1
<1>6. PICK m \in Nat : m = Len(w)
  BY <1>2
<1>7. PICK p : p = v \o w
  OBVIOUS
<1>8. /\ p \in Seq(R) /\ Len(p) = n + m
      /\ \A x \in 1 .. n : p[x] = v[x]
      /\ \A x \in 1 .. m : p[n + x] = w[x]
  BY <1>4, <1>5, <1>6, <1>7, TwoInARow
<1>9. ASSUME NEW k \in 1 .. n + m PROVE PacketReadsBack(p[k])
  <2>1. CASE k <= n
    <3>1. k \in 1 .. n
      BY <2>1
    <3> QED
      BY <1>1, <1>5, <1>8, <3>1
  <2>2. CASE ~(k <= n)
    <3>1. PICK x \in 1 .. m : k = n + x
      <4>1. k - n \in 1 .. m /\ k = n + (k - n)
        BY <2>2
      <4> QED
        BY <4>1
    <3>2. p[n + x] = w[x] /\ PacketReadsBack(w[x])
      BY <1>2, <1>6, <1>8
    <3> QED
      BY <3>1, <3>2, Zenon
  <2> QED
    BY <2>1, <2>2
<1> QED
  BY <1>7, <1>8, <1>9, Zenon DEF AllRead

\* A request with what it asks for among its attributes is read back.
LEMMA RequestRead ==
  \A type \in {1, 3} : \A ats, data, key, streams : \A fingerprint \in BOOLEAN :
    Good(ats, type, data) /\ IsKey(key) /\ Asking(type, data, streams)
      => AllRead(<<Stun(type, ats, key, fingerprint, streams)>>)
<1> SUFFICES ASSUME NEW type \in {1, 3}, NEW ats, NEW data, NEW key, NEW streams, NEW fingerprint \in BOOLEAN
             PROVE  Good(ats, type, data) /\ IsKey(key) /\ Asking(type, data, streams)
                      => AllRead(<<Stun(type, ats, key, fingerprint, streams)>>)
  OBVIOUS
<1>1. SUFFICES ASSUME Good(ats, type, data), IsKey(key), Asking(type, data, streams)
               PROVE  AllRead(<<Stun(type, ats, key, fingerprint, streams)>>)
  OBVIOUS
<1>2. PICK k : FirstAt(ats, Wanted(type), k) /\ ats[k].data = data
  BY <1>1, Zenon DEF Good
<1>3. Light(ats)
  BY <1>1, Zenon DEF Good
<1>4. Asking(type, ats[k].data, streams) /\ IsKey(key)
  BY <1>1, <1>2, Zenon
<1>5. PacketReadsBack(Stun(type, ats, key, fingerprint, streams))
  BY <1>2, <1>3, <1>4, RequestReadsBack, Zenon
<1> QED
  BY <1>5, AllReadOne

\* A text is short enough for an attribute.
LEMMA TextNamed ==
  ASSUME NEW b, IsText(b)
  PROVE  Name(b) /\ b \in Blob /\ Len(b) \in Nat /\ Len(b) <= 16383
<1>1. b \in Seq(Octets) /\ Len(b) \in Nat /\ Len(b) < 16384
  BY SMT DEF IsText
<1>2. PICK n \in Nat : n = Len(b)
  BY <1>1
<1>3. n <= 16383 /\ n <= 40000
  BY <1>1, <1>2, SMT
<1>4. b \in Blob
  BY <1>1, BlobOf
<1>5. Len(b) <= 40000 /\ Len(b) <= 16383
  BY <1>2, <1>3, SMT
<1>6. UpTo(b, 40000)
  BY <1>4, <1>5, SMT DEF UpTo
<1> QED
  BY <1>1, <1>4, <1>5, <1>6, SMT DEF Name

\* So is a user name made of two texts and a colon.
LEMMA UserNamed ==
  ASSUME NEW name, NEW ufrag, IsText(name), IsText(ufrag)
  PROVE  Name(name \o <<58>> \o ufrag) /\ name \o <<58>> \o ufrag # <<>>
<1>1. PICK c : c = <<58>>
  OBVIOUS
<1>2. c \in Blob /\ Len(c) = 1
  BY <1>1 DEF Blob, Octets
<1>3. name \in Blob /\ ufrag \in Blob
  BY TextNamed
<1>4. PICK n \in Nat : n = Len(name) /\ n <= 16383
  BY TextNamed
<1>5. PICK m \in Nat : m = Len(ufrag) /\ m <= 16383
  BY TextNamed
<1>6. PICK s : s = name \o c
  OBVIOUS
<1>7. s \in Blob /\ Len(s) = n + 1
  <2>1. s \in Blob /\ Len(s) = Len(name) + Len(c)
    BY <1>2, <1>3, <1>6, Joined, Zenon
  <2> QED
    BY <1>2, <1>4, <2>1, SMT
<1>8. PICK u : u = s \o ufrag
  OBVIOUS
<1>9. u \in Blob /\ Len(u) = (n + 1) + m
  <2>1. u \in Blob /\ Len(u) = Len(s) + Len(ufrag)
    BY <1>3, <1>7, <1>8, Joined, Zenon
  <2> QED
    BY <1>5, <1>7, <2>1, SMT
<1>10. (n + 1) + m <= 40000 /\ (n + 1) + m # 0
  BY <1>4, <1>5, SMT
<1>11. Len(u) <= 40000 /\ Len(u) # 0
  BY <1>9, <1>10, SMT
<1>12. UpTo(u, 40000) /\ u # <<>>
  BY <1>9, <1>11, SMT DEF UpTo
<1>13. Name(u)
  BY <1>12, SMT DEF Name
<1>14. name \o <<58>> \o ufrag = u
  BY <1>1, <1>6, <1>8
<1>15. u # <<>> /\ Name(u)
  BY <1>12, <1>13, SMT
<1> QED
  BY <1>14, <1>15, Zenon

\* What an SSRC's subscriptions are: short, something, and asking for it.
LEMMA SenderAsks ==
  ASSUME NEW x \in Ssrcs32
  PROVE  /\ Short(BuildSenderSubscriptions(x)) /\ BuildSenderSubscriptions(x) # <<>>
         /\ Asking(1, BuildSenderSubscriptions(x), <<x>>)
<1>1. PICK b : b = BuildSenderSubscriptions(x)
  OBVIOUS
<1>2. b \in Seq(Octets) /\ Len(b) \in 1 .. 24 /\ ReadFields(ReadFields(b)[1].data)[1].v = x
  BY <1>1, SenderIs
<1>3. b \in Blob /\ Len(b) <= 24 /\ b # <<>>
  <2>2. PICK n \in 1 .. 24 : n = Len(b)
    BY <1>2, Zenon
  <2>3. n <= 24 /\ n # 0
    OBVIOUS
  <2>1. Len(b) <= 24 /\ Len(b) # 0
    BY <2>2, <2>3, Zenon
  <2> QED
    BY <1>2, <2>1, BlobOf
<1>4. Short(b)
  BY <1>3, Zenon DEF Short, UpTo
<1>5. <<x>>[1] = x
  OBVIOUS
<1>6. Asking(1, b, <<x>>)
  BY <1>2, <1>5, Zenon DEF Asking
<1> QED
  BY <1>1, <1>3, <1>4, <1>6, Zenon

LEMMA BindingRead ==
  \A relay, name : \A x \in Ssrcs32 :
    IsText(relay.ufrag) /\ IsText(relay.key) /\ IsText(name) => AllRead(Binding(relay, name, x))
<1> SUFFICES ASSUME NEW relay, NEW name, NEW x \in Ssrcs32
             PROVE  IsText(relay.ufrag) /\ IsText(relay.key) /\ IsText(name) => AllRead(Binding(relay, name, x))
  OBVIOUS
<1>1. SUFFICES ASSUME IsText(relay.ufrag), IsText(relay.key), IsText(name)
               PROVE  AllRead(Binding(relay, name, x))
  OBVIOUS
<1>2. CASE name = <<>> \/ relay.ufrag = <<>>
  <2>1. Binding(relay, name, x) = <<>>
    BY <1>2, Zenon DEF Binding
  <2> QED
    BY <2>1, AllReadNone, Zenon
<1>3. CASE ~(name = <<>> \/ relay.ufrag = <<>>)
  <2>1. PICK user : user = name \o <<58>> \o relay.ufrag
    OBVIOUS
  <2>2. PICK subs : subs = BuildSenderSubscriptions(x)
    OBVIOUS
  <2>3. PICK key : key = (IF relay.key = <<>> THEN <<>> ELSE <<relay.key>>)
    OBVIOUS
  <2>4. PICK ats : ats = BindingAttributes(user, subs, TRUE)
    OBVIOUS
  <2>5. Binding(relay, name, x) = <<Stun(1, ats, key, TRUE, <<x>>)>>
    BY <1>3, <2>1, <2>2, <2>3, <2>4, Zenon DEF Binding
  <2>6. Name(user) /\ user # <<>>
    BY <1>1, <2>1, UserNamed
  <2>7. Short(subs) /\ subs # <<>> /\ Asking(1, subs, <<x>>)
    BY <2>2, SenderAsks
  <2>8. Good(ats, 1, subs)
    BY <2>4, <2>6, <2>7, BindingGood
  <2>9. IsKey(key)
    <3>1. relay.key \in Blob
      BY <1>1, TextNamed
    <3> QED
      BY <2>3, <3>1, Zenon DEF IsKey
  <2>10. 1 \in {1, 3} /\ TRUE \in BOOLEAN
    OBVIOUS
  <2> QED
    BY <2>5, <2>7, <2>8, <2>9, <2>10, RequestRead, Zenon
<1> QED
  BY <1>2, <1>3

LEMMA PlainBindingRead ==
  ASSUME NEW x \in Ssrcs32
  PROVE  AllRead(PlainBinding(x))
<1>1. PICK subs : subs = BuildSenderSubscriptions(x)
  OBVIOUS
<1>2. PICK ats : ats = BindingAttributes(<<>>, subs, FALSE)
  OBVIOUS
<1>3. PlainBinding(x) = <<Stun(1, ats, <<>>, FALSE, <<x>>)>>
  BY <1>1, <1>2, Zenon DEF PlainBinding
<1>4. Short(subs) /\ subs # <<>> /\ Asking(1, subs, <<x>>)
  BY <1>1, SenderAsks
<1>5. Good(ats, 1, subs)
  BY <1>2, <1>4, PlainGood
<1>6. 1 \in {1, 3} /\ FALSE \in BOOLEAN /\ IsKey(<<>>)
  BY DEF IsKey
<1> QED
  BY <1>3, <1>4, <1>5, <1>6, RequestRead, Zenon

\* The subscriptions of two lists ask for what is in both, and fit.
LEMMA BothAsked ==
  ASSUME NEW self, NEW others, IsList(self), IsList(others)
  PROVE  /\ List(BuildSsrcSubscriptionList(self, others, 0, 0))
         /\ Asking(3, BuildSsrcSubscriptionList(self, others, 0, 0), AskedOf(self) \o AskedOf(others))
<1>1. PICK b : b = Entries(self, 0)
  OBVIOUS
<1>2. PICK c : c = Entries(others, 0)
  OBVIOUS
<1>3. PICK s : s = AskedOf(self)
  OBVIOUS
<1>4. PICK t : t = AskedOf(others)
  OBVIOUS
<1>5. Asks(s, b) /\ Len(b) <= 11988
  BY <1>1, <1>3, ListAsks
<1>6. Asks(t, c) /\ Len(c) <= 11988
  BY <1>2, <1>4, ListAsks
<1>7. Asks(s \o t, b \o c)
  BY <1>5, <1>6, AsksJoin
<1>8. b \in Blob /\ c \in Blob
  <2>1. b \in Seq(Octets)
    BY <1>5, AskedRead
  <2>2. c \in Seq(Octets)
    BY <1>6, AskedRead
  <2> QED
    BY <2>1, <2>2, BlobOf
<1>9. PICK d : d = b \o c
  OBVIOUS
<1>10. d \in Blob /\ Len(d) = Len(b) + Len(c) /\ Len(b) \in Nat /\ Len(c) \in Nat
  BY <1>8, <1>9, Joined, Zenon
<1>11. PICK n \in Nat : n = Len(b)
  BY <1>10
<1>12. PICK m \in Nat : m = Len(c)
  BY <1>10
<1>13. n <= 11988 /\ m <= 11988
  BY <1>5, <1>6, <1>11, <1>12, SMT
<1>14. n + m <= 24000
  BY <1>13, SMT
<1>15. Len(d) = n + m
  BY <1>10, <1>11, <1>12, Zenon
<1>16. UpTo(d, 24000)
  BY <1>10, <1>14, <1>15, SMT DEF UpTo
<1>17. List(d)
  BY <1>16, SMT DEF List
<1>18. BuildSsrcSubscriptionList(self, others, 0, 0) = d
  BY <1>1, <1>2, <1>9, Zenon DEF BuildSsrcSubscriptionList
<1>19. 3 # 1
  OBVIOUS
<1>20. Asking(3, d, s \o t)
  BY <1>7, <1>9, <1>19, Zenon DEF Asking
<1> QED
  BY <1>3, <1>4, <1>17, <1>18, <1>20, Zenon

LEMMA AllocationRead ==
  \A relay, lists :
    IsRelay(relay) /\ IsList(lists.self) /\ IsList(lists.peer) => AllRead(Allocation(relay, lists))
<1> SUFFICES ASSUME NEW relay, NEW lists
             PROVE  IsRelay(relay) /\ IsList(lists.self) /\ IsList(lists.peer) => AllRead(Allocation(relay, lists))
  OBVIOUS
<1>1. SUFFICES ASSUME IsRelay(relay), IsList(lists.self), IsList(lists.peer)
               PROVE  AllRead(Allocation(relay, lists))
  OBVIOUS
<1>2. CASE relay.raw = <<>>
  <2>1. Allocation(relay, lists) = <<>>
    BY <1>2, Zenon DEF Allocation
  <2> QED
    BY <2>1, AllReadNone, Zenon
<1>3. CASE relay.raw # <<>>
  <2>1. PICK list : list = BuildSsrcSubscriptionList(lists.self, lists.peer, 0, 0)
    OBVIOUS
  <2>2. PICK streams : streams = AskedOf(lists.self) \o AskedOf(lists.peer)
    OBVIOUS
  <2>3. PICK ats : ats = AllocateAttributes(relay.raw, list, relay.ip, relay.port)
    OBVIOUS
  <2>4. Allocation(relay, lists) = <<Stun(3, ats, <<relay.key>>, FALSE, streams)>>
    BY <1>3, <2>1, <2>2, <2>3, Zenon DEF Allocation
  <2>5. List(list) /\ Asking(3, list, streams)
    BY <1>1, <2>1, <2>2, BothAsked
  <2>6. IsText(relay.raw) /\ IsText(relay.key) /\ relay.ip \in Seq(Octets) /\ Len(relay.ip) \in {0, 4} /\ relay.port \in Nat
    BY <1>1, Zenon DEF IsRelay
  <2>7. Name(relay.raw) /\ relay.key \in Blob
    BY <2>6, TextNamed
  <2>8. relay.ip # <<>> => Short(EncodeXorRelayedAddress(relay.ip, relay.port))
    <3>1. PICK ip \in Seq(Octets) : ip = relay.ip
      BY <2>6
    <3>2. ip # <<>> => Len(ip) # 0
      OBVIOUS
    <3>3. Len(ip) \in {0, 4}
      BY <2>6, <3>1
    <3>4. ip # <<>> => Short(EncodeXorRelayedAddress(ip, relay.port))
      BY <2>6, <3>2, <3>3, AddressShort
    <3> QED
      BY <3>1, <3>4
  <2>9. Good(ats, 3, list)
    BY <2>3, <2>5, <2>7, <2>8, AllocateGood
  <2>10. 3 \in {1, 3} /\ FALSE \in BOOLEAN
    OBVIOUS
  <2>11. IsKey(<<relay.key>>)
    BY <2>7, Zenon DEF IsKey
  <2> QED
    BY <2>4, <2>5, <2>9, <2>10, <2>11, RequestRead, Zenon
<1> QED
  BY <1>2, <1>3

\* What a registration sends is all read as it was meant.
LEMMA RegisterRead ==
  ASSUME NEW relay \in Relays, NEW audio \in Ssrcs, NEW subscribed \in Ssrcs, NEW streams \in Streams,
         Register(relay, audio, subscribed, streams)
  PROVE  AllRead(wire')
<1>1. IsRelay(relay) /\ Is32(audio) /\ Is32(subscribed) /\ IsList(streams.self) /\ IsList(streams.peer)
  BY WireAssumption, Zenon DEF InputsAreTyped
<1>2. IsText(relay.auth) /\ IsText(relay.token) /\ IsText(relay.key) /\ IsText(relay.ufrag)
  BY <1>1, Zenon DEF IsRelay
<1>3. PICK ssrc : ssrc = (IF subscribed = 0 THEN audio ELSE subscribed)
  OBVIOUS
<1>4. PICK remote : remote = (IF relay.auth = <<>> THEN relay.token ELSE relay.auth)
  OBVIOUS
<1>5. PICK lists : lists = (IF streams.self # <<>> THEN streams
                            ELSE [self |-> <<audio>>, peer |-> IF subscribed = 0 THEN <<>> ELSE <<subscribed>>])
  OBVIOUS
<1>6. wire' = Binding(relay, remote, ssrc)
              \o (IF relay.token = remote THEN <<>> ELSE Binding(relay, relay.token, ssrc))
              \o PlainBinding(ssrc) \o Allocation(relay, lists)
  BY <1>3, <1>4, <1>5, Zenon DEF Register
<1>7. ssrc \in Ssrcs32
  <2>1. audio \in Ssrcs32 /\ subscribed \in Ssrcs32
    BY <1>1, SMT DEF Ssrcs32, Is32
  <2> QED
    BY <1>3, <2>1, Zenon
<1>8. IsText(remote)
  BY <1>2, <1>4, Zenon
<1>9. IsList(lists.self) /\ IsList(lists.peer)
  <2>1. ASSUME NEW v, Is32(v) PROVE IsList(<<v>>)
    <3>1. v \in Nat
      BY <2>1, SMT DEF Is32
    <3>2. <<v>> \in Seq(Nat) /\ Len(<<v>>) = 1 /\ <<v>>[1] = v /\ DOMAIN <<v>> = {1}
      BY <3>1
    <3>3. 1 < 1000
      OBVIOUS
    <3> QED
      BY <2>1, <3>2, <3>3, Zenon DEF IsList
  <2>2. IsList(<<>>)
    <3>1. <<>> \in Seq(Nat) /\ Len(<<>>) = 0 /\ 0 < 1000 /\ DOMAIN <<>> = {}
      OBVIOUS
    <3> QED
      BY <3>1, Zenon DEF IsList
  <2>3. CASE streams.self # <<>>
    BY <1>1, <1>5, <2>3, Zenon
  <2>4. CASE streams.self = <<>>
    <3>1. PICK others : others = (IF subscribed = 0 THEN <<>> ELSE <<subscribed>>)
      OBVIOUS
    <3>2. lists = [self |-> <<audio>>, peer |-> others]
      BY <1>5, <2>4, <3>1, Zenon
    <3>3. lists.self = <<audio>> /\ lists.peer = others
      BY <3>2
    <3>4. IsList(<<audio>>) /\ IsList(others)
      BY <1>1, <2>1, <2>2, <3>1, Zenon
    <3> QED
      BY <3>3, <3>4, Zenon
  <2> QED
    BY <2>3, <2>4, Zenon
<1>10. PICK a : a = Binding(relay, remote, ssrc)
  OBVIOUS
<1>11. PICK b : b = (IF relay.token = remote THEN <<>> ELSE Binding(relay, relay.token, ssrc))
  OBVIOUS
<1>12. PICK c : c = PlainBinding(ssrc)
  OBVIOUS
<1>13. PICK d : d = Allocation(relay, lists)
  OBVIOUS
<1>14. AllRead(a)
  BY <1>2, <1>7, <1>8, <1>10, BindingRead, Zenon
<1>15. AllRead(b)
  <2>1. AllRead(Binding(relay, relay.token, ssrc))
    BY <1>2, <1>7, BindingRead, Zenon
  <2> QED
    BY <1>11, <2>1, AllReadNone, Zenon
<1>16. AllRead(c)
  BY <1>7, <1>12, PlainBindingRead
<1>17. AllRead(d)
  BY <1>1, <1>9, <1>13, AllocationRead, Zenon
<1>18. AllRead(a \o b)
  BY <1>14, <1>15, AllReadBoth
<1>19. AllRead(a \o b \o c)
  BY <1>16, <1>18, AllReadBoth
<1>20. AllRead(a \o b \o c \o d)
  BY <1>17, <1>19, AllReadBoth
<1>21. wire' = a \o b \o c \o d
  BY <1>6, <1>10, <1>11, <1>12, <1>13, Zenon
<1> QED
  BY <1>20, <1>21, Zenon

-----------------------------------------------------------------------------
(* What a relay answers.                                                   *)

\* A packet that begins as a STUN message goes to no stream.
LEMMA StunGoesNowhere ==
  ASSUME NEW b, NEW n \in Nat, n = Len(b), n >= 20, NEW x \in Nat, x = b[1], x < 64
  PROVE  Route(b) = "none"
<1>1. n >= 2
  OBVIOUS
<1>2. IsStunPacket(b)
  BY <1>1 DEF IsStunPacket
<1> QED
  BY <1>2, Zenon DEF Route

LEMMA StunTypesAre ==
  ASSUME NEW type \in StunTypes
  PROVE  type \in Nat /\ Is16(type) /\ (type \div 256) % 256 \in Nat /\ (type \div 256) % 256 < 64
<1>1. PICK t \in Nat : t = type /\ t <= 16383
  BY SMT DEF StunTypes
<1>2. (t \div 256) % 256 \in Nat /\ (t \div 256) % 256 < 64 /\ t < 65536
  BY <1>1, SMT
<1> QED
  BY <1>1, <1>2, SMT DEF Is16

\* What a message with its length under its type is read as.
MessageReads(type, ats, b) ==
    LET parsed == ParseStunResponse(b)
    IN  /\ parsed.type = type /\ parsed.attrs = ats /\ parsed.method = MethodOf(type) /\ Route(b) = "none"

LEMMA MessageReadBack ==
  \A type \in StunTypes : \A ats, flat, b :
    LaidOut(ats, flat) /\ Is16(Len(flat)) /\ b = StunHeader(type, Len(flat), TxId) \o flat => MessageReads(type, ats, b)
<1> SUFFICES ASSUME NEW type \in StunTypes, NEW ats, NEW flat, NEW b
             PROVE  LaidOut(ats, flat) /\ Is16(Len(flat)) /\ b = StunHeader(type, Len(flat), TxId) \o flat
                      => MessageReads(type, ats, b)
  BY Zenon
<1>1. SUFFICES ASSUME LaidOut(ats, flat), Is16(Len(flat)), b = StunHeader(type, Len(flat), TxId) \o flat
               PROVE  MessageReads(type, ats, b)
  BY Zenon
<1>2. type \in Nat /\ Is16(type) /\ (type \div 256) % 256 \in Nat /\ (type \div 256) % 256 < 64
  BY StunTypesAre
<1>3. Reads(type, ats, flat, b)
  BY <1>1, <1>2, MessageRead
<1>4. /\ b \in Blob /\ Len(b) = 20 + Len(flat) /\ Uint16(b, 1) = type /\ b[1] = (type \div 256) % 256
      /\ SubSeq(b, 5, 8) = Cookie /\ ParseAttributes(b) = ats
  BY <1>1, <1>3, Zenon DEF Reads
<1>5. PICK l \in Nat : l = Len(flat)
  BY <1>1, LaidOutLengths
<1>6. PICK n \in Nat : n = Len(b) /\ n >= 20
  <2>1. Len(b) = 20 + l
    BY <1>4, <1>5, Zenon
  <2>2. 20 + l \in Nat /\ 20 + l >= 20
    OBVIOUS
  <2> QED
    BY <2>1, <2>2, Zenon
<1>7. PICK x \in Nat : x = b[1] /\ x < 64
  BY <1>2, <1>4, Zenon
<1>8. Route(b) = "none"
  BY <1>6, <1>7, StunGoesNowhere
<1>9. PICK parsed : parsed = ParseStunResponse(b)
  OBVIOUS
<1>10. parsed.type = Uint16(b, 1) /\ parsed.method = MethodOf(Uint16(b, 1)) /\ parsed.attrs = ParseAttributes(b)
  <2>1. Len(b) \in Nat /\ Len(b) >= 20 /\ SubSeq(b, 5, 8) = Cookie
    BY <1>4, <1>6, Zenon
  <2> QED
    BY <1>9, <2>1, ParsedIs
<1> QED
  BY <1>4, <1>8, <1>9, <1>10, Zenon DEF MessageReads

\* Records of a type and data.
LEMMA TypedRecords ==
  ASSUME NEW T, NEW D, NEW x \in [type : T, data : D]
  PROVE  x.type \in T /\ x.data \in D /\ x = Attribute(x.type, x.data)
BY DEF Attribute

\* The attributes of an answer that has a length of 16 bits are attributes.
AnsweredType == {v \in Nat : Is16(v)}
AnsweredSet == [type : AnsweredType, data : Blob]

LEMMA AnsweredAre ==
  ASSUME NEW ats \in Seq(AnsweredSet)
  PROVE  \E n \in Nat :
           /\ n = Len(ats) /\ DOMAIN ats = 1 .. n
           /\ \A i \in 1 .. n : /\ ats[i].type \in Nat /\ Is16(ats[i].type) /\ ats[i].data \in Blob
                                /\ ats[i] = Attribute(ats[i].type, ats[i].data)
<1>1. PICK n \in Nat : n = Len(ats) /\ DOMAIN ats = 1 .. n
  OBVIOUS
<1>2. ASSUME NEW i \in 1 .. n
      PROVE  /\ ats[i].type \in Nat /\ Is16(ats[i].type) /\ ats[i].data \in Blob
             /\ ats[i] = Attribute(ats[i].type, ats[i].data)
  <2>1. ats[i] \in AnsweredSet
    BY <1>1
  <2>2. PICK x : x = ats[i]
    OBVIOUS
  <2>3. x \in AnsweredSet
    BY <2>1, <2>2, Zenon
  <2>4. x.type \in AnsweredType /\ x.data \in Blob /\ x = Attribute(x.type, x.data)
    <3>1. x \in [type : AnsweredType, data : Blob]
      BY <2>3, Zenon DEF AnsweredSet
    <3> QED
      BY <3>1, TypedRecords
  <2>5. x.type \in Nat /\ Is16(x.type)
    BY <2>4, SMT DEF AnsweredType, Is16
  <2> QED
    BY <2>2, <2>4, <2>5, Zenon
<1> QED
  BY <1>1, <1>2, Zenon

LEMMA AnswerLaidOut ==
  ASSUME NEW ats \in Seq(AnsweredSet), Is16(Len(Encoded(ats)))
  PROVE  LaidOut(ats, Encoded(ats))
<1>1. PICK N \in Nat :
        /\ N = Len(ats) /\ DOMAIN ats = 1 .. N
        /\ \A i \in 1 .. N : /\ ats[i].type \in Nat /\ Is16(ats[i].type) /\ ats[i].data \in Blob
                             /\ ats[i] = Attribute(ats[i].type, ats[i].data)
  BY AnsweredAre, Zenon
<1>3. PICK ws : ws = Written(ats)
  OBVIOUS
<1>4. /\ ws \in Seq(Blob) /\ Len(ws) = N
      /\ \A i \in 1 .. N : ws[i] = EncodeAttribute(ats[i].type, ats[i].data)
  <2>1. ws = [i \in 1 .. N |-> EncodeAttribute(ats[i].type, ats[i].data)]
    BY <1>1, <1>3, Zenon DEF Written
  <2>2. \A i \in 1 .. N : ws[i] = EncodeAttribute(ats[i].type, ats[i].data)
    BY <2>1, Zenon
  <2>3. ws = [i \in 1 .. N |-> ws[i]]
    BY <2>1, Zenon
  <2>4. \A i \in 1 .. N : ws[i] \in Blob
    BY <1>1, <2>2, BlobAttribute, Zenon
  <2>7. ws \in Seq(Blob) /\ Len(ws) = N
    BY <2>3, <2>4, SequenceIs
  <2> QED
    BY <2>2, <2>7, Zenon
<1>5. PICK flat : flat = FlattenSeq(ws)
  OBVIOUS
<1>6. Encoded(ats) = flat
  BY <1>3, <1>5, Zenon DEF Encoded, Written
<1>7. flat \in Blob /\ \E f : Parts(f, ws, flat)
  BY <1>4, <1>5, PartsLaidOut, Zenon DEF Blob
<1>8. PICK f : Parts(f, ws, flat)
  BY <1>7
<1>9. PICK L \in Nat : L = Len(flat)
  BY <1>7, Joined
<1>10. Is16(L)
  BY <1>6, <1>9, Zenon
<1>11. ASSUME NEW i \in 1 .. N PROVE IsAttribute(ats[i])
  <2>1. PICK t \in Nat : t = ats[i].type /\ Is16(t)
    BY <1>1, Zenon
  <2>2. PICK d \in Blob : d = ats[i].data /\ ats[i] = Attribute(t, d)
    BY <1>1, <2>1, Zenon
  <2>4. PICK l \in Nat : l = Len(d)
    BY Joined
  <2>5. PICK p \in Nat : p = Padding(l)
    BY PaddingIs
  <2>6. ws[i] = EncodeAttribute(t, d)
    BY <1>4, <2>1, <2>2, Zenon
  <2>7. Len(ws[i]) = 4 + l + p
    BY <2>4, <2>5, <2>6, BlobAttribute, Zenon
  <2>8. PICK x \in 0 .. L, y \in 0 .. L : x = f[i] /\ y = f[i - 1] /\ x = y + Len(ws[i])
    <3>1. f \in [0 .. N -> 0 .. L] /\ \A j \in 1 .. N : f[j] = f[j - 1] + Len(ws[j])
      BY <1>4, <1>8, <1>9, Zenon DEF Parts
    <3>2. i \in 0 .. N /\ i - 1 \in 0 .. N
      BY SMT
    <3>3. f[i] \in 0 .. L /\ f[i - 1] \in 0 .. L /\ f[i] = f[i - 1] + Len(ws[i])
      BY <3>1, <3>2, Zenon
    <3> QED
      BY <3>3, Zenon
  <2>9. x = y + (4 + l + p)
    BY <2>7, <2>8, Zenon
  <2>10. l <= L
    BY <2>9, SMT
  <2>11. Is16(l)
    BY <1>10, <2>10, SMT DEF Is16
  <2>12. t \in Nat /\ d \in Seq(Octets) /\ Is16(Len(d))
    BY <2>4, <2>11, Zenon DEF Blob
  <2> QED
    BY <2>1, <2>2, <2>12, Zenon DEF IsAttribute
<1>12. AttributesOf(ats)
  BY <1>1, <1>11, Zenon DEF AttributesOf
<1> QED
  BY <1>12, EncodedLaidOut

LEMMA AnswerTyped ==
  ASSUME NEW a, IsAnswer(a)
  PROVE  a.type \in StunTypes /\ a.attrs \in Seq(AnsweredSet) /\ Is16(Len(Encoded(a.attrs)))
BY Zenon DEF IsAnswer, AnsweredSet, AnsweredType, Blob

LEMMA AnswerRead ==
  ASSUME NEW a \in Answers, Answer(a)
  PROVE  AllRead(wire')
<1>1. IsAnswer(a)
  BY WireAssumption, Zenon DEF InputsAreTyped
<1>2. PICK ats : ats = a.attrs
  OBVIOUS
<1>3. PICK type : type = a.type
  OBVIOUS
<1>4. type \in StunTypes /\ ats \in Seq(AnsweredSet) /\ Is16(Len(Encoded(ats)))
  BY <1>1, <1>2, <1>3, AnswerTyped
<1>5. PICK flat : flat = Encoded(ats)
  OBVIOUS
<1>6. LaidOut(ats, flat) /\ Is16(Len(flat))
  BY <1>4, <1>5, AnswerLaidOut
<1>7. PICK b : b = StunHeader(type, Len(flat), TxId) \o flat
  OBVIOUS
<1>8. MessageReads(type, ats, b)
  BY <1>4, <1>6, <1>7, MessageReadBack, Zenon
<1>9. PICK p : p = [kind |-> "answer", bytes |-> b, type |-> type, attrs |-> ats]
  OBVIOUS
<1>10. wire' = <<p>>
  BY <1>2, <1>3, <1>5, <1>7, <1>9, Zenon DEF Answer
<1>11. p.kind = "answer" /\ p.bytes = b /\ p.type = type /\ p.attrs = ats
  BY <1>9
<1>12. AnswerReadsBack(p)
  BY <1>8, <1>11, Zenon DEF AnswerReadsBack, MessageReads
<1>13. "answer" # "stun" /\ "answer" # "ping" /\ "answer" # "pong" /\ "answer" # "rtp"
  OBVIOUS
<1>14. PacketReadsBack(p)
  BY <1>11, <1>12, <1>13, SMT DEF PacketReadsBack
<1> QED
  BY <1>10, <1>14, AllReadOne

LEMMA PingRead ==
  ASSUME SendPing
  PROVE  AllRead(wire')
<1>1. LaidOut(<<>>, <<>>)
  <2>1. <<>> \in Seq({}) /\ <<>> \in Seq(Octets) /\ Len(<<>>) = 0 /\ DOMAIN <<>> = {}
    OBVIOUS
  <2>2. \A i \in 1 .. 0 : FALSE
    OBVIOUS
  <2>3. AttributesOf(<<>>)
    BY <2>1, <2>2, Zenon DEF AttributesOf
  <2>4. Written(<<>>) = <<>>
    BY DEF Written
  <2> QED
    BY <2>1, <2>3, <2>4, PartsNone DEF LaidOut
<1>2. Len(<<>>) = 0 /\ Is16(0) /\ 2049 \in StunTypes /\ 2049 \in Nat /\ 0 \in Nat
  BY SMT DEF Is16, StunTypes
<1>3. PICK b : b = BuildPing
  OBVIOUS
<1>4. b = StunHeader(2049, Len(<<>>), TxId) \o <<>>
  <2>1. b = StunHeader(2049, 0, TxId)
    BY <1>3 DEF BuildPing
  <2>2. TxId \in Blob
    BY TxIdIs
  <2>3. StunHeader(2049, 0, TxId) \in Blob
    BY <1>2, <2>2, BlobHeader, SMT
  <2>4. b \o <<>> = b
    BY <2>1, <2>3, NoBytes
  <2> QED
    BY <1>2, <2>1, <2>4, SMT
<1>5. MessageReads(2049, <<>>, b)
  <2>1. PICK t : t = 2049
    OBVIOUS
  <2>2. t \in StunTypes /\ b = StunHeader(t, Len(<<>>), TxId) \o <<>> /\ Is16(Len(<<>>))
    BY <1>2, <1>4, <2>1, SMT
  <2>3. MessageReads(t, <<>>, b)
    BY <1>1, <2>2, MessageReadBack, Zenon
  <2> QED
    BY <2>1, <2>3, SMT
<1>6. MethodOf(2049) = 2049
  BY SMT DEF MethodOf, PingTypes
<1>7. PICK p : p = [kind |-> "ping", bytes |-> b]
  OBVIOUS
<1>8. wire' = <<p>> /\ p.kind = "ping" /\ p.bytes = b
  BY <1>3, <1>7 DEF SendPing
<1>9. PingReadsBack(p, 2049)
  BY <1>5, <1>6, <1>8, SMT DEF PingReadsBack, MessageReads
<1>10. "ping" # "stun" /\ "ping" # "answer" /\ "ping" # "pong" /\ "ping" # "rtp"
  OBVIOUS
<1>11. PacketReadsBack(p)
  BY <1>8, <1>9, <1>10, SMT DEF PacketReadsBack
<1> QED
  BY <1>8, <1>11, AllReadOne

LEMMA ShortPingParsed ==
  ASSUME NEW b, ~(Len(b) < 20), SubSeq(b, 5, 8) # Cookie, NEW t, t = Uint16(b, 1), t \in PingTypes
  PROVE  ParseStunResponse(b).method = t
<1>1. ParseStunResponse(b) = [Unparsed EXCEPT !.type = t, !.class = "indication", !.method = t]
  BY Zenon DEF ParseStunResponse
<1> QED
  BY <1>1 DEF Unparsed

TwoOctets(s, x, y) == s \in Seq(Octets) /\ Len(s) = 2 /\ s[1] = x /\ s[2] = y

Padded(n, v, x, y) ==
    \E b \in Seq(Octets) :
      /\ b = Field16(v) \o Zeros(n) /\ Len(b) = 2 + n
      /\ b[1] = x /\ b[2] = y /\ b[5] = 0

LEMMA ZeroPadded ==
  ASSUME NEW n \in Nat, n >= 3, NEW v, NEW x, NEW y, TwoOctets(Field16(v), x, y)
  PROVE  Padded(n, v, x, y)
<1>2. PICK s \in Seq(Octets) : s = Field16(v) /\ Len(s) = 2 /\ s[1] = x /\ s[2] = y
  BY Zenon DEF TwoOctets
<1>3. PICK z \in Seq(Octets) : z = Zeros(n) /\ Len(z) = n
  BY ZerosAre
<1>4. z[3] = 0
  BY <1>3 DEF Zeros
<1>5. PICK b : b = s \o z
  OBVIOUS
<1>6. /\ b \in Seq(Octets) /\ Len(b) = 2 + n
      /\ (\A e \in 1 .. 2 : b[e] = s[e]) /\ \A e \in 1 .. n : b[2 + e] = z[e]
  <2>1. /\ b \in Seq(Octets) /\ Len(b) = Len(s) + Len(z)
        /\ (\A e \in 1 .. Len(s) : b[e] = s[e]) /\ \A e \in 1 .. Len(z) : b[Len(s) + e] = z[e]
    BY <1>5, BytesTwo
  <2> QED
    BY <1>2, <1>3, <2>1, Zenon
<1>7. 1 \in 1 .. 2 /\ 2 \in 1 .. 2 /\ 3 \in 1 .. n /\ 2 + 3 = 5
  OBVIOUS
<1>8. b[1] = s[1] /\ b[2] = s[2] /\ b[2 + 3] = z[3]
  BY <1>6, <1>7, Zenon
<1> QED
  BY <1>2, <1>3, <1>4, <1>5, <1>6, <1>7, <1>8, Zenon DEF Padded

LEMMA PongRead ==
  ASSUME Pong
  PROVE  AllRead(wire')
<1>1. PICK n \in Nat : n = 18 /\ 2 + n = 20 /\ n >= 3
  BY SMT
<1>2. PICK v \in Nat : v = 2050 /\ (v \div 256) % 256 = 8 /\ v % 256 = 2 /\ v \in PingTypes /\ v = 8 * 256 + 2
  BY SMT DEF PingTypes
<1>5. wire' = <<[kind |-> "pong", bytes |-> Field16(v) \o Zeros(n)]>>
  BY <1>1, <1>2, SMT DEF Pong
<1>3. PICK b \in Seq(Octets) : b = Field16(v) \o Zeros(n) /\ Len(b) = 20 /\ b[1] = 8 /\ b[2] = 2 /\ b[5] = 0
  <2>0. n >= 3
    BY <1>1, Zenon
  <2>1. 2 + n = 20
    BY <1>1
  <2>2. PICK x, y \in Nat : x = 8 /\ y = 2 /\ (v \div 256) % 256 = x /\ v % 256 = y
    BY <1>2
  <2>3. TwoOctets(Field16(v), x, y)
    <3>1. /\ Field16(v) \in Seq(Octets) /\ Len(Field16(v)) = 2
          /\ Field16(v)[1] = (v \div 256) % 256 /\ Field16(v)[2] = v % 256
      BY Field16Bytes
    <3> QED
      BY <2>2, <3>1 DEF TwoOctets
  <2>4. PICK b \in Seq(Octets) : /\ b = Field16(v) \o Zeros(n) /\ Len(b) = 2 + n
                                /\ b[1] = x /\ b[2] = y /\ b[5] = 0
    <3>1. Padded(n, v, x, y)
      BY <2>0, <2>3, ZeroPadded, Zenon
    <3> QED
      BY <3>1, Zenon DEF Padded
  <2> QED
    BY <2>1, <2>2, <2>4, Zenon
<1>4. wire' = <<[kind |-> "pong", bytes |-> b]>>
  BY <1>3, <1>5, Zenon
<1>6. SubSeq(b, 5, 8) # Cookie
  <2>1. SubSeq(b, 5, 8)[1] = b[5]
    BY <1>3
  <2>2. Cookie[1] = 33
    BY DEF Cookie
  <2>3. SubSeq(b, 5, 8)[1] = 0
    BY <1>3, <2>1, Zenon
  <2>4. 0 # 33
    OBVIOUS
  <2> QED
    BY <2>2, <2>3, <2>4, Zenon
<1>7. Uint16(b, 1) = v
  BY <1>2, <1>3, SMT DEF Uint16
<1>8. ParseStunResponse(b).method = v
  <2>1. ~(Len(b) < 20)
    BY <1>3
  <2> QED
    BY <1>2, <1>6, <1>7, <2>1, ShortPingParsed
<1>9. Route(b) = "none"
  <2>1. 20 \in Nat /\ 20 >= 20 /\ 8 \in Nat /\ 8 < 64
    OBVIOUS
  <2> QED
    BY <1>3, <2>1, StunGoesNowhere
<1>10. PICK p : p = [kind |-> "pong", bytes |-> b]
  OBVIOUS
<1>11. wire' = <<p>> /\ p.kind = "pong" /\ p.bytes = b
  BY <1>4, <1>10
<1>12. PingReadsBack(p, v)
  BY <1>8, <1>9, <1>11, Zenon DEF PingReadsBack
<1>13. "pong" # "stun" /\ "pong" # "answer" /\ "pong" # "ping" /\ "pong" # "rtp"
  OBVIOUS
<1>14. PacketReadsBack(p)
  <2>1. PingReadsBack(p, 2050)
    BY <1>2, <1>12, SMT
  <2> QED
    BY <1>11, <1>13, <2>1, SMT DEF PacketReadsBack
<1> QED
  BY <1>11, <1>14, AllReadOne

-----------------------------------------------------------------------------
(* RTP.                                                                    *)

LEMMA BlobField32 == \A v : Is32(v) => v \in Nat /\ Field32(v) \in Blob /\ Len(Field32(v)) = 4
<1> SUFFICES ASSUME NEW v, Is32(v) PROVE v \in Nat /\ Field32(v) \in Blob /\ Len(Field32(v)) = 4
  BY Zenon
<1>1. v \in Nat
  BY SMT DEF Is32
<1> QED
  BY <1>1, Field32Bytes DEF Blob

LEMMA BlobRead16 == \A b \in Blob, o \in Nat, v \in Nat : Is16(v) /\ Holds(b, o, Field16(v)) => Uint16(b, o + 1) = v
  BY Field16Read

LEMMA BlobRead32 == \A b \in Blob, o \in Nat : \A v : Is32(v) /\ Holds(b, o, Field32(v)) => Uint32(b, o + 1) = v
<1> SUFFICES ASSUME NEW b \in Blob, NEW o \in Nat, NEW v
             PROVE  Is32(v) /\ Holds(b, o, Field32(v)) => Uint32(b, o + 1) = v
  BY Zenon
<1>1. SUFFICES ASSUME Is32(v), Holds(b, o, Field32(v)) PROVE Uint32(b, o + 1) = v
  BY Zenon
<1>2. v \in Nat /\ v \div 65536 < 65536
  BY <1>1, SMT DEF Is32
<1>3. b \in Seq(Octets)
  BY BlobOf
<1> QED
  BY <1>1, <1>2, <1>3, Field32Read

LEMMA BlobCut ==
  \A b, s \in Blob, o \in Nat :
    Holds(b, o, s) => /\ SubSeq(b, o + 1, o + Len(s)) = s /\ o + Len(s) <= Len(b)
                      /\ \A x \in 1 .. Len(s) : b[o + x] = s[x]
  BY HoldsCut DEF Blob, Holds

\* The parts of a packet, one after the other.
Held(H, s, t, r, c, e, p, b, n, m) ==
    /\ b \in Blob /\ Len(b) = 12 + n + m + Len(p)
    /\ Holds(b, 0, H) /\ Holds(b, 2, s) /\ Holds(b, 4, t) /\ Holds(b, 8, r) /\ Holds(b, 12, c)
    /\ Holds(b, 12 + n, e) /\ Drop(b, 12 + n + m) = p

LEMMA Down == \A b, s, t \in Blob : Holds(b, 0, s \o t) => Holds(b, 0, s) /\ Holds(b, Len(s), t)
<1> SUFFICES ASSUME NEW b \in Blob, NEW s \in Blob, NEW t \in Blob
             PROVE  Holds(b, 0, s \o t) => Holds(b, 0, s) /\ Holds(b, Len(s), t)
  BY Zenon
<1>1. 0 \in Nat /\ Len(s) \in Nat /\ 0 + Len(s) = Len(s)
  BY Joined
<1>2. PICK o \in Nat : o = 0
  OBVIOUS
<1>3. Holds(b, o, s \o t) => Holds(b, o, s) /\ Holds(b, o + Len(s), t)
  BY BlobHoldsTwo
<1>4. o + Len(s) = Len(s)
  BY <1>1, <1>2
<1> QED
  BY <1>2, <1>3, <1>4

LEMMA PartsHeld ==
  \A H, s, t, r, c, e, p \in Blob, n, m \in Nat :
    Len(H) = 2 /\ Len(s) = 2 /\ Len(t) = 4 /\ Len(r) = 4 /\ Len(c) = n /\ Len(e) = m
      => Held(H, s, t, r, c, e, p, H \o s \o t \o r \o c \o e \o p, n, m)
<1> SUFFICES ASSUME NEW H \in Blob, NEW s \in Blob, NEW t \in Blob, NEW r \in Blob, NEW c \in Blob, NEW e \in Blob,
                    NEW p \in Blob, NEW n \in Nat, NEW m \in Nat
             PROVE  Len(H) = 2 /\ Len(s) = 2 /\ Len(t) = 4 /\ Len(r) = 4 /\ Len(c) = n /\ Len(e) = m
                      => Held(H, s, t, r, c, e, p, H \o s \o t \o r \o c \o e \o p, n, m)
  BY Zenon
<1>1. SUFFICES ASSUME Len(H) = 2, Len(s) = 2, Len(t) = 4, Len(r) = 4, Len(c) = n, Len(e) = m
               PROVE  Held(H, s, t, r, c, e, p, H \o s \o t \o r \o c \o e \o p, n, m)
  BY Zenon
<1>2. PICK p1 : p1 = H \o s
  OBVIOUS
<1>3. PICK p2 : p2 = p1 \o t
  OBVIOUS
<1>4. PICK p3 : p3 = p2 \o r
  OBVIOUS
<1>5. PICK p4 : p4 = p3 \o c
  OBVIOUS
<1>6. PICK p5 : p5 = p4 \o e
  OBVIOUS
<1>7. PICK b : b = p5 \o p
  OBVIOUS
<1>8. 2 + 2 = 4 /\ 4 + 4 = 8 /\ 8 + 4 = 12
  OBVIOUS
<1>9. p1 \in Blob /\ Len(p1) = 4
  <2>1. p1 \in Blob /\ Len(p1) = Len(H) + Len(s)
    BY <1>2, Joined
  <2>2. Len(p1) = 4
    BY <1>1, <2>1, SMT
  <2> QED
    BY <2>1, <2>2, Zenon
<1>10. p2 \in Blob /\ Len(p2) = 8
  BY <1>1, <1>3, <1>8, <1>9, Joined, Zenon
<1>11. p3 \in Blob /\ Len(p3) = 12
  BY <1>1, <1>4, <1>8, <1>10, Joined, Zenon
<1>12. p4 \in Blob /\ Len(p4) = 12 + n
  BY <1>1, <1>5, <1>11, Joined, Zenon
<1>13. p5 \in Blob /\ Len(p5) = 12 + n + m
  BY <1>1, <1>6, <1>12, Joined, Zenon
<1>14. b \in Blob /\ Len(b) = 12 + n + m + Len(p)
  BY <1>7, <1>13, Joined, Zenon
<1>15. Holds(b, 0, p5) /\ Drop(b, 12 + n + m) = p
  <2>1. Holds(b, 0, p5) /\ SubSeq(b, Len(p5) + 1, Len(b)) = p
    BY <1>7, <1>13, BlobHolds, BlobRest, Zenon
  <2> QED
    BY <1>13, <2>1, Zenon DEF Drop
<1>16. Holds(b, 0, p4) /\ Holds(b, 12 + n, e)
  BY <1>6, <1>12, <1>14, <1>15, Down, Zenon
<1>17. Holds(b, 0, p3) /\ Holds(b, 12, c)
  BY <1>5, <1>11, <1>14, <1>16, Down, Zenon
<1>18. Holds(b, 0, p2) /\ Holds(b, 8, r)
  BY <1>4, <1>10, <1>14, <1>17, Down, Zenon
<1>19. Holds(b, 0, p1) /\ Holds(b, 4, t)
  BY <1>3, <1>9, <1>14, <1>18, Down, Zenon
<1>20. Holds(b, 0, H) /\ Holds(b, 2, s)
  BY <1>1, <1>2, <1>14, <1>19, Down, Zenon
<1>21. b = H \o s \o t \o r \o c \o e \o p
  BY <1>2, <1>3, <1>4, <1>5, <1>6, <1>7, Zenon
<1>22. Held(H, s, t, r, c, e, p, b, n, m)
  BY <1>14, <1>15, <1>16, <1>17, <1>18, <1>19, <1>20, Zenon DEF Held
<1> QED
  BY <1>21, <1>22, Zenon

\* The contributing sources: four bytes to each.
Sources(csrc) == FlattenSeq([i \in DOMAIN csrc |-> Field32(csrc[i])])

LEMMA SourcesRead ==
  ASSUME NEW csrc \in Seq(Nat), \A i \in DOMAIN csrc : Is32(csrc[i]), NEW k \in Nat, k = Len(csrc)
  PROVE  /\ Sources(csrc) \in Blob /\ Len(Sources(csrc)) = 4 * k
         /\ \A b \in Blob : Holds(b, 12, Sources(csrc)) => [i \in 1 .. k |-> Uint32(b, 9 + 4 * i)] = csrc
<1>1. DOMAIN csrc = 1 .. k /\ csrc = [i \in 1 .. k |-> csrc[i]]
  OBVIOUS
<1>2. PICK ss : ss = [i \in DOMAIN csrc |-> Field32(csrc[i])]
  OBVIOUS
<1>3. ss = [i \in 1 .. k |-> Field32(csrc[i])]
  BY <1>1, <1>2, Zenon
<1>4. \A i \in 1 .. k : ss[i] = Field32(csrc[i])
  BY <1>3, Zenon
<1>5. \A i \in 1 .. k : Is32(csrc[i]) /\ ss[i] \in Blob /\ Len(ss[i]) = 4
  <2>1. ASSUME NEW i \in 1 .. k PROVE Is32(csrc[i]) /\ ss[i] \in Blob /\ Len(ss[i]) = 4
    <3>1. Is32(csrc[i]) /\ ss[i] = Field32(csrc[i])
      BY <1>1, <1>4, Zenon
    <3>2. Field32(csrc[i]) \in Blob /\ Len(Field32(csrc[i])) = 4
      BY <3>1, BlobField32, Zenon
    <3> QED
      BY <3>1, <3>2, Zenon
  <2> QED
    BY <2>1, Zenon
<1>6. ss = [i \in 1 .. k |-> ss[i]]
  BY <1>3, Zenon
<1>7. ss \in Seq(Blob) /\ Len(ss) = k
  BY <1>5, <1>6, SequenceIs
<1>8. PICK c : c = Sources(csrc)
  OBVIOUS
<1>9. c = FlattenSeq(ss)
  BY <1>2, <1>8, Zenon DEF Sources
<1>10. c \in Blob /\ \E f : Parts(f, ss, c)
  BY <1>7, <1>9, PartsLaidOut, Zenon DEF Blob
<1>11. PICK f : Parts(f, ss, c)
  BY <1>10
<1>12. /\ f[0] = 0 /\ f[k] = Len(c)
       /\ \A i \in 1 .. k : f[i] = f[i - 1] + 4
  BY <1>5, <1>7, <1>11, Zenon DEF Parts
<1>13. \A i \in 0 .. k : f[i] = 4 * i
  <2> DEFINE P == {i \in 0 .. k : f[i] = 4 * i}
  <2>1. 0 \in P
    BY <1>12
  <2>2. \A i \in 1 .. k : i - 1 \in P => i \in P
    BY <1>12
  <2> HIDE DEF P
  <2>3. 0 .. k \subseteq P
    BY <2>1, <2>2, AllUpTo
  <2> QED
    BY <2>3 DEF P
<1>14. Len(c) = 4 * k
  BY <1>12, <1>13
<1>15. ASSUME NEW b \in Blob, Holds(b, 12, c) PROVE [i \in 1 .. k |-> Uint32(b, 9 + 4 * i)] = csrc
  <2>1. ASSUME NEW i \in 1 .. k PROVE Uint32(b, 9 + 4 * i) = csrc[i]
    <3>1. PICK o \in Nat : o = 12 + f[i - 1] /\ o + 1 = 9 + 4 * i
      <4>1. i - 1 \in 0 .. k /\ 12 + 4 * (i - 1) \in Nat /\ 12 + 4 * (i - 1) + 1 = 9 + 4 * i
        OBVIOUS
      <4> QED
        BY <1>13, <4>1, Zenon
    <3>2. Holds(b, o, ss[i])
      <4>1. /\ Parts(f, ss, c) /\ Holds(b, 12, c) /\ i \in 1 .. Len(ss) /\ 12 \in Nat
            /\ ss \in Seq(Seq(Octets)) /\ c \in Seq(Octets) /\ b \in Seq(Octets)
        BY <1>7, <1>10, <1>11, <1>15 DEF Blob
      <4>2. Holds(b, 12 + f[i - 1], ss[i])
        BY <4>1, HoldsPart
      <4> QED
        BY <3>1, <4>2, Zenon
    <3>3. Uint32(b, o + 1) = csrc[i]
      BY <1>4, <1>5, <3>2, BlobRead32, Zenon
    <3> QED
      BY <3>1, <3>3, Zenon
  <2>2. [i \in 1 .. k |-> Uint32(b, 9 + 4 * i)] = [i \in 1 .. k |-> csrc[i]]
    BY <2>1, Zenon
  <2> QED
    BY <1>1, <2>2, Zenon
<1> QED
  BY <1>8, <1>10, <1>14, <1>15, Zenon

\* The two first bytes of a packet.
LEMMA BitIs == \A x \in BOOLEAN : Bit(x) \in {0, 1} /\ (Bit(x) = 1) = x
<1>1. Bit(TRUE) = 1 /\ Bit(FALSE) = 0 /\ (1 = 1) = TRUE /\ (0 = 1) = FALSE
  BY DEF Bit
<1>2. (Bit(TRUE) = 1) = TRUE /\ (Bit(FALSE) = 1) = FALSE
  BY DEF Bit
<1> QED
  BY <1>1, <1>2

FirstSays(x, p, e, k) ==
    x \in Octets /\ x % 16 = k /\ x \div 64 = 2 /\ ~(x < 64) /\ (x \div 32) % 2 = p /\ (x \div 16) % 2 = e

LEMMA FirstByte == \A p, e \in {0, 1}, k \in Nat : k < 16 => FirstSays(128 + 32 * p + 16 * e + k, p, e, k)
<1> SUFFICES ASSUME NEW p \in {0, 1}, NEW e \in {0, 1}, NEW k \in Nat, k < 16
             PROVE  FirstSays(128 + 32 * p + 16 * e + k, p, e, k)
  OBVIOUS
<1>1. CASE p = 0 /\ e = 0
  BY <1>1, SMT DEF Octets, FirstSays
<1>2. CASE p = 0 /\ e = 1
  BY <1>2, SMT DEF Octets, FirstSays
<1>3. CASE p = 1 /\ e = 0
  BY <1>3, SMT DEF Octets, FirstSays
<1>4. CASE p = 1 /\ e = 1
  BY <1>4, SMT DEF Octets, FirstSays
<1> QED
  BY <1>1, <1>2, <1>3, <1>4

SecondSays(y, m, pt) == y \in Octets /\ y % 128 = pt /\ (y >= 128 <=> m = 1)

LEMMA SecondByte == \A m \in {0, 1}, pt \in 0 .. 127 : SecondSays(128 * m + pt, m, pt)
<1> SUFFICES ASSUME NEW m \in {0, 1}, NEW pt \in 0 .. 127 PROVE SecondSays(128 * m + pt, m, pt)
  OBVIOUS
<1>1. CASE m = 0
  BY <1>1, SMT DEF Octets, SecondSays
<1>2. CASE m = 1
  BY <1>2, SMT DEF Octets, SecondSays
<1> QED
  BY <1>1, <1>2

\* An extension and its length in words.
Extension(ext, words) == IF ext THEN Field16(48862) \o Field16(Len(words) \div 4) \o words ELSE <<>>

\* What a reader of it at an offset sees.
ExtensionSays(ext, words, b, o) ==
    /\ words = (IF ext /\ Len(b) >= o + 4 /\ Len(b) >= o + 4 + 4 * Uint16(b, o + 3)
                THEN SubSeq(b, o + 5, o + 4 + 4 * Uint16(b, o + 3)) ELSE <<>>)
    /\ Len(Extension(ext, words)) = (IF ext THEN 4 + Len(words) ELSE 0)

LEMMA ExtensionRead ==
  \A ext \in BOOLEAN : \A words \in Blob :
    Len(words) % 4 = 0 /\ Is16(Len(words) \div 4) /\ (~ext => words = <<>>)
      => /\ Extension(ext, words) \in Blob
         /\ Len(Extension(ext, words)) = (IF ext THEN 4 + Len(words) ELSE 0)
         /\ \A b \in Blob, o \in Nat : Holds(b, o, Extension(ext, words)) => ExtensionSays(ext, words, b, o)
<1> SUFFICES ASSUME NEW ext \in BOOLEAN, NEW words \in Blob
             PROVE  Len(words) % 4 = 0 /\ Is16(Len(words) \div 4) /\ (~ext => words = <<>>)
                    => /\ Extension(ext, words) \in Blob
                       /\ Len(Extension(ext, words)) = (IF ext THEN 4 + Len(words) ELSE 0)
                       /\ \A b \in Blob, o \in Nat :
                            Holds(b, o, Extension(ext, words)) => ExtensionSays(ext, words, b, o)
  BY Zenon
<1>1. SUFFICES ASSUME Len(words) % 4 = 0, Is16(Len(words) \div 4), ~ext => words = <<>>
               PROVE  /\ Extension(ext, words) \in Blob
                      /\ Len(Extension(ext, words)) = (IF ext THEN 4 + Len(words) ELSE 0)
                      /\ \A b \in Blob, o \in Nat :
                           Holds(b, o, Extension(ext, words)) => ExtensionSays(ext, words, b, o)
  BY Zenon
<1>2. CASE ~ext
  <2>1. Extension(ext, words) = <<>>
    BY <1>2, SMT DEF Extension
  <2>2. <<>> \in Blob /\ Len(<<>>) = 0
    BY NoBytes
  <2>3. Len(Extension(ext, words)) = (IF ext THEN 4 + Len(words) ELSE 0)
    BY <1>2, <2>1, <2>2, Zenon
  <2>4. \A b, o : ExtensionSays(ext, words, b, o)
    BY <1>1, <1>2, <2>3, Zenon DEF ExtensionSays
  <2> QED
    BY <2>1, <2>2, <2>3, <2>4, Zenon
<1>3. CASE ext
  <2>1. PICK l \in Nat : l = Len(words)
    BY Joined
  <2>2. PICK q \in Nat : q = Len(words) \div 4 /\ l = 4 * q /\ Is16(q)
    <3>1. l \div 4 \in Nat /\ l = 4 * (l \div 4)
      BY <1>1, <2>1, SMT
    <3> QED
      BY <1>1, <2>1, <3>1, Zenon
  <2>3. PICK u \in Blob : u = Field16(48862) /\ Len(u) = 2
    <3>1. 48862 \in Nat
      BY SMT
    <3> QED
      BY <3>1, BlobField16, SMT
  <2>4. PICK v \in Blob : v = Field16(q) /\ Len(v) = 2
    BY BlobField16
  <2>5. PICK w : w = u \o v
    OBVIOUS
  <2>6. w \in Blob /\ Len(w) = Len(u) + Len(v)
    BY <2>5, Joined
  <2>7. Len(w) = 4
    BY <2>3, <2>4, <2>6, SMT
  <2>8. PICK e : e = w \o words
    OBVIOUS
  <2>9. Extension(ext, words) = e
    <3>1. Extension(ext, words) = Field16(48862) \o Field16(Len(words) \div 4) \o words
      BY <1>3, SMT DEF Extension
    <3> QED
      BY <2>2, <2>3, <2>4, <2>5, <2>8, <3>1, SMT
  <2>10. e \in Blob /\ Len(e) = 4 + l
    BY <2>1, <2>6, <2>7, <2>8, Joined, Zenon
  <2>11. ASSUME NEW b \in Blob, NEW o \in Nat, Holds(b, o, e) PROVE ExtensionSays(ext, words, b, o)
    <3>1. Holds(b, o, w) /\ Holds(b, o + Len(w), words)
      BY <2>6, <2>8, <2>11, BlobHoldsTwo
    <3>2. Holds(b, o, u) /\ Holds(b, o + Len(u), v)
      BY <2>5, <3>1, BlobHoldsTwo
    <3>3. PICK o2 \in Nat : o2 = o + 2 /\ o2 + 1 = o + 3
      OBVIOUS
    <3>4. PICK o4 \in Nat : o4 = o + 4 /\ o4 + 1 = o + 5
      OBVIOUS
    <3>5. Holds(b, o2, Field16(q))
      <4>2. Len(u) = 2
        BY <2>3, SMT
      <4>1. o + Len(u) = o2
        BY <3>3, <4>2, Zenon
      <4> QED
        BY <2>4, <3>2, <4>1, Zenon
    <3>6. Uint16(b, o2 + 1) = q
      BY <2>2, <3>5, BlobRead16
    <3>7. Uint16(b, o + 3) = q
      BY <3>3, <3>6, Zenon
    <3>8. Holds(b, o4, words)
      BY <2>7, <3>1, <3>4, Zenon
    <3>9. SubSeq(b, o4 + 1, o4 + Len(words)) = words /\ o4 + Len(words) <= Len(b)
      BY <3>8, BlobCut
    <3>10. PICK n \in Nat : n = Len(b)
      BY Joined
    <3>11. n >= o + 4 + 4 * q /\ n >= o + 4
      BY <2>1, <2>2, <3>4, <3>9, <3>10, SMT
    <3>12. SubSeq(b, o + 5, o + 4 + 4 * q) = words
      <4>1. o4 + Len(words) = o + 4 + 4 * q
        BY <2>1, <2>2, <3>4, SMT
      <4> QED
        BY <3>4, <3>9, <4>1, Zenon
    <3>13. Len(Extension(ext, words)) = (IF ext THEN 4 + Len(words) ELSE 0)
      BY <1>3, <2>1, <2>9, <2>10, Zenon
    <3>14. words = (IF ext /\ Len(b) >= o + 4 /\ Len(b) >= o + 4 + 4 * Uint16(b, o + 3)
                    THEN SubSeq(b, o + 5, o + 4 + 4 * Uint16(b, o + 3)) ELSE <<>>)
      BY <1>3, <3>7, <3>10, <3>11, <3>12, Zenon
    <3> QED
      BY <3>13, <3>14, Zenon DEF ExtensionSays
  <2>12. Len(Extension(ext, words)) = (IF ext THEN 4 + Len(words) ELSE 0)
    BY <1>3, <2>1, <2>9, <2>10, Zenon
  <2> QED
    BY <2>9, <2>10, <2>11, <2>12, Zenon
<1> QED
  BY <1>2, <1>3, Zenon

\* The fields of a header.
LEMMA HeaderFields ==
  ASSUME NEW A, NEW B, NEW C, NEW D, NEW E, NEW F, NEW G, NEW I, NEW J,
         NEW h \in [pt : A, marker : B, csrc : C, ext : D, words : E, pad : F, seq : G, ts : I, ssrc : J]
  PROVE  /\ h.pt \in A /\ h.marker \in B /\ h.csrc \in C /\ h.ext \in D /\ h.words \in E /\ h.pad \in F
         /\ h.seq \in G
         /\ h = [pt |-> h.pt, marker |-> h.marker, pad |-> h.pad, ext |-> h.ext, words |-> h.words, seq |-> h.seq,
                 ts |-> h.ts, ssrc |-> h.ssrc, csrc |-> h.csrc]
OBVIOUS

LEMMA HeaderTyped ==
  ASSUME NEW h, IsHeader(h)
  PROVE  /\ h.pt \in 0 .. 127 /\ h.marker \in BOOLEAN /\ h.csrc \in Seq(Nat) /\ h.ext \in BOOLEAN
         /\ h.words \in Blob /\ h.pad \in BOOLEAN /\ h.seq \in Nat
         /\ Is16(h.seq) /\ Is32(h.ts) /\ Is32(h.ssrc) /\ Len(h.csrc) < 16 /\ \A i \in DOMAIN h.csrc : Is32(h.csrc[i])
         /\ Len(h.words) % 4 = 0 /\ Is16(Len(h.words) \div 4) /\ (~h.ext => h.words = <<>>)
         /\ h = [pt |-> h.pt, marker |-> h.marker, pad |-> h.pad, ext |-> h.ext, words |-> h.words, seq |-> h.seq,
                 ts |-> h.ts, ssrc |-> h.ssrc, csrc |-> h.csrc]
<1>1. h \in [pt : 0 .. 127, marker : BOOLEAN, csrc : Seq(Nat), ext : BOOLEAN, words : Seq(Octets),
             pad : BOOLEAN, seq : Nat, ts : Nat, ssrc : Nat]
  BY Zenon DEF IsHeader
<1>2. /\ Is16(h.seq) /\ Is32(h.ts) /\ Is32(h.ssrc) /\ Len(h.csrc) < 16 /\ \A i \in DOMAIN h.csrc : Is32(h.csrc[i])
      /\ Len(h.words) % 4 = 0 /\ Is16(Len(h.words) \div 4) /\ (~h.ext => h.words = <<>>)
  BY Zenon DEF IsHeader
<1>3. /\ h.pt \in 0 .. 127 /\ h.marker \in BOOLEAN /\ h.csrc \in Seq(Nat) /\ h.ext \in BOOLEAN
      /\ h.words \in Seq(Octets) /\ h.pad \in BOOLEAN /\ h.seq \in Nat
      /\ h = [pt |-> h.pt, marker |-> h.marker, pad |-> h.pad, ext |-> h.ext, words |-> h.words, seq |-> h.seq,
              ts |-> h.ts, ssrc |-> h.ssrc, csrc |-> h.csrc]
  BY <1>1, HeaderFields
<1> QED
  BY <1>2, <1>3, BlobOf, Zenon

\* What a packet that is long enough is decoded into.
Decodes(b, k, o, ext, words, pt, marker, pad, seq, ts, ssrc, csrc, n) ==
    /\ k = b[1] % 16 /\ o = 12 + 4 * k /\ ~(Len(b) < 12) /\ b[1] \div 64 = 2 /\ ~(Len(b) < o)
    /\ ~(ext /\ Len(b) < o + 4)
    /\ ((b[1] \div 16) % 2 = 1) = ext /\ ((b[1] \div 32) % 2 = 1) = pad
    /\ words = (IF ext /\ Len(b) >= o + 4 /\ Len(b) >= o + 4 + 4 * Uint16(b, o + 3)
                THEN SubSeq(b, o + 5, o + 4 + 4 * Uint16(b, o + 3)) ELSE <<>>)
    /\ b[2] % 128 = pt /\ (b[2] >= 128) = marker
    /\ Uint16(b, 3) = seq /\ Uint32(b, 5) = ts /\ Uint32(b, 9) = ssrc
    /\ [i \in 1 .. k |-> Uint32(b, 9 + 4 * i)] = csrc /\ o + (IF ext THEN 4 + Len(words) ELSE 0) = n
    => DecodeRtp(b) = [h |-> [pt |-> pt, marker |-> marker, pad |-> pad, ext |-> ext, words |-> words,
                              seq |-> seq, ts |-> ts, ssrc |-> ssrc, csrc |-> csrc], payload |-> Drop(b, n)]

LEMMA DecodedIs ==
  ASSUME NEW b, NEW k, NEW o, NEW ext, NEW words, NEW pt, NEW marker, NEW pad, NEW seq, NEW ts, NEW ssrc, NEW csrc, NEW n
  PROVE  Decodes(b, k, o, ext, words, pt, marker, pad, seq, ts, ssrc, csrc, n)
<1>10. SUFFICES ASSUME
         k = b[1] % 16, o = 12 + 4 * k, ~(Len(b) < 12), b[1] \div 64 = 2, ~(Len(b) < o),
         ~(ext /\ Len(b) < o + 4),
         ((b[1] \div 16) % 2 = 1) = ext, ((b[1] \div 32) % 2 = 1) = pad,
         words = (IF ext /\ Len(b) >= o + 4 /\ Len(b) >= o + 4 + 4 * Uint16(b, o + 3)
                  THEN SubSeq(b, o + 5, o + 4 + 4 * Uint16(b, o + 3)) ELSE <<>>),
         b[2] % 128 = pt, (b[2] >= 128) = marker,
         Uint16(b, 3) = seq, Uint32(b, 5) = ts, Uint32(b, 9) = ssrc,
         [i \in 1 .. k |-> Uint32(b, 9 + 4 * i)] = csrc, o + (IF ext THEN 4 + Len(words) ELSE 0) = n
       PROVE DecodeRtp(b) = [h |-> [pt |-> pt, marker |-> marker, pad |-> pad, ext |-> ext, words |-> words,
                                    seq |-> seq, ts |-> ts, ssrc |-> ssrc, csrc |-> csrc], payload |-> Drop(b, n)]
  BY Zenon DEF Decodes
<1> DEFINE K == b[1] % 16
           O == 12 + 4 * K
           X == (b[1] \div 16) % 2 = 1
           Z == 4 * Uint16(b, O + 3)
           W == IF X /\ Len(b) >= O + 4 /\ Len(b) >= O + 4 + Z THEN SubSeq(b, O + 5, O + 4 + Z) ELSE <<>>
           C == [i \in 1 .. K |-> Uint32(b, 9 + 4 * i)]
           T == b[2] % 128
           M == b[2] >= 128
           P == (b[1] \div 32) % 2 = 1
           N == O + (IF X THEN 4 + Len(W) ELSE 0)
<1>1. (Len(b) < 12 \/ b[1] \div 64 # 2 \/ Len(b) < O)
      \/ (X /\ Len(b) < O + 4)
      \/ DecodeRtp(b) = [h |-> [pt |-> T, marker |-> M, pad |-> P,
                                ext |-> X, words |-> W, seq |-> Uint16(b, 3), ts |-> Uint32(b, 5),
                                ssrc |-> Uint32(b, 9), csrc |-> C],
                         payload |-> Drop(b, N)]
  BY Zenon DEF DecodeRtp
<1>2. K = k /\ X = ext /\ T = pt /\ M = marker /\ P = pad
  BY <1>10, Zenon
<1> HIDE DEF K, X, T, M, P
<1>3. O = o
  BY <1>2, <1>10, Zenon
<1>4. C = csrc
  BY <1>2, <1>10, Zenon
<1> HIDE DEF O, C
<1>5. W = words
  BY <1>2, <1>3, <1>10, Zenon
<1> HIDE DEF W
<1>6. N = n
  BY <1>2, <1>3, <1>5, <1>10, Zenon
<1>7. ~(Len(b) < 12 \/ b[1] \div 64 # 2 \/ Len(b) < O) /\ ~(X /\ Len(b) < O + 4)
  BY <1>2, <1>3, <1>10, Zenon
<1> HIDE DEF N
<1>8. DecodeRtp(b) = [h |-> [pt |-> T, marker |-> M, pad |-> P, ext |-> X, words |-> W, seq |-> Uint16(b, 3),
                             ts |-> Uint32(b, 5), ssrc |-> Uint32(b, 9), csrc |-> C], payload |-> Drop(b, N)]
  BY <1>1, <1>7, Zenon
<1>9. N = n /\ C = csrc /\ W = words /\ Uint16(b, 3) = seq /\ Uint32(b, 5) = ts /\ Uint32(b, 9) = ssrc
  BY <1>4, <1>5, <1>6, <1>10, Zenon
<1> QED
  BY <1>2, <1>8, <1>9, SMT

\* What readers see of a packet of a header and a payload.
PacketSays(h, payload, b) ==
    /\ DecodeRtp(b) = [h |-> h, payload |-> payload] /\ Uint32(b, 9) = h.ssrc
    /\ Len(b) \in Nat /\ Len(b) >= 12 /\ b[1] \div 64 = 2 /\ ~(b[1] < 64) /\ b[2] % 128 = h.pt

LEMMA PacketRead ==
  \A h : \A payload \in Blob : IsHeader(h) => PacketSays(h, payload, EncodeRtp(h, payload))
<1> SUFFICES ASSUME NEW h, NEW payload \in Blob
             PROVE  IsHeader(h) => PacketSays(h, payload, EncodeRtp(h, payload))
  BY Zenon
<1>1. SUFFICES ASSUME IsHeader(h) PROVE PacketSays(h, payload, EncodeRtp(h, payload))
  BY Zenon
<1>2. PICK pt \in 0 .. 127 : pt = h.pt
  BY <1>1, HeaderTyped
<1>3. PICK marker \in BOOLEAN : marker = h.marker
  BY <1>1, HeaderTyped
<1>4. PICK csrc \in Seq(Nat) : csrc = h.csrc /\ Len(csrc) < 16 /\ \A i \in DOMAIN csrc : Is32(csrc[i])
  BY <1>1, HeaderTyped, Zenon
<1>5. PICK ext \in BOOLEAN : ext = h.ext
  BY <1>1, HeaderTyped
<1>6. PICK words \in Blob : words = h.words /\ Len(words) % 4 = 0 /\ Is16(Len(words) \div 4) /\ (~ext => words = <<>>)
  BY <1>1, <1>5, HeaderTyped, Zenon
<1>7. PICK pad \in BOOLEAN : pad = h.pad
  BY <1>1, HeaderTyped
<1>8. PICK seq \in Nat : seq = h.seq /\ Is16(seq)
  BY <1>1, HeaderTyped, Zenon
<1>9. PICK ts : ts = h.ts /\ Is32(ts)
  BY <1>1, HeaderTyped, Zenon
<1>10. PICK ssrc : ssrc = h.ssrc /\ Is32(ssrc)
  BY <1>1, HeaderTyped, Zenon
<1>11. h = [pt |-> pt, marker |-> marker, pad |-> pad, ext |-> ext, words |-> words, seq |-> seq, ts |-> ts,
            ssrc |-> ssrc, csrc |-> csrc]
  <2>1. h = [pt |-> h.pt, marker |-> h.marker, pad |-> h.pad, ext |-> h.ext, words |-> h.words, seq |-> h.seq,
             ts |-> h.ts, ssrc |-> h.ssrc, csrc |-> h.csrc]
    BY <1>1, HeaderTyped, Zenon
  <2>2. /\ pt = h.pt /\ marker = h.marker /\ pad = h.pad /\ ext = h.ext /\ words = h.words /\ seq = h.seq
        /\ ts = h.ts /\ ssrc = h.ssrc /\ csrc = h.csrc
    BY <1>2, <1>3, <1>4, <1>5, <1>6, <1>7, <1>8, <1>9, <1>10, Zenon
  <2> QED
    BY <2>1, <2>2, SMT
<1>12. PICK k \in Nat : k = Len(csrc) /\ k < 16
  BY <1>4
<1>13. PICK p \in {0, 1} : p = Bit(pad) /\ (p = 1) = pad
  BY BitIs, Zenon
<1>14. PICK e \in {0, 1} : e = Bit(ext) /\ (e = 1) = ext
  BY BitIs, Zenon
<1>15. PICK m \in {0, 1} : m = Bit(marker) /\ (m = 1) = marker
  BY BitIs, Zenon
<1>16. PICK x : x = 128 + 32 * p + 16 * e + k
  OBVIOUS
<1>17. PICK y : y = 128 * m + pt
  OBVIOUS
<1>18. x \in Octets /\ x % 16 = k /\ x \div 64 = 2 /\ ~(x < 64) /\ (x \div 32) % 2 = p /\ (x \div 16) % 2 = e
  <2>1. FirstSays(128 + 32 * p + 16 * e + k, p, e, k)
    BY <1>12, FirstByte
  <2>2. FirstSays(x, p, e, k)
    BY <1>16, <2>1
  <2> QED
    BY <2>2, Zenon DEF FirstSays
<1>19. y \in Octets /\ y % 128 = pt /\ (y >= 128 <=> m = 1)
  <2>1. SecondSays(128 * m + pt, m, pt)
    BY SecondByte, Zenon
  <2>2. SecondSays(y, m, pt)
    BY <1>17, <2>1
  <2> QED
    BY <2>2, Zenon DEF SecondSays
<1>20. (y >= 128) = marker
  <2>1. (y >= 128) \in BOOLEAN /\ (m = 1) \in BOOLEAN
    OBVIOUS
  <2>2. (y >= 128) = (m = 1)
    BY <1>19, <2>1
  <2> QED
    BY <1>15, <2>2, Zenon
<1>21. PICK H \in Blob : H = <<x, y>> /\ Len(H) = 2 /\ H[1] = x /\ H[2] = y
  <2>1. x \in Octets /\ y \in Octets
    BY <1>18, <1>19, Zenon
  <2>2. HasLength(Octets, <<x, y>>, 2) /\ <<x, y>>[1] = x /\ <<x, y>>[2] = y
    BY <2>1, TwoListed
  <2> QED
    BY <2>2, Zenon DEF HasLength, Blob
<1>22. PICK s \in Blob : s = Field16(seq) /\ Len(s) = 2
  BY BlobField16
<1>23. PICK t \in Blob : t = Field32(ts) /\ Len(t) = 4
  BY <1>9, BlobField32
<1>24. PICK r \in Blob : r = Field32(ssrc) /\ Len(r) = 4
  BY <1>10, BlobField32
<1>25. PICK c \in Blob : /\ c = Sources(csrc) /\ Len(c) = 4 * k
                         /\ \A b \in Blob : Holds(b, 12, c) => [i \in 1 .. k |-> Uint32(b, 9 + 4 * i)] = csrc
  <2>1. /\ Sources(csrc) \in Blob /\ Len(Sources(csrc)) = 4 * k
        /\ \A b \in Blob : Holds(b, 12, Sources(csrc)) => [i \in 1 .. k |-> Uint32(b, 9 + 4 * i)] = csrc
    BY <1>4, <1>12, SourcesRead
  <2> QED
    BY <2>1, Zenon
<1>26. PICK d \in Blob : /\ d = Extension(ext, words) /\ Len(d) = (IF ext THEN 4 + Len(words) ELSE 0)
                         /\ \A b \in Blob, o \in Nat : Holds(b, o, d) => ExtensionSays(ext, words, b, o)
  BY <1>6, ExtensionRead, Zenon
<1>27. PICK n \in Nat : n = 4 * k
  OBVIOUS
<1>28. PICK l \in Nat : l = Len(d)
  BY Joined
<1>29. PICK b : b = H \o s \o t \o r \o c \o d \o payload
  OBVIOUS
<1>30. EncodeRtp(h, payload) = b
  <2>1. EncodeRtp(h, payload) =
          <<128 + 32 * Bit(h.pad) + 16 * Bit(h.ext) + Len(h.csrc), 128 * Bit(h.marker) + h.pt>>
          \o Field16(h.seq) \o Field32(h.ts) \o Field32(h.ssrc) \o Sources(h.csrc) \o Extension(h.ext, h.words) \o payload
    BY SMT DEF EncodeRtp, Sources, Extension
  <2>2. <<128 + 32 * Bit(h.pad) + 16 * Bit(h.ext) + Len(h.csrc), 128 * Bit(h.marker) + h.pt>> = H
    <3>1. 128 + 32 * Bit(h.pad) + 16 * Bit(h.ext) + Len(h.csrc) = x
      BY <1>4, <1>5, <1>7, <1>12, <1>13, <1>14, <1>16, Zenon
    <3>2. 128 * Bit(h.marker) + h.pt = y
      BY <1>2, <1>3, <1>15, <1>17, Zenon
    <3> QED
      BY <1>21, <3>1, <3>2, Zenon
  <2>3. Field16(h.seq) = s /\ Field32(h.ts) = t /\ Field32(h.ssrc) = r
    BY <1>8, <1>9, <1>10, <1>22, <1>23, <1>24, Zenon
  <2>4. Sources(h.csrc) = c /\ Extension(h.ext, h.words) = d
    BY <1>4, <1>5, <1>6, <1>25, <1>26, Zenon
  <2> QED
    BY <1>29, <2>1, <2>2, <2>3, <2>4, Zenon
<1>31. Held(H, s, t, r, c, d, payload, b, n, l)
  <2>1. Len(H) = 2 /\ Len(s) = 2 /\ Len(t) = 4 /\ Len(r) = 4 /\ Len(c) = n /\ Len(d) = l
    BY <1>21, <1>22, <1>23, <1>24, <1>25, <1>27, <1>28, Zenon
  <2> QED
    BY <1>29, <2>1, PartsHeld, Zenon
<1>32. /\ b \in Blob /\ Len(b) = 12 + n + l + Len(payload)
       /\ Holds(b, 0, H) /\ Holds(b, 2, s) /\ Holds(b, 4, t) /\ Holds(b, 8, r) /\ Holds(b, 12, c)
       /\ Holds(b, 12 + n, d) /\ Drop(b, 12 + n + l) = payload
  BY <1>31, Zenon DEF Held
<1>33. b[1] = x /\ b[2] = y
  <2>1. PICK o \in Nat : o = 0
    OBVIOUS
  <2>2. \A z \in 1 .. Len(H) : b[o + z] = H[z]
    <3>1. Holds(b, o, H)
      BY <1>32, <2>1, Zenon
    <3> QED
      BY <3>1, Zenon DEF Holds
  <2>3. 1 \in 1 .. Len(H) /\ 2 \in 1 .. Len(H) /\ o + 1 = 1 /\ o + 2 = 2
    BY <1>21, <2>1
  <2>4. b[o + 1] = H[1] /\ b[o + 2] = H[2]
    BY <2>2, <2>3, Zenon
  <2> QED
    BY <1>21, <2>3, <2>4, Zenon
<1>34. Uint16(b, 3) = seq /\ Uint32(b, 5) = ts /\ Uint32(b, 9) = ssrc
  <2>1. 2 \in Nat /\ 4 \in Nat /\ 8 \in Nat /\ 2 + 1 = 3 /\ 4 + 1 = 5 /\ 8 + 1 = 9
    OBVIOUS
  <2>2. Uint16(b, 2 + 1) = seq
    BY <1>8, <1>22, <1>32, <2>1, BlobRead16, Zenon
  <2>3. Uint32(b, 4 + 1) = ts
    BY <1>9, <1>23, <1>32, <2>1, BlobRead32, Zenon
  <2>4. Uint32(b, 8 + 1) = ssrc
    BY <1>10, <1>24, <1>32, <2>1, BlobRead32, Zenon
  <2> QED
    BY <2>1, <2>2, <2>3, <2>4, Zenon
<1>35. PICK o \in Nat : o = 12 + n /\ o = 12 + 4 * k
  BY <1>27
<1>36. [i \in 1 .. k |-> Uint32(b, 9 + 4 * i)] = csrc
  BY <1>25, <1>32, Zenon
<1>37. ExtensionSays(ext, words, b, o)
  BY <1>26, <1>32, <1>35, Zenon
<1>38. /\ words = (IF ext /\ Len(b) >= o + 4 /\ Len(b) >= o + 4 + 4 * Uint16(b, o + 3)
                   THEN SubSeq(b, o + 5, o + 4 + 4 * Uint16(b, o + 3)) ELSE <<>>)
       /\ o + (IF ext THEN 4 + Len(words) ELSE 0) = 12 + n + l
  BY <1>26, <1>28, <1>35, <1>37, Zenon DEF ExtensionSays
<1>39. Len(b) \in Nat /\ Len(b) >= 12 /\ ~(Len(b) < 12) /\ ~(Len(b) < o) /\ ~(ext /\ Len(b) < o + 4)
  <2>0. PICK u \in Nat : u = Len(words)
    BY Joined
  <2>1. PICK w \in Nat : w = Len(payload)
    BY Joined
  <2>2. PICK L \in Nat : L = 12 + n + l + w
    OBVIOUS
  <2>3. Len(b) = L
    BY <1>32, <2>1, <2>2, Zenon
  <2>4. L >= 12 /\ ~(L < 12) /\ ~(L < o)
    BY <1>35, <2>2
  <2>5. ASSUME ext PROVE ~(L < o + 4)
    <3>1. o + (4 + u) = 12 + n + l
      BY <1>38, <2>0, <2>5, Zenon
    <3> QED
      BY <1>35, <2>0, <2>2, <3>1
  <2> QED
    BY <2>3, <2>4, <2>5, Zenon
<1>40. /\ k = b[1] % 16 /\ b[1] \div 64 = 2 /\ ~(b[1] < 64) /\ b[2] % 128 = pt
       /\ ((b[1] \div 16) % 2 = 1) = ext /\ ((b[1] \div 32) % 2 = 1) = pad /\ (b[2] >= 128) = marker
  BY <1>13, <1>14, <1>18, <1>19, <1>20, <1>33, Zenon
<1>41. DecodeRtp(b) = [h |-> [pt |-> pt, marker |-> marker, pad |-> pad, ext |-> ext, words |-> words, seq |-> seq,
                              ts |-> ts, ssrc |-> ssrc, csrc |-> csrc], payload |-> Drop(b, 12 + n + l)]
  <2>1. PICK end : end = 12 + n + l
    OBVIOUS
  <2>2. /\ k = b[1] % 16 /\ o = 12 + 4 * k /\ ~(Len(b) < 12) /\ b[1] \div 64 = 2 /\ ~(Len(b) < o)
        /\ ~(ext /\ Len(b) < o + 4)
        /\ ((b[1] \div 16) % 2 = 1) = ext /\ ((b[1] \div 32) % 2 = 1) = pad
        /\ words = (IF ext /\ Len(b) >= o + 4 /\ Len(b) >= o + 4 + 4 * Uint16(b, o + 3)
                    THEN SubSeq(b, o + 5, o + 4 + 4 * Uint16(b, o + 3)) ELSE <<>>)
        /\ b[2] % 128 = pt /\ (b[2] >= 128) = marker
        /\ Uint16(b, 3) = seq /\ Uint32(b, 5) = ts /\ Uint32(b, 9) = ssrc
        /\ [i \in 1 .. k |-> Uint32(b, 9 + 4 * i)] = csrc /\ o + (IF ext THEN 4 + Len(words) ELSE 0) = end
    BY <1>34, <1>35, <1>36, <1>38, <1>39, <1>40, <2>1, Zenon
  <2>3. DecodeRtp(b) = [h |-> [pt |-> pt, marker |-> marker, pad |-> pad, ext |-> ext, words |-> words, seq |-> seq,
                               ts |-> ts, ssrc |-> ssrc, csrc |-> csrc], payload |-> Drop(b, end)]
    <3>1. Decodes(b, k, o, ext, words, pt, marker, pad, seq, ts, ssrc, csrc, end)
      BY DecodedIs
    <3> QED
      BY <2>2, <3>1, Zenon DEF Decodes
  <2> QED
    BY <2>1, <2>3, Zenon
<1>42. DecodeRtp(b) = [h |-> h, payload |-> payload]
  BY <1>11, <1>32, <1>41, Zenon
<1> QED
  BY <1>2, <1>10, <1>30, <1>34, <1>39, <1>40, <1>42, Zenon DEF PacketSays

LEMMA RtpRead ==
  ASSUME NEW h \in Headers, NEW payload \in RtpPayloads, SendRtp(h, payload)
  PROVE  AllRead(wire')
<1>1. IsHeader(h) /\ payload \in Blob
  BY WireAssumption, Zenon DEF InputsAreTyped, Blob
<1>2. PICK b : b = EncodeRtp(h, payload)
  OBVIOUS
<1>3. PacketSays(h, payload, b)
  BY <1>1, <1>2, PacketRead, Zenon
<1>4. /\ DecodeRtp(b) = [h |-> h, payload |-> payload] /\ Uint32(b, 9) = h.ssrc
      /\ Len(b) \in Nat /\ Len(b) >= 12 /\ b[1] \div 64 = 2 /\ ~(b[1] < 64) /\ b[2] % 128 = h.pt
  BY <1>3, Zenon DEF PacketSays
<1>5. ~(Len(b) < 12) /\ ~(Len(b) < 2) /\ Len(b) >= 2
  <2>1. PICK n \in Nat : n = Len(b) /\ n >= 12
    BY <1>4
  <2>2. ~(n < 12) /\ ~(n < 2) /\ n >= 2
    BY <2>1
  <2> QED
    BY <2>1, <2>2, Zenon
<1>6. Route(b) = (IF h.pt = 120 THEN "audio" ELSE IF h.pt = 97 THEN "video" ELSE "none")
  <2>1. ~IsStunPacket(b)
    BY <1>4, Zenon DEF IsStunPacket
  <2>2. IsRtpPacket(b)
    BY <1>4, <1>5, Zenon DEF IsRtpPacket
  <2> QED
    BY <1>4, <1>5, <2>1, <2>2, SMT DEF Route
<1>7. ClassifyPacket(b) = "RTP/SRTP"
  <2>1. PICK s : s = (IF Len(b) >= 20 /\ ParseStunResponse(b) # Unparsed THEN "STUN" ELSE "STUN?")
    OBVIOUS
  <2>2. ClassifyPacket(b) = <<s, "DTLS?", "RTP/SRTP", "unknown">>[b[1] \div 64 + 1]
    BY <1>5, <2>1, Zenon DEF ClassifyPacket
  <2>3. 2 + 1 = 3 /\ <<s, "DTLS?", "RTP/SRTP", "unknown">>[3] = "RTP/SRTP"
    OBVIOUS
  <2> QED
    BY <1>4, <2>2, <2>3, Zenon
<1>8. PICK p : p = [kind |-> "rtp", bytes |-> b, h |-> h, payload |-> payload]
  OBVIOUS
<1>9. wire' = <<p>>
  BY <1>2, <1>8, Zenon DEF SendRtp
<1>10. p.kind = "rtp" /\ p.bytes = b /\ p.h = h /\ p.payload = payload
  BY <1>8
<1>11. RtpReadsBack(p)
  <2>1. RtpSsrc(b) = h.ssrc
    BY <1>4, Zenon DEF RtpSsrc
  <2> QED
    BY <1>4, <1>6, <1>7, <1>10, <2>1, Zenon DEF RtpReadsBack
<1>12. "rtp" # "stun" /\ "rtp" # "ping" /\ "rtp" # "pong" /\ "rtp" # "answer"
  OBVIOUS
<1>13. PacketReadsBack(p)
  BY <1>10, <1>11, <1>12, SMT DEF PacketReadsBack
<1> QED
  BY <1>9, <1>13, AllReadOne

-----------------------------------------------------------------------------
LEMMA AllReadBack ==
  AllRead(wire) => PacketsReadBack
<1> SUFFICES ASSUME NEW S, wire \in Seq(S), \A i \in 1 .. Len(wire) : PacketReadsBack(wire[i])
             PROVE  PacketsReadBack
  BY Zenon DEF AllRead
<1>1. DOMAIN wire = 1 .. Len(wire)
  OBVIOUS
<1> QED
  BY <1>1, Zenon DEF PacketsReadBack

\* Every packet of a relay connection is read as it was meant
\* (buildStunMessage, ParseStunResponse, BuildSSRCSubscriptionList,
\* RtpHeader.Encode, DecodeRtpPacket, onRelayData).
THEOREM WireReadsBack == WireSpec => []PacketsReadBack
<1> DEFINE I == AllRead(wire)
<1>1. WireInit => I
  BY AllReadNone, Zenon DEF WireInit
<1>2. I /\ [WireNext]_wire => I'
  <2> SUFFICES ASSUME I, [WireNext]_wire PROVE AllRead(wire')
    BY DEF AllRead
  <2>1. CASE UNCHANGED wire
    BY <2>1, Zenon
  <2>2. ASSUME NEW relay \in Relays, NEW audio \in Ssrcs, NEW subscribed \in Ssrcs, NEW streams \in Streams,
               Register(relay, audio, subscribed, streams)
        PROVE  AllRead(wire')
    BY <2>2, RegisterRead
  <2>3. CASE SendPing
    BY <2>3, PingRead
  <2>4. ASSUME NEW a \in Answers, Answer(a) PROVE AllRead(wire')
    BY <2>4, AnswerRead
  <2>5. CASE Pong
    BY <2>5, PongRead
  <2>6. ASSUME NEW h \in Headers, NEW payload \in RtpPayloads, SendRtp(h, payload) PROVE AllRead(wire')
    BY <2>6, RtpRead
  <2> QED
    BY <2>1, <2>2, <2>3, <2>4, <2>5, <2>6, Zenon DEF WireNext
<1>3. I => PacketsReadBack
  BY AllReadBack
<1> QED
  BY <1>1, <1>2, <1>3, PTL DEF WireSpec
================================================================================
