------------------------------ MODULE ServerProofs ------------------------------
(***************************************************************************)
(* What TLAPS proves of the requests and the streams of server/: of        *)
(* Account, EventStreams and Outgoing, for any requests, streams,          *)
(* forwarders, events, buffer and changes of timers.                       *)
(***************************************************************************)
EXTENDS Outgoing, Account, EventStreams, FiniteSetTheorems, SequenceTheorems, TLAPS

-----------------------------------------------------------------------------
(* The last of a set of numbers, and induction over numbers.               *)

LEMMA MinExists ==
  ASSUME NEW T \in SUBSET Nat, T # {}
  PROVE  \E x \in T : \A y \in T : x <= y
<1>1. PICK x \in T : \A y \in T : ~ (<<y, x>> \in OpToRel(<, Nat))
  BY WFMin, NatLessThanWellFounded
<1>2. ASSUME NEW y \in T PROVE x <= y
  <2>1. <<y, x>> \in Nat \X Nat /\ <<y, x>>[1] = y /\ <<y, x>>[2] = x
    OBVIOUS
  <2>2. ~ (y < x)
    BY <1>1, <2>1 DEF OpToRel
  <2> QED
    BY <2>2
<1> QED
  BY <1>2

\* A set of numbers with an upper bound has a greatest: seen from that bound,
\* it is the least.
LEMMA MaxIsGreatest ==
  ASSUME NEW n \in Nat, NEW T \in SUBSET (0 .. n), T # {}
  PROVE  Max(T) \in T /\ \A y \in T : y <= Max(T)
<1> DEFINE U == {n - y : y \in T}
<1>1. \A y \in T : y \in Nat /\ y <= n /\ n - y \in U /\ n - y \in Nat
  OBVIOUS
<1>2. U \in SUBSET Nat /\ U # {}
  BY <1>1
<1>3. PICK u \in U : \A v \in U : u <= v
  <2> HIDE DEF U
  <2> QED
    BY <1>2, MinExists
<1>4. PICK x \in T : u = n - x
  BY <1>3
<1>5. ASSUME NEW y \in T PROVE x >= y
  <2>1. n - x <= n - y
    BY <1>1, <1>3, <1>4
  <2> QED
    BY <1>1, <2>1
<1>6. \E z \in T : \A y \in T : z >= y
  BY <1>5
<1>7. Max(T) \in T /\ \A y \in T : Max(T) >= y
  BY <1>6 DEF Max
<1>8. Max(T) \in 0 .. n
  BY <1>7
<1> QED
  BY <1>1, <1>7, <1>8

\* Induction up to a number, with the property as a set.
LEMMA AllUpTo ==
  ASSUME NEW N \in Nat, NEW P, 0 \in P, \A n \in 1 .. N : n - 1 \in P => n \in P
  PROVE  0 .. N \subseteq P
<1> DEFINE bad == {n \in 0 .. N : n \notin P}
<1>1. ASSUME bad # {} PROVE FALSE
  <2>1. bad \in SUBSET Nat
    OBVIOUS
  <2>2. PICK n \in bad : \A j \in bad : n <= j
    <3> HIDE DEF bad
    <3> QED
      BY <1>1, <2>1, MinExists
  <2>3. n \in 1 .. N /\ n \notin P
    BY <2>2
  <2>4. n - 1 \in 0 .. N /\ n - 1 \notin bad
    BY <2>2, <2>3
  <2> QED
    BY <2>3, <2>4
<1> QED
  BY <1>1

\* What is defined step by step from a start exists.
StepsStay(N, T, a, G) == N \in Nat /\ a \in T /\ \A n \in 1 .. N, s \in T : G[<<n, s>>] \in T
Steps(f, N, T, a, G) == f \in [0 .. N -> T] /\ f[0] = a /\ \A n \in 1 .. N : f[n] = G[<<n, f[n - 1]>>]

LEMMA StepsExist ==
  ASSUME NEW N, NEW T, NEW a, NEW G, StepsStay(N, T, a, G)
  PROVE  \E f : Steps(f, N, T, a, G)
<1> USE DEF StepsStay, Steps
<1> DEFINE Fold(f, k) == f \in [0 .. k -> T] /\ f[0] = a /\ \A n \in 1 .. k : f[n] = G[<<n, f[n - 1]>>]
           folded == {k \in 0 .. N : \E f : Fold(f, k)}
<1>1. 0 \in folded
  <2> DEFINE f == [n \in 0 .. 0 |-> a]
  <2>1. Fold(f, 0)
    OBVIOUS
  <2> HIDE DEF Fold, f
  <2> QED
    BY <2>1
<1>2. ASSUME NEW k \in 1 .. N, k - 1 \in folded PROVE k \in folded
  <2>1. PICK f : Fold(f, k - 1)
    <3> HIDE DEF Fold
    <3> QED
      BY <1>2
  <2> DEFINE last == G[<<k, f[k - 1]>>]
             g == [n \in 0 .. k |-> IF n = k THEN last ELSE f[n]]
  <2>2. f[k - 1] \in T /\ last \in T
    <3>1. k - 1 \in 0 .. (k - 1)
      OBVIOUS
    <3>2. f[k - 1] \in T
      BY <2>1, <3>1
    <3> QED
      BY <3>2
  <2>3. \A n \in 0 .. k - 1 : g[n] = f[n] /\ f[n] \in T
    BY <2>1
  <2>4. g[k] = last
    OBVIOUS
  <2>5. g \in [0 .. k -> T] /\ g[0] = a
    <3> HIDE DEF last
    <3> QED
      BY <2>1, <2>2
  <2>6. ASSUME NEW n \in 1 .. k PROVE g[n] = G[<<n, g[n - 1]>>]
    <3>1. n - 1 \in 0 .. k - 1 /\ g[n - 1] = f[n - 1]
      BY <2>3
    <3>2. CASE n = k
      BY <2>4, <3>1, <3>2
    <3>3. CASE n # k
      <4>1. n \in 1 .. k - 1 /\ n \in 0 .. k - 1
        BY <3>3
      <4> QED
        BY <2>1, <2>3, <3>1, <4>1
    <3> QED
      BY <3>2, <3>3
  <2>7. Fold(g, k)
    BY <2>5, <2>6
  <2> HIDE DEF Fold, g
  <2> QED
    BY <2>7
<1>3. N \in folded
  <2> HIDE DEF folded
  <2> QED
    BY <1>1, <1>2, AllUpTo
<1> QED
  BY <1>3

-----------------------------------------------------------------------------
(* Account: read marks and waiting votes.                                  *)

Places == {"check", "clock", "read", "call", "wait", "await", "retry", "resent", "returned", "dropped"}
AccountTypeOK ==
    /\ at \in [Clients -> Places]
    /\ known = [r \in Clients |-> known[r]]
    /\ arrived \in Nat
    /\ stored \in SUBSET (1 .. arrived)
    /\ seen \in [Clients -> SUBSET stored]

\* The message a read mark names is one of those the storage had, if it had any;
\* before a request has read the storage it has seen none.
MarkNamesWhatWasSeen ==
    \A r \in Clients :
        /\ at[r] \in {"check", "clock", "read"} => seen[r] = {}
        /\ r.rpc = "MarkChatUnread" /\ seen[r] # {} => known[r] \in seen[r]
Voting == waiters \in SUBSET Clients /\ VotesLeaveNoWaiter

\* What WhatsApp took was asked by a client.
TakenWasAsked ==
    /\ \E S : accepted \in Seq(S)
    /\ \A i \in DOMAIN accepted : accepted[i].by \in Clients
AccountIInv == AccountTypeOK /\ MarkNamesWhatWasSeen /\ Voting /\ TakenWasAsked

LEMMA AccountInitIInv == AccountInit => AccountIInv
<1> SUFFICES ASSUME AccountInit PROVE AccountIInv
  OBVIOUS
<1>1. PICK requests \in Asks :
         /\ at = [r \in requests |-> "check"]
         /\ known = [r \in requests |-> 0]
         /\ seen = [r \in requests |-> {}]
  BY DEF AccountInit
<1>2. Clients = requests
  BY <1>1 DEF Clients
<1>3. arrived = 0 /\ stored = {} /\ accepted = <<>> /\ waiters = {}
  BY DEF AccountInit
<1>4. AccountTypeOK
  BY <1>1, <1>2, <1>3 DEF AccountTypeOK, Places
<1>5. MarkNamesWhatWasSeen /\ Voting
  BY <1>1, <1>2, <1>3 DEF MarkNamesWhatWasSeen, Voting, VotesLeaveNoWaiter
<1>6. TakenWasAsked
  BY <1>3 DEF TakenWasAsked
<1> QED
  BY <1>4, <1>5, <1>6 DEF AccountIInv

\* The steps of a handler, but for what it notes of the storage.
LEMMA HandlerKeepsTyping ==
  ASSUME AccountIInv, NEW r \in Clients, NEW to \in Places, at' = [at EXCEPT ![r] = to]
  PROVE  Clients' = Clients /\ at' \in [Clients' -> Places]
BY DEF AccountIInv, AccountTypeOK, Clients

\* A step that appends nothing to the history, or one entry of this client.
LEMMA HistoryStays ==
  ASSUME AccountIInv, NEW r \in Clients, Clients' = Clients,
         \/ accepted' = accepted
         \/ \E e : e.by = r /\ accepted' = Append(accepted, e)
  PROVE  TakenWasAsked'
<1> USE DEF AccountIInv, TakenWasAsked
<1>1. CASE accepted' = accepted
  BY <1>1
<1>2. ASSUME NEW e, e.by = r, accepted' = Append(accepted, e)
      PROVE  TakenWasAsked'
  <2>1. PICK S : accepted \in Seq(S)
    OBVIOUS
  <2>2. accepted \in Seq(S \cup {e})
    BY <2>1
  <2>3. accepted' \in Seq(S \cup {e})
    BY <1>2, <2>2
  <2>4. \A i \in DOMAIN accepted' : accepted'[i] = e \/ (i \in DOMAIN accepted /\ accepted'[i] = accepted[i])
    BY <1>2, <2>2
  <2> QED
    BY <1>2, <2>3, <2>4
<1> QED
  BY <1>1, <1>2

LEMMA HandlerKeepsIInv ==
  ASSUME AccountIInv, NEW r \in Clients,
         \/ Check(r) \/ ReadTopic(r) \/ ReadClock(r) \/ ReadLast(r) \/ Call(r)
         \/ SendNode(r) \/ Respond(r) \/ GiveUp(r)
         \/ Disconnect(r) \/ RetryFrame(r) \/ RetryFails(r)
  PROVE  AccountIInv'
<1> USE DEF Step
<1>1. \E to \in Places : at' = [at EXCEPT ![r] = to]
  BY DEF Check, ReadTopic, ReadClock, ReadLast, Call, SendNode, Respond, Disconnect, RetryFrame, RetryFails, GiveUp, NextStep, Places
<1>2. Clients' = Clients /\ at' \in [Clients' -> Places]
  BY <1>1, HandlerKeepsTyping
<1>3. arrived' = arrived /\ stored' = stored
  BY DEF Check, ReadTopic, ReadClock, ReadLast, Call, SendNode, Respond, Disconnect, RetryFrame, RetryFails, GiveUp, World
<1>4. TakenWasAsked'
  <2>1. \/ accepted' = accepted
        \/ accepted' = Append(accepted, [by |-> r, before |-> account, after |-> account'])
        \/ accepted' = Append(accepted, [by |-> r, before |-> account, after |-> account])
    BY DEF Check, ReadTopic, ReadClock, ReadLast, Call, SendNode, Respond, Disconnect, RetryFrame, RetryFails, GiveUp, World
  <2>2. \A a, b : [by |-> r, before |-> a, after |-> b].by = r
    OBVIOUS
  <2>3. \/ accepted' = accepted
        \/ \E e : e.by = r /\ accepted' = Append(accepted, e)
    BY <2>1, <2>2
  <2> QED
    BY <1>2, <2>3, HistoryStays
<1>5. Voting'
  <2> USE DEF AccountIInv, AccountTypeOK, Voting, VotesLeaveNoWaiter, Cancelled
  <2>1. CASE Check(r) \/ ReadTopic(r) \/ ReadClock(r) \/ ReadLast(r) \/ Call(r)
    BY <1>1, <1>2, <2>1 DEF Check, ReadTopic, ReadClock, ReadLast, Call
  <2>2. CASE SendNode(r)
    BY <1>2, <2>2 DEF SendNode
  <2>3. CASE Respond(r)
    BY <1>2, <2>3 DEF Respond
  <2>4. CASE Disconnect(r) \/ RetryFrame(r) \/ RetryFails(r) \/ GiveUp(r)
    BY <1>2, <2>4 DEF Disconnect, RetryFrame, RetryFails, GiveUp
  <2> QED
    BY <2>1, <2>2, <2>3, <2>4
<1>6. AccountTypeOK' /\ MarkNamesWhatWasSeen'
  <2> USE DEF AccountIInv, AccountTypeOK, MarkNamesWhatWasSeen
  <2>1. CASE seen' = seen /\ known' = known
    <3>1. at'[r] \in {"check", "clock", "read"} => at[r] \in {"check", "clock", "read"}
      BY <1>2 DEF Check, ReadTopic, ReadClock, ReadLast, Call, SendNode, Respond, Disconnect, RetryFrame, RetryFails, GiveUp
    <3>2. \A s \in Clients : s # r => at'[s] = at[s]
      BY <1>1
    <3> QED
      BY <1>2, <1>3, <2>1, <3>1, <3>2
  <2>2. CASE ReadTopic(r) /\ seen' = seen /\ at'[r] = "call"
    <3>1. r.rpc # "MarkChatUnread" /\ \E v : known' = [known EXCEPT ![r] = v]
      BY <1>2, <2>2 DEF ReadTopic
    <3>2. PICK v : known' = [known EXCEPT ![r] = v]
      BY <3>1
    <3> QED
      BY <1>1, <1>2, <1>3, <2>2, <3>1, <3>2
  <2>3. CASE ReadClock(r)
    <3>1. seen[r] = {} /\ seen' = seen /\ known' = [known EXCEPT ![r] = arrived]
      BY <2>3 DEF ReadClock
    <3> QED
      BY <1>1, <1>2, <1>3, <3>1
  <2>4. CASE ReadLast(r) /\ at'[r] = "call" /\ seen' = [seen EXCEPT ![r] = stored]
    <3>1. known' = [known EXCEPT ![r] = IF stored = {} THEN @ ELSE Max(stored)]
      BY <1>2, <2>4 DEF ReadLast
    <3>2. stored \in SUBSET (0 .. arrived)
      OBVIOUS
    <3>3. stored # {} => Max(stored) \in stored
      BY <3>2, MaxIsGreatest
    <3> QED
      BY <1>1, <1>2, <1>3, <2>4, <3>1, <3>3
  <2>5. \/ seen' = seen /\ known' = known
        \/ ReadTopic(r) /\ seen' = seen /\ at'[r] = "call"
        \/ ReadClock(r)
        \/ ReadLast(r) /\ at'[r] = "call" /\ seen' = [seen EXCEPT ![r] = stored]
    BY <1>2 DEF Check, ReadTopic, ReadClock, ReadLast, Call, SendNode, Respond, Disconnect, RetryFrame, RetryFails, GiveUp
  <2> QED
    BY <2>1, <2>2, <2>3, <2>4, <2>5
<1> QED
  BY <1>4, <1>5, <1>6 DEF AccountIInv

LEMMA AccountInductive == AccountSpec => []AccountIInv
<1> USE DEF AccountIInv, AccountTypeOK, MarkNamesWhatWasSeen, Voting, VotesLeaveNoWaiter, TakenWasAsked, Clients
<1>1. AccountIInv /\ UNCHANGED accountVars => AccountIInv'
  BY DEF accountVars, handlerVars
<1>2. AccountIInv /\ Arrive => AccountIInv'
  <2> SUFFICES ASSUME AccountIInv, Arrive PROVE AccountIInv'
    OBVIOUS
  <2>1. /\ UNCHANGED <<stored, accepted, at, known, waiters, seen>>
        /\ arrived' = arrived + 1
    BY DEF Arrive, handlerVars
  <2>2. stored \in SUBSET (1 .. arrived')
    BY <2>1
  <2> QED
    BY <2>1, <2>2
<1>3. ASSUME AccountIInv, NEW n \in 1 .. arrived, Store(n) PROVE AccountIInv'
  <2>1. /\ UNCHANGED <<arrived, accepted, at, known, waiters, seen>>
        /\ stored' = stored \cup {n}
    BY <1>3 DEF Store, handlerVars
  <2> QED
    BY <1>3, <2>1
<1> HIDE DEF AccountIInv, AccountTypeOK, MarkNamesWhatWasSeen, Voting, VotesLeaveNoWaiter, TakenWasAsked, Clients
<1>4. AccountIInv /\ [AccountNext]_accountVars => AccountIInv'
  BY <1>1, <1>2, <1>3, HandlerKeepsIInv DEF AccountNext
<1> QED
  BY <1>4, AccountInitIInv, PTL DEF AccountSpec

\* A mark as read covers a message the storage did not have only if it had a later
\* one, or none: for any number of messages, in any order of storing.
THEOREM MarksAreCovered == AccountSpec => []MarksCoverWhatWasSeen
<1>1. AccountIInv => MarksCoverWhatWasSeen
  <2> SUFFICES ASSUME AccountIInv,
                      NEW i \in DOMAIN accepted,
                      accepted[i].by.rpc = "MarkChatUnread", seen[accepted[i].by] # {},
                      NEW n \in 1 .. known[accepted[i].by]
               PROVE  n \in seen[accepted[i].by] \/ \E later \in seen[accepted[i].by] : later > n
    BY DEF MarksCoverWhatWasSeen
  <2> DEFINE r == accepted[i].by
  <2>1. r \in Clients
    BY DEF AccountIInv, TakenWasAsked
  <2>2. known[r] \in seen[r]
    BY <2>1 DEF AccountIInv, MarkNamesWhatWasSeen
  <2>3. known[r] \in Int
    BY <2>1, <2>2 DEF AccountIInv, AccountTypeOK
  <2> QED
    BY <2>2, <2>3
<1> QED
  BY <1>1, AccountInductive, PTL

\* Only a vote whose second sending failed may leave a channel behind: not one
\* that was answered, could not be sent or whose context ended.
THEOREM VotesAreCancelled == AccountSpec => []VotesLeaveNoWaiter
<1>1. AccountIInv => VotesLeaveNoWaiter
  BY DEF AccountIInv, Voting
<1> QED
  BY <1>1, AccountInductive, PTL
-----------------------------------------------------------------------------
(* EventStreams: the lock and the map of listeners.                        *)

\* Of the lock: only a forwarder that holds the read lock has
\* listeners left to serve, and the map holds exactly the open streams.
LockIInv ==
    /\ EventsTypeOK
    /\ \A f \in Forwarders : todo[f] # {} => fwd[f] = "handing"
    /\ \A f \in Forwarders : todo[f] \subseteq listeners
    /\ listeners = {s \in Streams : stream[s] \in {"waiting", "sending", "leaving"}}

LEMMA LockInit == EventsInit => LockIInv
BY DEF EventsInit, LockIInv, EventsTypeOK

\* A forwarder never touches the streams, and takes on the listeners of the map.
LEMMA ForwarderKeepsLock ==
  ASSUME LockIInv, NEW f \in Forwarders, ForwarderNext(f)
  PROVE  LockIInv'
<1> USE DEF LockIInv, EventsTypeOK, fwdVars, streamVars
<1>1. CASE Receive(f)
  BY <1>1 DEF Receive
<1>2. CASE Finish(f)
  BY <1>2 DEF Finish
<1>3. CASE ReadLock(f)
  BY <1>3 DEF ReadLock
<1>4. ASSUME NEW s \in Streams, Hand(f, s)
      PROVE  LockIInv'
  <2>1. UNCHANGED <<fwd, taken, stream, listeners>> /\ todo' = [todo EXCEPT ![f] = @ \ {s}]
    BY <1>4 DEF Hand
  <2> QED
    BY <2>1
<1>5. CASE ReadUnlock(f)
  BY <1>5 DEF ReadUnlock
<1> QED
  BY <1>1, <1>2, <1>3, <1>4, <1>5 DEF ForwarderNext

\* A stream changes the map only while no forwarder holds the read lock, and
\* then no forwarder has a listener left to serve.
LEMMA StreamKeepsLock ==
  ASSUME LockIInv, NEW s \in Streams, StreamNext(s)
  PROVE  LockIInv'
<1> USE DEF LockIInv, EventsTypeOK, fwdVars, Move
<1>1. UNCHANGED <<fwd, taken, todo>>
  BY DEF StreamNext, Open, AddListener, Take, Send, Leave, RemoveListener
<1>2. CASE Open(s)
  BY <1>2 DEF Open
<1>3. CASE AddListener(s)
  BY <1>3 DEF AddListener
<1>4. CASE Take(s) \/ Send(s) \/ Leave(s)
  <2>1. listeners' = listeners
    BY <1>4 DEF Take, Send, Leave
  <2>2. \/ stream' = stream
        \/ /\ stream[s] \in {"waiting", "sending"}
           /\ \E to \in {"waiting", "sending", "leaving"} : stream' = [stream EXCEPT ![s] = to]
    BY <1>4 DEF Take, Send, Leave
  <2> QED
    BY <1>1, <2>1, <2>2
<1>5. CASE RemoveListener(s)
  <2>1. \A f \in Forwarders : todo[f] = {}
    BY <1>5 DEF RemoveListener, Readers
  <2> QED
    BY <1>1, <1>5, <2>1 DEF RemoveListener
<1> QED
  BY <1>2, <1>3, <1>4, <1>5 DEF StreamNext

-----------------------------------------------------------------------------
(* EventStreams: sequences of events.                                      *)

\* An event is named by its forwarder and its number.
Event == Forwarders \X Nat

LEMMA RangeOfTwo == \A a, b \in Seq(Event) : Range(a \o b) = Range(a) \cup Range(b)
  BY RangeConcatenation

LEMMA Triple ==
  ASSUME NEW d \in Seq(Event), NEW h \in Seq(Event), NEW c \in Seq(Event)
  PROVE  /\ d \o h \in Seq(Event) /\ d \o h \o c \in Seq(Event) /\ d \o c \in Seq(Event)
         /\ Range(d \o h \o c) = Range(d) \cup Range(h) \cup Range(c)
         /\ Range(d \o c) = Range(d) \cup Range(c)
         /\ \A e \in Range(d \o h \o c) : e \in Event
<1>1. d \o h \in Seq(Event) /\ d \o c \in Seq(Event)
  BY ConcatProperties
<1>2. d \o h \o c \in Seq(Event)
  BY <1>1, ConcatProperties
<1>3. Range(d \o h) = Range(d) \cup Range(h) /\ Range(d \o c) = Range(d) \cup Range(c)
  BY RangeOfTwo, Zenon
<1>4. Range(d \o h \o c) = Range(d \o h) \cup Range(c)
  BY <1>1, RangeOfTwo, Zenon
<1>5. Range(d \o h \o c) \in SUBSET Event
  BY <1>2, RangeOfSeq
<1> QED
  BY <1>1, <1>2, <1>3, <1>4, <1>5

\* What a stream takes to send stays where it was among the events.
LEMMA TakingKeeps ==
  ASSUME NEW d \in Seq(Event), NEW c \in Seq(Event), c # <<>>
  PROVE  /\ <<Head(c)>> \in Seq(Event) /\ Tail(c) \in Seq(Event)
         /\ d \o <<>> \o c = d \o <<Head(c)>> \o Tail(c)
         /\ Range(c) = {Head(c)} \cup Range(Tail(c))
<1>1. Head(c) \in Event /\ Tail(c) \in Seq(Event) /\ <<Head(c)>> \in Seq(Event)
  BY HeadTailProperties
<1>2. c = <<Head(c)>> \o Tail(c)
  <2>1. <<Head(c)>> \o Tail(c) \in Seq(Event)
    BY <1>1, ConcatProperties
  <2>2. Len(c) = Len(<<Head(c)>> \o Tail(c)) /\ Len(c) \in Nat \ {0}
    BY <1>1, ConcatProperties, HeadTailProperties, EmptySeq
  <2>3. \A i \in 1 .. Len(c) : c[i] = (<<Head(c)>> \o Tail(c))[i]
    BY <1>1, <2>2, ConcatProperties, HeadTailProperties
  <2> QED
    BY <2>1, <2>2, <2>3, SeqEqual
<1>3. d \o <<Head(c)>> \o Tail(c) = d \o (<<Head(c)>> \o Tail(c))
  BY <1>1, ConcatAssociative
<1>4. d \o <<>> = d
  BY ConcatEmptySeq
<1>5. Range(c) = Range(<<Head(c)>>) \cup Range(Tail(c))
  BY <1>1, <1>2, RangeOfTwo, Zenon
<1>6. Range(<<Head(c)>>) = {Head(c)}
  BY DEF Range
<1> QED
  BY <1>1, <1>2, <1>3, <1>4, <1>5, <1>6

LEMMA AddingExtends ==
  ASSUME NEW q \in Seq(Event), NEW c \in Seq(Event), NEW e \in Event
  PROVE  /\ Append(c, e) \in Seq(Event)
         /\ q \o Append(c, e) = Append(q \o c, e)
         /\ Range(q \o Append(c, e)) = Range(q \o c) \cup {e}
<1>1. q \o c \in Seq(Event) /\ <<e>> \in Seq(Event)
  BY ConcatProperties
<1>2. Append(c, e) = c \o <<e>> /\ Append(q \o c, e) = (q \o c) \o <<e>>
  BY <1>1, AppendIsConcat
<1>3. (q \o c) \o <<e>> = q \o (c \o <<e>>)
  BY <1>1, ConcatAssociative
<1>4. Range((q \o c) \o <<e>>) = Range(q \o c) \cup Range(<<e>>)
  BY <1>1, RangeOfTwo, Zenon
<1>5. Range(<<e>>) = {e}
  BY DEF Range
<1> QED
  BY <1>1, <1>2, <1>3, <1>4, <1>5, AppendProperties

\* The order of events survives one that is left out in the middle, and one that
\* is added and is later than all others of its forwarder.
LEMMA OrderSurvivesDropping ==
  ASSUME NEW d \in Seq(Event), NEW h \in Seq(Event), NEW c \in Seq(Event), InOrder(d \o h \o c)
  PROVE  InOrder(d \o c)
<1> DEFINE q == d \o h \o c
           p == d \o c
           old(i) == IF i <= Len(d) THEN i ELSE i + Len(h)
<1>1. Len(d) \in Nat /\ Len(h) \in Nat /\ Len(c) \in Nat
  BY LenProperties
<1>2. /\ d \o h \in Seq(Event) /\ Len(d \o h) = Len(d) + Len(h)
      /\ \A i \in 1 .. Len(d) + Len(h) : (d \o h)[i] = IF i <= Len(d) THEN d[i] ELSE h[i - Len(d)]
  BY ConcatProperties
<1>3. /\ q \in Seq(Event) /\ Len(q) = Len(d) + Len(h) + Len(c)
      /\ \A i \in 1 .. Len(d) + Len(h) + Len(c) :
           q[i] = IF i <= Len(d) + Len(h) THEN (d \o h)[i] ELSE c[i - (Len(d) + Len(h))]
  BY <1>2, ConcatProperties
<1>4. /\ p \in Seq(Event) /\ Len(p) = Len(d) + Len(c)
      /\ \A i \in 1 .. Len(d) + Len(c) : p[i] = IF i <= Len(d) THEN d[i] ELSE c[i - Len(d)]
  BY ConcatProperties
<1>5. DOMAIN q = 1 .. Len(d) + Len(h) + Len(c) /\ DOMAIN p = 1 .. Len(d) + Len(c)
  BY <1>3, <1>4, LenProperties
<1> HIDE DEF q, p
<1>6. ASSUME NEW i \in DOMAIN p PROVE old(i) \in DOMAIN q /\ p[i] = q[old(i)]
  <2>1. CASE i <= Len(d)
    <3>1. i \in 1 .. Len(d) + Len(h) /\ i \in 1 .. Len(d) + Len(h) + Len(c) /\ i \in 1 .. Len(d) + Len(c)
      BY <1>1, <1>5, <2>1
    <3>2. q[i] = (d \o h)[i] /\ (d \o h)[i] = d[i] /\ p[i] = d[i]
      BY <1>1, <1>2, <1>3, <1>4, <2>1, <3>1
    <3> QED
      BY <1>5, <2>1, <3>1, <3>2
  <2>2. CASE i > Len(d)
    <3>1. /\ i \in Nat /\ old(i) = i + Len(h)
          /\ i + Len(h) \in 1 .. Len(d) + Len(h) + Len(c) /\ i \in 1 .. Len(d) + Len(c)
          /\ ~ (i + Len(h) <= Len(d) + Len(h)) /\ ~ (i <= Len(d))
          /\ i + Len(h) - (Len(d) + Len(h)) = i - Len(d)
      BY <1>1, <1>5, <2>2
    <3>2. q[i + Len(h)] = c[i + Len(h) - (Len(d) + Len(h))] /\ p[i] = c[i - Len(d)]
      BY <1>3, <1>4, <3>1
    <3> QED
      BY <1>5, <3>1, <3>2
  <2> QED
    BY <1>1, <1>5, <2>1, <2>2
<1>7. \A i, j \in DOMAIN p : i < j => old(i) < old(j)
  BY <1>1, <1>5
<1> HIDE DEF old
<1>8. InOrder(q) => InOrder(p)
  BY <1>6, <1>7 DEF InOrder
<1> QED
  BY <1>8 DEF q, p

LEMMA OrderSurvivesAdding ==
  ASSUME NEW q \in Seq(Event), NEW e \in Event, InOrder(q),
         \A a \in Range(q) : a[1] = e[1] => a[2] < e[2]
  PROVE  InOrder(Append(q, e))
<1> DEFINE p == Append(q, e)
<1>1. /\ Len(q) \in Nat /\ DOMAIN q = 1 .. Len(q)
      /\ p \in Seq(Event) /\ Len(p) = Len(q) + 1
      /\ \A i \in 1 .. Len(q) : p[i] = q[i]
      /\ p[Len(q) + 1] = e
  BY AppendProperties, LenProperties
<1>2. DOMAIN p = 1 .. Len(q) + 1
  BY <1>1, LenProperties
<1>3. \A i \in 1 .. Len(q) : q[i] \in Range(q)
  BY <1>1 DEF Range
<1> HIDE DEF p
<1>4. ASSUME NEW i \in DOMAIN p, NEW j \in DOMAIN p, i < j, p[i][1] = p[j][1]
      PROVE  p[i][2] < p[j][2]
  <2>1. i \in 1 .. Len(q) /\ p[i] = q[i]
    BY <1>1, <1>2, <1>4
  <2>2. CASE j = Len(q) + 1
    BY <1>1, <1>3, <1>4, <2>1, <2>2
  <2>3. CASE j # Len(q) + 1
    <3>1. j \in DOMAIN q /\ p[j] = q[j]
      BY <1>1, <1>2, <2>3
    <3> QED
      BY <1>1, <1>4, <2>1, <3>1 DEF InOrder
  <2> QED
    BY <2>2, <2>3
<1> QED
  BY <1>4 DEF InOrder, p

-----------------------------------------------------------------------------
(* EventStreams: what a stream knows of the events of a forwarder.         *)

\* The number of the last event of a forwarder that a stream was handed, or was
\* no longer to be handed.
Limit(f, s) ==
    IF fwd[f] = "asking" \/ (fwd[f] = "handing" /\ s \in todo[f]) THEN taken[f] - 1 ELSE taken[f]

QueuesTyped ==
    /\ channel \in [Streams -> Seq(Event)]
    /\ held \in [Streams -> Seq(Event)]
    /\ delivered \in [Streams -> Seq(Event)]
    /\ missed \in [Streams -> SUBSET Event]

\* Once it knows one event of a forwarder, a stream that is open knows all that
\* are visible to it from there up to the limit.
Complete(s) ==
    \A a \in Known(s) : \A n \in a[2] .. Limit(a[1], s) :
        Visible(s, <<a[1], n>>) => <<a[1], n>> \in Known(s)
StreamIInv(s) ==
    /\ InOrder(Events(s))
    /\ \A e \in Known(s) : e[2] <= Limit(e[1], s)
    /\ stream[s] \in {"waiting", "sending"} => Complete(s)
    /\ stream[s] # "sending" => held[s] = <<>>
    /\ stream[s] \in {"new", "adding"} => Known(s) = {}
EventsIInv ==
    /\ LockIInv
    /\ QueuesTyped
    /\ \A s \in Streams : StreamIInv(s)

LEMMA KnownAreEvents ==
  ASSUME QueuesTyped, NEW s \in Streams
  PROVE  /\ delivered[s] \in Seq(Event) /\ held[s] \in Seq(Event) /\ channel[s] \in Seq(Event)
         /\ Events(s) \in Seq(Event)
         /\ \A e \in Known(s) : e \in Event /\ e = <<e[1], e[2]>> /\ e[1] \in Forwarders /\ e[2] \in Nat
<1>1. delivered[s] \in Seq(Event) /\ held[s] \in Seq(Event) /\ channel[s] \in Seq(Event) /\ missed[s] \in SUBSET Event
  BY DEF QueuesTyped
<1>2. Events(s) \in Seq(Event) /\ \A e \in Range(Events(s)) : e \in Event
  BY <1>1, Triple DEF Events
<1> QED
  BY <1>1, <1>2 DEF Known, Event

LEMMA LimitIsNumber ==
  ASSUME LockIInv, NEW f \in Forwarders, NEW s
  PROVE  Limit(f, s) \in Int
BY DEF LockIInv, EventsTypeOK, Limit

\* A step that leaves the events of a stream alone, and the limits too unless the
\* stream is not open.
LEMMA QuietStep ==
  ASSUME LockIInv, LockIInv', QueuesTyped, NEW s \in Streams, StreamIInv(s),
         Events(s)' = Events(s), missed'[s] = missed[s], held'[s] = held[s], stream'[s] = stream[s],
         \A f \in Forwarders : \/ Limit(f, s)' = Limit(f, s)
                               \/ Limit(f, s)' >= Limit(f, s) /\ stream[s] \notin {"waiting", "sending"}
  PROVE  StreamIInv(s)'
<1>1. Known(s)' = Known(s)
  BY DEF Known
<1>2. \A e \in Known(s) : e[1] \in Forwarders /\ e[2] \in Nat
  BY KnownAreEvents
<1>3. \A f \in Forwarders : Limit(f, s) \in Int /\ Limit(f, s)' \in Int
  BY LimitIsNumber DEF LockIInv, EventsTypeOK, Limit
<1>4. \A e \in Known(s) : e[2] <= Limit(e[1], s)'
  BY <1>2, <1>3 DEF StreamIInv
<1>5. stream[s] \in {"waiting", "sending"} => Complete(s)'
  BY <1>1, <1>2, <1>3 DEF StreamIInv, Complete, Visible
<1> QED
  BY <1>1, <1>4, <1>5 DEF StreamIInv

\* Steps of a forwarder that hand over nothing.
LEMMA ForwarderIsQuiet ==
  ASSUME LockIInv, LockIInv', QueuesTyped, NEW f \in Forwarders, NEW s \in Streams, StreamIInv(s),
         Receive(f) \/ Finish(f) \/ ReadLock(f) \/ ReadUnlock(f)
  PROVE  StreamIInv(s)'
<1>1. UNCHANGED streamVars
  BY DEF Receive, Finish, ReadLock, ReadUnlock
<1>2. Events(s)' = Events(s) /\ missed'[s] = missed[s] /\ held'[s] = held[s] /\ stream'[s] = stream[s]
  BY <1>1 DEF Events, streamVars
<1>3. ASSUME NEW g \in Forwarders
      PROVE  \/ Limit(g, s)' = Limit(g, s)
             \/ Limit(g, s)' >= Limit(g, s) /\ stream[s] \notin {"waiting", "sending"}
  <2> USE DEF LockIInv, EventsTypeOK, Limit
  <2>1. CASE Receive(f)
    BY <2>1 DEF Receive
  <2>2. CASE Finish(f)
    BY <2>2 DEF Finish
  <2>3. CASE ReadLock(f)
    BY <2>3 DEF ReadLock
  <2>4. CASE ReadUnlock(f)
    BY <2>4 DEF ReadUnlock
  <2> QED
    BY <2>1, <2>2, <2>3, <2>4
<1> QED
  BY <1>2, <1>3, QuietStep

\* The event a forwarder hands over is later than all that the stream knows of it,
\* and afterwards the stream knows it or has missed it.
LEMMA HandKeeps ==
  ASSUME EventsIInv, LockIInv', NEW f \in Forwarders, NEW s \in Streams, Hand(f, s)
  PROVE  QueuesTyped' /\ \A t \in Streams : StreamIInv(t)'
<1> DEFINE e == <<f, taken[f]>>
<1>1. /\ e \in Event /\ e[1] = f /\ e[2] = taken[f]
      /\ s \in todo[f] /\ fwd[f] = "handing" /\ stream[s] \notin {"new", "adding"}
      /\ UNCHANGED <<fwd, taken, stream, held, delivered>>
      /\ todo' = [todo EXCEPT ![f] = @ \ {s}]
  BY DEF Hand, EventsIInv, LockIInv, EventsTypeOK, Event
<1>2. \/ channel' = [channel EXCEPT ![s] = Append(@, e)] /\ missed' = missed
      \/ missed' = [missed EXCEPT ![s] = @ \cup {e}] /\ channel' = channel
  BY DEF Hand
<1>3. QueuesTyped'
  <2>1. Append(channel[s], e) \in Seq(Event)
    BY <1>1, AppendProperties DEF EventsIInv, QueuesTyped
  <2> HIDE DEF e
  <2> QED
    <3>1. QueuesTyped /\ s \in Streams
      BY DEF EventsIInv
    <3>2. channel' \in [Streams -> Seq(Event)]
      <4>1. CASE channel' = channel
        BY <3>1, <4>1, Zenon DEF QueuesTyped
      <4>2. CASE channel' = [channel EXCEPT ![s] = Append(@, e)]
        BY <2>1, <3>1, <4>2 DEF QueuesTyped
      <4> QED
        BY <1>2, <4>1, <4>2, Zenon
    <3>3. missed' \in [Streams -> SUBSET Event]
      <4>1. CASE missed' = missed
        BY <3>1, <4>1, Zenon DEF QueuesTyped
      <4>2. CASE missed' = [missed EXCEPT ![s] = @ \cup {e}]
        BY <1>1, <3>1, <4>2 DEF QueuesTyped
      <4> QED
        BY <1>2, <4>1, <4>2, Zenon
    <3> QED
      BY <1>1, <3>1, <3>2, <3>3, Zenon DEF QueuesTyped
<1>4. /\ Limit(f, s) = taken[f] - 1 /\ Limit(f, s)' = taken[f] /\ taken[f] \in Nat
      /\ \A g \in Forwarders, t \in Streams : g # f \/ t # s => Limit(g, t)' = Limit(g, t)
  BY <1>1 DEF EventsIInv, LockIInv, EventsTypeOK, Limit
<1>5. ASSUME NEW t \in Streams, t # s PROVE StreamIInv(t)'
  <2>1. channel'[t] = channel[t] /\ missed'[t] = missed[t]
    BY <1>2, <1>5 DEF EventsIInv, QueuesTyped
  <2>2. Events(t)' = Events(t) /\ held'[t] = held[t] /\ stream'[t] = stream[t]
    BY <1>1, <2>1 DEF Events
  <2> QED
    BY <1>4, <1>5, <2>1, <2>2, QuietStep DEF EventsIInv
<1>6. StreamIInv(s)'
  <2> DEFINE q == delivered[s] \o held[s]
  <2>1. /\ StreamIInv(s)
        /\ delivered[s] \in Seq(Event) /\ held[s] \in Seq(Event) /\ channel[s] \in Seq(Event)
        /\ Events(s) \in Seq(Event) /\ q \in Seq(Event)
        /\ \A a \in Known(s) : a \in Event /\ a = <<a[1], a[2]>> /\ a[1] \in Forwarders /\ a[2] \in Nat
    BY KnownAreEvents, ConcatProperties DEF EventsIInv
  <2>2. Events(s) = q \o channel[s] /\ Events(s)' = q \o channel'[s]
    BY <1>1 DEF Events
  <2>3. \A a \in Known(s) : a[1] = f => a[2] < taken[f]
    BY <1>4, <2>1 DEF StreamIInv
  <2>4. /\ Events(s)' = Events(s) \/ Events(s)' = Append(Events(s), e)
        /\ Known(s)' = Known(s) \cup {e}
    <3>1. CASE channel' = [channel EXCEPT ![s] = Append(@, e)] /\ missed' = missed
      <4>1. channel'[s] = Append(channel[s], e)
        BY <3>1 DEF EventsIInv, QueuesTyped
      <4>2. Events(s)' = Append(Events(s), e) /\ Range(Events(s)') = Range(Events(s)) \cup {e}
        <5> HIDE DEF e, q
        <5>1. /\ q \o Append(channel[s], e) = Append(q \o channel[s], e)
              /\ Range(q \o Append(channel[s], e)) = Range(q \o channel[s]) \cup {e}
          BY <1>1, <2>1, AddingExtends
        <5> QED
          BY <2>2, <4>1, <5>1
      <4> QED
        BY <3>1, <4>2 DEF Known
    <3>2. CASE missed' = [missed EXCEPT ![s] = @ \cup {e}] /\ channel' = channel
      <4>1. missed'[s] = missed[s] \cup {e}
        BY <3>2 DEF EventsIInv, QueuesTyped
      <4> QED
        BY <2>2, <3>2, <4>1 DEF Known
    <3> QED
      BY <1>2, <3>1, <3>2
  <2>5. InOrder(Events(s)')
    <3>1. \A a \in Range(Events(s)) : a[1] = e[1] => a[2] < e[2]
      BY <1>1, <2>3 DEF Known
    <3>2. InOrder(Events(s))
      BY <2>1 DEF StreamIInv
    <3>3. InOrder(Append(Events(s), e))
      BY <1>1, <2>1, <3>1, <3>2, OrderSurvivesAdding
    <3> QED
      BY <2>4, <3>2, <3>3
  <2> HIDE DEF e, q
  <2>6. \A a \in Known(s)' : a[2] <= Limit(a[1], s)'
    BY <1>1, <1>4, <2>1, <2>3, <2>4 DEF StreamIInv
  <2>7. stream[s] \in {"waiting", "sending"} => Complete(s)'
    <3> SUFFICES ASSUME stream[s] \in {"waiting", "sending"},
                        NEW a \in Known(s)', NEW n \in a[2] .. Limit(a[1], s)', Visible(s, <<a[1], n>>)
                 PROVE  <<a[1], n>> \in Known(s)'
      BY DEF Complete, Visible
    <3>1. CASE a[1] # f
      BY <1>1, <1>4, <2>1, <2>4, <3>1 DEF StreamIInv, Complete
    <3>2. CASE a[1] = f /\ n = taken[f]
      BY <2>4, <3>2 DEF e
    <3>3. CASE a[1] = f /\ n # taken[f]
      <4>1. a \in Known(s) /\ n \in a[2] .. Limit(a[1], s)
        BY <1>1, <1>4, <2>1, <2>4, <3>3
      <4> QED
        BY <2>1, <2>4, <4>1 DEF StreamIInv, Complete
    <3> QED
      BY <3>1, <3>2, <3>3
  <2> QED
    BY <1>1, <2>1, <2>5, <2>6, <2>7 DEF StreamIInv
<1> QED
  BY <1>3, <1>5, <1>6

\* What a stream does itself changes no limit: it takes, sends or drops.
LEMMA StreamKeeps ==
  ASSUME EventsIInv, LockIInv', NEW s \in Streams, StreamNext(s)
  PROVE  QueuesTyped' /\ \A t \in Streams : StreamIInv(t)'
<1> USE DEF Move, fwdVars
<1>1. UNCHANGED <<fwd, taken, todo, missed>>
  BY DEF StreamNext, Open, AddListener, Take, Send, Leave, RemoveListener
<1>2. \A f \in Forwarders, t \in Streams : Limit(f, t)' = Limit(f, t) /\ Limit(f, t) \in Int
  BY <1>1, LimitIsNumber DEF Limit, EventsIInv
<1>3. /\ StreamIInv(s) /\ stream \in [Streams -> {"new", "adding", "waiting", "sending", "leaving", "gone"}]
      /\ delivered[s] \in Seq(Event) /\ held[s] \in Seq(Event) /\ channel[s] \in Seq(Event)
      /\ \A a \in Known(s) : a[1] \in Forwarders /\ a[2] \in Nat
  BY KnownAreEvents DEF EventsIInv, LockIInv, EventsTypeOK
<1>4. ASSUME NEW d \in Seq(Event), NEW h \in Seq(Event), NEW c \in Seq(Event),
             delivered' = [delivered EXCEPT ![s] = d],
             held' = [held EXCEPT ![s] = h],
             channel' = [channel EXCEPT ![s] = c],
             \E l : stream' = [stream EXCEPT ![s] = l]
      PROVE  /\ QueuesTyped'
             /\ delivered'[s] = d /\ held'[s] = h /\ channel'[s] = c
             /\ \A t \in Streams \ {s} : StreamIInv(t)'
  <2>1. /\ QueuesTyped'
        /\ delivered'[s] = d /\ held'[s] = h /\ channel'[s] = c
    BY <1>1, <1>4 DEF EventsIInv, QueuesTyped
  <2>2. ASSUME NEW t \in Streams \ {s} PROVE StreamIInv(t)'
    <3>1. /\ delivered'[t] = delivered[t] /\ held'[t] = held[t] /\ channel'[t] = channel[t]
          /\ stream'[t] = stream[t] /\ missed'[t] = missed[t]
      BY <1>1, <1>4 DEF EventsIInv, QueuesTyped, LockIInv, EventsTypeOK
    <3>2. Events(t)' = Events(t)
      BY <3>1 DEF Events
    <3> QED
      BY <1>2, <3>1, <3>2, QuietStep DEF EventsIInv
  <2> QED
    BY <2>1, <2>2
\* A step after which the stream has the same events, or has lost one that it does
\* not need to have.
<1>5. ASSUME InOrder(Events(s)'),
             Range(Events(s)') \subseteq Range(Events(s)),
             stream'[s] \in {"waiting", "sending"} =>
                \/ Known(s) = {}
                \/ /\ stream[s] \in {"waiting", "sending"}
                   /\ \A a \in Range(Events(s)) : Visible(s, a) => a \in Range(Events(s)'),
             stream'[s] # "sending" => held'[s] = <<>>,
             stream'[s] \in {"new", "adding"} => stream[s] \in {"new", "adding"}
      PROVE  StreamIInv(s)'
  <2>1. Known(s)' \subseteq Known(s)
    BY <1>1, <1>5 DEF Known
  <2>2. \A e \in Known(s)' : e[2] <= Limit(e[1], s)'
    BY <1>2, <1>3, <2>1 DEF StreamIInv
  <2>3. ASSUME stream'[s] \in {"waiting", "sending"} PROVE Complete(s)'
    <3>1. CASE Known(s) = {}
      BY <2>1, <3>1 DEF Complete, Visible
    <3>2. CASE /\ stream[s] \in {"waiting", "sending"}
               /\ \A a \in Range(Events(s)) : Visible(s, a) => a \in Range(Events(s)')
      <4>1. \A a \in Known(s) : Visible(s, a) => a \in Known(s)'
        BY <1>1, <3>2 DEF Known
      <4>2. \A a \in Known(s)' : Limit(a[1], s)' = Limit(a[1], s)
        BY <1>2, <1>3, <2>1
      <4>3. Complete(s)
        BY <3>2, <1>3 DEF StreamIInv
      <4> QED
        BY <2>1, <4>1, <4>2, <4>3 DEF Complete, Visible
    <3> QED
      BY <1>5, <2>3, <3>1, <3>2
  <2>4. stream'[s] \in {"new", "adding"} => Known(s)' = {}
    BY <1>3, <1>5, <2>1 DEF StreamIInv
  <2> QED
    BY <1>5, <2>2, <2>3, <2>4 DEF StreamIInv
<1>6. /\ Events(s) = delivered[s] \o held[s] \o channel[s]
      /\ Events(s)' = delivered'[s] \o held'[s] \o channel'[s]
      /\ delivered = [delivered EXCEPT ![s] = delivered[s]]
      /\ held = [held EXCEPT ![s] = held[s]]
      /\ channel = [channel EXCEPT ![s] = channel[s]]
      /\ <<>> \in Seq(Event)
      /\ InOrder(Events(s))
  BY <1>3 DEF Events, StreamIInv, EventsIInv, QueuesTyped
<1>7. CASE Open(s) \/ AddListener(s) \/ RemoveListener(s)
  <2>1. /\ delivered' = delivered /\ held' = held /\ channel' = channel
        /\ stream[s] \in {"new", "adding", "leaving"}
        /\ stream'[s] \in {"new", "adding"} => stream[s] \in {"new", "adding"}
        /\ stream'[s] \in {"waiting", "sending"} => stream[s] = "adding"
        /\ \E l : stream' = [stream EXCEPT ![s] = l]
    BY <1>3, <1>7 DEF Open, AddListener, RemoveListener
  <2>2. Events(s)' = Events(s)
    BY <1>6, <2>1
  <2>3. StreamIInv(s)'
    BY <1>3, <1>5, <1>6, <2>1, <2>2 DEF StreamIInv
  <2>4. QueuesTyped' /\ \A t \in Streams \ {s} : StreamIInv(t)'
    BY <1>3, <1>4, <1>6, <2>1
  <2> QED
    BY <2>3, <2>4
<1>8. CASE Send(s)
  <2>1. /\ delivered' = [delivered EXCEPT ![s] = delivered[s] \o held[s]]
        /\ held' = [held EXCEPT ![s] = <<>>] /\ channel' = channel
        /\ stream[s] = "sending" /\ stream'[s] = "waiting"
        /\ \E l : stream' = [stream EXCEPT ![s] = l]
    BY <1>3, <1>8 DEF Send
  <2>2. delivered[s] \o held[s] \in Seq(Event)
    BY <1>3, ConcatProperties
  <2>3. /\ QueuesTyped' /\ \A t \in Streams \ {s} : StreamIInv(t)'
        /\ delivered'[s] = delivered[s] \o held[s] /\ held'[s] = <<>> /\ channel'[s] = channel[s]
    <3> DEFINE d == delivered[s] \o held[s]
    <3> HIDE DEF d
    <3>1. /\ d \in Seq(Event) /\ delivered' = [delivered EXCEPT ![s] = d]
          /\ held' = [held EXCEPT ![s] = <<>>] /\ channel' = [channel EXCEPT ![s] = channel[s]]
      BY <1>6, <2>1, <2>2 DEF d
    <3>2. /\ QueuesTyped' /\ \A t \in Streams \ {s} : StreamIInv(t)'
          /\ delivered'[s] = d /\ held'[s] = <<>> /\ channel'[s] = channel[s]
      BY <1>3, <1>4, <1>6, <2>1, <3>1
    <3> QED
      BY <3>2 DEF d
  <2>4. Events(s)' = Events(s)
    <3>1. (delivered[s] \o held[s]) \o <<>> = delivered[s] \o held[s]
      BY <2>2, ConcatEmptySeq
    <3> QED
      BY <1>6, <2>3, <3>1
  <2>5. StreamIInv(s)'
    BY <1>5, <1>6, <2>1, <2>3, <2>4
  <2> QED
    BY <2>3, <2>5
<1>9. CASE Leave(s)
  <2>1. /\ delivered' = delivered /\ held' = [held EXCEPT ![s] = <<>>] /\ channel' = channel
        /\ stream'[s] = "leaving"
        /\ \E l : stream' = [stream EXCEPT ![s] = l]
    BY <1>3, <1>9 DEF Leave
  <2>2. /\ QueuesTyped' /\ \A t \in Streams \ {s} : StreamIInv(t)'
        /\ delivered'[s] = delivered[s] /\ held'[s] = <<>> /\ channel'[s] = channel[s]
    BY <1>3, <1>4, <1>6, <2>1
  <2>3. Events(s)' = delivered[s] \o channel[s]
    BY <1>3, <1>6, <2>2, ConcatEmptySeq
  <2>4. InOrder(Events(s)') /\ Range(Events(s)') \subseteq Range(Events(s))
    BY <1>3, <1>6, <2>3, OrderSurvivesDropping, Triple
  <2>5. StreamIInv(s)'
    BY <1>5, <2>1, <2>2, <2>4
  <2> QED
    BY <2>2, <2>5
<1>10. CASE Take(s)
  <2> DEFINE e == Head(channel[s])
             rest == Tail(channel[s])
  <2>1. /\ stream[s] = "waiting" /\ channel[s] # <<>> /\ delivered' = delivered
        /\ channel' = [channel EXCEPT ![s] = rest]
    BY <1>10 DEF Take
  <2>2. /\ <<e>> \in Seq(Event) /\ rest \in Seq(Event) /\ held[s] = <<>>
        /\ delivered[s] \o <<>> \o channel[s] = delivered[s] \o <<e>> \o rest
        /\ Range(channel[s]) = {e} \cup Range(rest)
    BY <1>3, <2>1, TakingKeeps DEF StreamIInv
  <2>3. Events(s) = delivered[s] \o <<e>> \o rest
    BY <1>6, <2>2
  <2>4. CASE Visible(s, e)
    <3>1. held' = [held EXCEPT ![s] = <<e>>] /\ stream' = [stream EXCEPT ![s] = "sending"]
      BY <1>10, <2>4 DEF Take
    <3>2. stream'[s] = "sending"
      BY <1>3, <3>1
    <3>3. /\ QueuesTyped' /\ \A t \in Streams \ {s} : StreamIInv(t)'
          /\ delivered'[s] = delivered[s] /\ held'[s] = <<e>> /\ channel'[s] = rest
      <4> HIDE DEF e, rest
      <4> QED
        BY <1>3, <1>4, <1>6, <2>1, <2>2, <3>1
    <3>4. Events(s)' = Events(s)
      BY <1>6, <2>3, <3>3
    <3>5. StreamIInv(s)'
      BY <1>5, <1>6, <2>1, <3>2, <3>4
    <3> QED
      BY <3>3, <3>5
  <2>5. CASE ~ Visible(s, e)
    <3>1. held' = held /\ stream' = stream
      BY <1>10, <2>5 DEF Take
    <3>2. /\ QueuesTyped' /\ \A t \in Streams \ {s} : StreamIInv(t)'
          /\ delivered'[s] = delivered[s] /\ held'[s] = <<>> /\ channel'[s] = rest
      <4>1. stream = [stream EXCEPT ![s] = stream[s]]
        BY <1>3
      <4> HIDE DEF e, rest
      <4> QED
        BY <1>3, <1>4, <1>6, <2>1, <2>2, <3>1, <4>1
    <3>3. Events(s)' = delivered[s] \o rest
      BY <1>3, <1>6, <2>2, <3>2, ConcatEmptySeq
    <3>4. /\ InOrder(Events(s)') /\ Range(Events(s)') \subseteq Range(Events(s))
          /\ Range(Events(s)) = Range(delivered[s]) \cup Range(<<e>>) \cup Range(rest)
          /\ Range(Events(s)') = Range(delivered[s]) \cup Range(rest)
      <4> HIDE DEF e, rest
      <4>1. InOrder(delivered[s] \o <<e>> \o rest)
        BY <1>6, <2>3
      <4>2. InOrder(delivered[s] \o rest)
        BY <1>3, <2>2, <4>1, OrderSurvivesDropping
      <4>3. /\ Range(delivered[s] \o <<e>> \o rest) = Range(delivered[s]) \cup Range(<<e>>) \cup Range(rest)
            /\ Range(delivered[s] \o rest) = Range(delivered[s]) \cup Range(rest)
        BY <1>3, <2>2, Triple
      <4> QED
        BY <2>3, <3>3, <4>2, <4>3
    <3>5. Range(<<e>>) = {e}
      BY DEF Range
    <3>6. \A a \in Range(Events(s)) : Visible(s, a) => a \in Range(Events(s)')
      BY <2>5, <3>4, <3>5
    <3> HIDE DEF e, rest
    <3>7. StreamIInv(s)'
      BY <1>5, <2>1, <3>1, <3>2, <3>4, <3>6
    <3> QED
      BY <3>2, <3>7
  <2> QED
    BY <2>4, <2>5
<1> QED
  BY <1>7, <1>8, <1>9, <1>10 DEF StreamNext

LEMMA EventsInductive == EventsSpec => []EventsIInv
<1>1. EventsInit => EventsIInv
  <2> SUFFICES ASSUME EventsInit PROVE EventsIInv
    OBVIOUS
  <2>1. LockIInv /\ QueuesTyped
    BY LockInit DEF EventsInit, QueuesTyped
  <2>2. ASSUME NEW s \in Streams PROVE StreamIInv(s)
    <3>1. Events(s) = <<>> /\ missed[s] = {} /\ held[s] = <<>> /\ stream[s] = "new"
      BY DEF EventsInit, Events
    <3>2. Known(s) = {}
      BY <3>1 DEF Known, Range
    <3> QED
      BY <3>1, <3>2 DEF StreamIInv, InOrder
  <2> QED
    BY <2>1, <2>2 DEF EventsIInv
<1>2. EventsIInv /\ UNCHANGED eventVars => EventsIInv'
  BY DEF EventsIInv, LockIInv, EventsTypeOK, QueuesTyped, StreamIInv, Complete, Visible, Known, Events, Limit,
         eventVars, fwdVars, streamVars
<1>3. ASSUME EventsIInv, NEW f \in Forwarders, ForwarderNext(f) PROVE EventsIInv'
  <2>1. LockIInv'
    BY <1>3, ForwarderKeepsLock DEF EventsIInv
  <2>2. CASE Receive(f) \/ Finish(f) \/ ReadLock(f) \/ ReadUnlock(f)
    <3>1. QueuesTyped'
      BY <1>3, <2>2 DEF Receive, Finish, ReadLock, ReadUnlock, streamVars, EventsIInv, QueuesTyped
    <3> QED
      BY <1>3, <2>1, <2>2, <3>1, ForwarderIsQuiet DEF EventsIInv
  <2> QED
    BY <1>3, <2>1, <2>2, HandKeeps DEF ForwarderNext, EventsIInv
<1>4. ASSUME EventsIInv, NEW s \in Streams, StreamNext(s) PROVE EventsIInv'
  BY <1>4, StreamKeepsLock, StreamKeeps DEF EventsIInv
<1>5. EventsIInv /\ [EventsNext]_eventVars => EventsIInv'
  BY <1>2, <1>3, <1>4 DEF EventsNext
<1> QED
  BY <1>1, <1>5, PTL DEF EventsSpec

\* The process is never stopped by a send into the channel of a stream that has
\* ended, however forwarders and streams interleave.
THEOREM NoSendIntoClosedChannel == EventsSpec => []NeverSendsToClosed
<1>1. EventsIInv => NeverSendsToClosed
  BY DEF EventsIInv, LockIInv, NeverSendsToClosed
<1> QED
  BY <1>1, EventsInductive, PTL

\* Every client gets the events of a forwarder in order and without repetition,
\* and from its first one on all but those it did not want or had no room for,
\* however many streams come and go and however small the buffer is.
THEOREM NoGaps == EventsSpec => []StreamHasNoGaps
<1>1. EventsIInv => StreamHasNoGaps
  <2> SUFFICES ASSUME EventsIInv, NEW s \in Streams
               PROVE  /\ InOrder(Events(s))
                      /\ stream[s] \in {"waiting", "sending"} =>
                           \A a, b \in Known(s) : a[1] = b[1] =>
                              \A n \in a[2] .. b[2] : Visible(s, <<a[1], n>>) => <<a[1], n>> \in Known(s)
    BY DEF StreamHasNoGaps
  <2>1. \A b \in Known(s) : b[2] \in Nat /\ Limit(b[1], s) \in Int /\ b[2] <= Limit(b[1], s)
    BY KnownAreEvents, LimitIsNumber DEF EventsIInv, StreamIInv
  <2> QED
    BY <2>1 DEF EventsIInv, StreamIInv, Complete
<1> QED
  BY <1>1, EventsInductive, PTL

-----------------------------------------------------------------------------
(* Outgoing: the timer of a chat.                                          *)

\* The last change of a chat among those that have happened.
IsChange(i, chat) == Changes[i].chat = chat /\ ~SaysNothing(Changes[i])

LEMMA LastChangeIs ==
  ASSUME changed \in Nat, NEW chat
  PROVE  /\ LastChange(chat) \in 0 .. changed
         /\ LastChange(chat) # 0 => IsChange(LastChange(chat), chat)
         /\ \A i \in 1 .. changed : IsChange(i, chat) => i <= LastChange(chat)
<1> DEFINE I == {i \in 1 .. changed : IsChange(i, chat)}
<1>1. LastChange(chat) = IF I # {} THEN Max(I) ELSE 0
  BY DEF LastChange, SelectLastInSubSeq, IsChange
<1>2. I \in SUBSET (0 .. changed)
  OBVIOUS
<1>3. CASE I = {}
  BY <1>1, <1>3
<1>4. CASE I # {}
  <2>1. LastChange(chat) \in I /\ \A i \in I : i <= LastChange(chat)
    <3> HIDE DEF I
    <3> QED
      BY <1>1, <1>2, <1>4, MaxIsGreatest
  <2> QED
    BY <2>1
<1> QED
  BY <1>3, <1>4

LEMMA LastChangeMoves ==
  ASSUME changed \in Nat, changed' = changed + 1, NEW chat
  PROVE  LastChange(chat)' = IF IsChange(changed', chat) THEN changed' ELSE LastChange(chat)
<1> DEFINE l == LastChange(chat)
           k == LastChange(chat)'
<1>1. /\ l \in 0 .. changed /\ (l # 0 => IsChange(l, chat))
      /\ \A i \in 1 .. changed : IsChange(i, chat) => i <= l
  BY LastChangeIs
<1>2. /\ k \in 0 .. changed + 1 /\ (k # 0 => IsChange(k, chat))
      /\ \A i \in 1 .. changed + 1 : IsChange(i, chat) => i <= k
  <2> DEFINE I == {i \in 1 .. changed' : IsChange(i, chat)}
  <2>1. k = IF I # {} THEN Max(I) ELSE 0
    BY DEF LastChange, SelectLastInSubSeq, IsChange, SaysNothing
  <2>2. I \in SUBSET (0 .. changed + 1) /\ changed + 1 \in Nat
    OBVIOUS
  <2>3. I = {} => k = 0
    BY <2>1
  <2>4. I # {} => k \in I /\ \A i \in I : i <= k
    <3> HIDE DEF I, k
    <3> QED
      BY <2>1, <2>2, MaxIsGreatest
  <2> QED
    BY <2>2, <2>3, <2>4
<1> HIDE DEF l, k
<1>3. k = IF IsChange(changed + 1, chat) THEN changed + 1 ELSE l
  BY <1>1, <1>2
<1> QED
  BY <1>3 DEF l, k

Rpcs == {"SendMessage", "EditMessage", "SendButtonReply", "SendReaction", "RevokeMessage",
         "CancelEventMessage", "MarkRead"}

RequestsTyped ==
    /\ changed \in Nat /\ changed <= Len(Changes)
    /\ \A r \in asked : r.rpc \in Rpcs
    /\ epoch \in [asked -> 0 .. changed]
    /\ info = [r \in asked |-> info[r]]
    /\ \A r \in asked :
         info[r] = [timer |-> info[r].timer, quotes |-> info[r].quotes, mentions |-> info[r].mentions]

\* Messages that await their event, and the writers of a timer, are of requests that
\* have begun; a writer wrote the timer of its own chat.
WritersHaveBegun ==
    /\ \A r \in pending : r \in asked /\ pc[r] # "begin"
    /\ \A c \in DOMAIN writer : \A r \in writer[c] : r \in asked /\ pc[r] # "begin" /\ r.chat = c

\* The last change of the timer was an early reset, or a message built before it was
\* stored after it.
Raced(chat) ==
    \/ /\ LastChange(chat) # 0
       /\ Changes[LastChange(chat)].expiration = 0 /\ Changes[LastChange(chat)].early
    \/ chat \in DOMAIN writer /\ \E r \in writer[chat] : epoch[r] < LastChange(chat)

TimersAreGiven ==
    \A chat : HasTimer(chat) /\ GetChatEphemeralSetting(chat) # Given(chat) => Raced(chat)

\* A request carries the timer its chat was given, or none, or one that has been
\* changed since it was read, or one that came back.
CarriesTimer(r) ==
    \/ info[r].timer \in {NoTimer, Given(r.chat)}
    \/ epoch[r] < LastChange(r.chat)
    \/ Raced(r.chat)
TimersAreCarried ==
    \A r \in asked : CarriesTimer(r) /\ (pc[r] = "begin" => info[r].timer = NoTimer)
OutgoingIInv == RequestsTyped /\ WritersHaveBegun /\ TimersAreGiven /\ TimersAreCarried

LEMMA OutgoingInitIInv == OutgoingInit => OutgoingIInv
<1> SUFFICES ASSUME OutgoingInit PROVE OutgoingIInv
  OBVIOUS
<1>1. PICK requests \in Scenarios :
         /\ pc = [r \in requests |-> "begin"] /\ info = [r \in requests |-> NoContext]
         /\ epoch = [r \in requests |-> 0]
  BY DEF OutgoingInit
<1>2. asked = requests
  BY <1>1 DEF asked
<1>3. timers = <<>> /\ changed = 0 /\ pending = {} /\ writer = <<>>
  BY DEF OutgoingInit
<1>4. RequestsTyped
  <2>1. Len(Changes) \in Nat
    BY OutgoingAssumption, LenProperties
  <2>2. \A r \in requests : r.rpc \in Rpcs
    BY <1>1, OutgoingAssumption DEF Rpcs
  <2>3. \A r \in requests : info[r] = [timer |-> NoTimer, quotes |-> {}, mentions |-> FALSE]
    BY <1>1 DEF NoContext
  <2>4. info = [r \in asked |-> info[r]]
    BY <1>1, <1>2
  <2>5. epoch \in [asked -> 0 .. changed]
    BY <1>1, <1>2, <1>3
  <2>6. ASSUME NEW r \in asked
        PROVE  info[r] = [timer |-> info[r].timer, quotes |-> info[r].quotes, mentions |-> info[r].mentions]
    BY <1>2, <2>3
  <2> QED
    BY <1>2, <1>3, <2>1, <2>2, <2>4, <2>5, <2>6 DEF RequestsTyped
<1>5. WritersHaveBegun
  BY <1>3 DEF WritersHaveBegun
<1>6. \A chat : GetChatEphemeralSetting(chat) = NoTimer /\ Given(chat) = NoTimer
  BY <1>3, LastChangeIs DEF GetChatEphemeralSetting, Given
<1>7. TimersAreGiven /\ TimersAreCarried
  BY <1>1, <1>2, <1>6 DEF TimersAreGiven, TimersAreCarried, CarriesTimer, NoContext
<1> QED
  BY <1>4, <1>5, <1>7 DEF OutgoingIInv

\* Steps that write no timer and build no context.
LEMMA QuietRequest ==
  ASSUME OutgoingIInv, UNCHANGED <<timers, changed, epoch, writer>>, asked' = asked,
         info' = [r \in asked |-> info'[r]],
         \A r \in asked :
            /\ info'[r] = [timer |-> info'[r].timer, quotes |-> info'[r].quotes, mentions |-> info'[r].mentions]
            /\ info'[r].timer = info[r].timer
            /\ pc[r] # "begin" => pc'[r] # "begin",
         \A r \in pending' : r \in pending \/ (r \in asked /\ pc'[r] # "begin")
  PROVE  OutgoingIInv'
<1> USE DEF OutgoingIInv
<1>1. \A chat : LastChange(chat)' = LastChange(chat)
  BY DEF LastChange, SelectLastInSubSeq, SaysNothing
<1>2. \A chat : Given(chat)' = Given(chat) /\ GetChatEphemeralSetting(chat)' = GetChatEphemeralSetting(chat)
  BY <1>1 DEF Given, GetChatEphemeralSetting, HasTimer
<1>3. \A chat : Raced(chat)' <=> Raced(chat)
  BY <1>1 DEF Raced
<1>4. RequestsTyped'
  BY DEF RequestsTyped
<1>5. WritersHaveBegun'
  BY DEF WritersHaveBegun
<1>6. TimersAreGiven'
  BY <1>2, <1>3 DEF TimersAreGiven, HasTimer
<1>7. TimersAreCarried'
  BY <1>1, <1>2, <1>3 DEF TimersAreCarried, CarriesTimer
<1> QED
  BY <1>4, <1>5, <1>6, <1>7

LEMMA RequestsAreQuiet ==
  ASSUME OutgoingIInv, NEW r \in asked,
         Quote(r) \/ LookUp(r) \/ Prepare(r) \/ SendBatch(r) \/ Sent(r) \/ Expire(r) \/ Answer(r)
  PROVE  OutgoingIInv'
<1> USE DEF Shared, request, Goto, Return, Proceed
<1>1. UNCHANGED <<timers, changed, epoch, writer>>
  BY DEF Quote, LookUp, Prepare, SendBatch, Sent, Expire, Answer
<1>2. /\ info = [s \in asked |-> info[s]]
      /\ \A s \in asked :
           info[s] = [timer |-> info[s].timer, quotes |-> info[s].quotes, mentions |-> info[s].mentions]
  BY DEF OutgoingIInv, RequestsTyped
<1>3. pc' = pc \/ \E l : l # "begin" /\ pc' = [pc EXCEPT ![r] = l]
  BY DEF Quote, LookUp, Prepare, SendBatch, Sent, Expire, Answer
<1>4. asked' = asked /\ \A s \in asked : pc[s] # "begin" => pc'[s] # "begin"
  BY <1>3 DEF asked
<1>5. \/ info' = info
      \/ \E v : info' = [info EXCEPT ![r].quotes = v]
      \/ \E v : info' = [info EXCEPT ![r].mentions = v]
  BY DEF Quote, LookUp, Prepare, SendBatch, Sent, Expire, Answer
<1>6. /\ info' = [s \in asked |-> info'[s]]
      /\ \A s \in asked :
           /\ info'[s] = [timer |-> info'[s].timer, quotes |-> info'[s].quotes, mentions |-> info'[s].mentions]
           /\ info'[s].timer = info[s].timer
  <2>1. ASSUME NEW v, info' = [info EXCEPT ![r].quotes = v]
        PROVE  \A s \in asked : info'[s] = IF s = r THEN [info[r] EXCEPT !.quotes = v] ELSE info[s]
    BY <1>2, <2>1
  <2>2. ASSUME NEW v, info' = [info EXCEPT ![r].mentions = v]
        PROVE  \A s \in asked : info'[s] = IF s = r THEN [info[r] EXCEPT !.mentions = v] ELSE info[s]
    BY <1>2, <2>2
  <2>3. \A v : /\ [info[r] EXCEPT !.quotes = v] = [timer |-> info[r].timer, quotes |-> v, mentions |-> info[r].mentions]
              /\ [info[r] EXCEPT !.mentions = v] = [timer |-> info[r].timer, quotes |-> info[r].quotes, mentions |-> v]
    BY <1>2
  <2>4. info' = [s \in asked |-> info'[s]]
    BY <1>2, <1>5
  <2>5. CASE info' = info
    BY <1>2, <2>5
  <2>6. ASSUME NEW v, info' = [info EXCEPT ![r].quotes = v]
        PROVE  <1>6!2
    BY <1>2, <2>1, <2>3, <2>6
  <2>7. ASSUME NEW v, info' = [info EXCEPT ![r].mentions = v]
        PROVE  <1>6!2
    BY <1>2, <2>2, <2>3, <2>7
  <2> QED
    BY <1>5, <2>4, <2>5, <2>6, <2>7
<1>7. \A s \in pending' : s \in pending \/ (s \in asked /\ pc'[s] # "begin")
  <2>1. pending' = pending \/ (pending' = pending \cup {r} /\ pc' = [pc EXCEPT ![r] = "return"])
    BY DEF Quote, LookUp, Prepare, SendBatch, Sent, Expire, Answer
  <2> QED
    BY <2>1 DEF asked
<1> QED
  BY <1>1, <1>4, <1>6, <1>7, QuietRequest

\* A request that begins reads the timer its chat has: the one it was given, unless
\* an old one is back.
LEMMA BeginKeeps ==
  ASSUME OutgoingIInv, NEW r \in asked, Begin(r)
  PROVE  OutgoingIInv'
<1> USE DEF OutgoingIInv
<1>1. /\ UNCHANGED <<timers, changed, writer, pending>> /\ pc[r] = "begin"
      /\ asked' = asked
      /\ \A s \in asked : pc'[s] = "begin" => s # r /\ pc[s] = "begin"
  BY DEF Begin, Shared, Goto, Return, Proceed, asked
<1>2. \/ epoch' = epoch /\ info' = info
      \/ /\ epoch' = [epoch EXCEPT ![r] = changed]
         /\ \/ info' = info
            \/ info' = [info EXCEPT ![r].timer = GetChatEphemeralSetting(r.chat)]
            \/ info' = [info EXCEPT ![r].timer = NoTimer]
  BY DEF Begin
<1>3. \A chat : LastChange(chat)' = LastChange(chat)
  BY <1>1 DEF LastChange, SelectLastInSubSeq, SaysNothing
<1>4. \A chat : Given(chat)' = Given(chat) /\ GetChatEphemeralSetting(chat)' = GetChatEphemeralSetting(chat)
  BY <1>1, <1>3 DEF Given, GetChatEphemeralSetting, HasTimer
<1>5. epoch' \in [asked -> 0 .. changed] /\ \A s \in asked : s # r => epoch'[s] = epoch[s]
  BY <1>2 DEF RequestsTyped
<1>6. \A chat : Raced(chat) => Raced(chat)'
  <2>1. \A c \in DOMAIN writer : \A s \in writer[c] : s # r /\ s \in asked
    BY <1>1 DEF WritersHaveBegun
  <2> QED
    BY <1>1, <1>3, <1>5, <2>1 DEF Raced
<1>7. /\ info' = [s \in asked |-> info'[s]]
      /\ \A s \in asked :
           /\ info'[s] = [timer |-> info'[s].timer, quotes |-> info'[s].quotes, mentions |-> info'[s].mentions]
           /\ \/ info'[s].timer = info[s].timer /\ (s # r \/ info[s].timer = info[r].timer)
              \/ s = r /\ info'[s].timer \in {NoTimer, GetChatEphemeralSetting(r.chat)}
  <2>1. /\ info = [s \in asked |-> info[s]]
        /\ \A s \in asked :
             info[s] = [timer |-> info[s].timer, quotes |-> info[s].quotes, mentions |-> info[s].mentions]
    BY DEF RequestsTyped
  <2>2. CASE info' = info
    BY <2>1, <2>2
  <2>3. ASSUME NEW v \in {NoTimer, GetChatEphemeralSetting(r.chat)}, info' = [info EXCEPT ![r].timer = v]
        PROVE  <1>7
    <3>1. \A s \in asked : info'[s] = IF s = r THEN [info[r] EXCEPT !.timer = v] ELSE info[s]
      BY <2>1, <2>3
    <3>2. [info[r] EXCEPT !.timer = v] = [timer |-> v, quotes |-> info[r].quotes, mentions |-> info[r].mentions]
      BY <2>1
    <3>3. info' = [s \in asked |-> info'[s]]
      BY <2>1, <2>3
    <3> HIDE DEF GetChatEphemeralSetting, NoTimer
    <3> QED
      BY <2>1, <3>1, <3>2, <3>3
  <2> QED
    BY <1>2, <2>2, <2>3
<1>8. RequestsTyped'
  BY <1>1, <1>5, <1>7 DEF RequestsTyped
<1>9. WritersHaveBegun'
  BY <1>1 DEF WritersHaveBegun
<1>10. TimersAreGiven'
  BY <1>4, <1>6 DEF TimersAreGiven, HasTimer
<1>11. ASSUME NEW s \in asked PROVE CarriesTimer(s)'
  <2>1. CASE s # r
    BY <1>3, <1>4, <1>5, <1>6, <1>7, <2>1 DEF TimersAreCarried, CarriesTimer
  <2>2. CASE s = r /\ info'[r].timer \in {NoTimer, GetChatEphemeralSetting(r.chat)}
    <3>1. GetChatEphemeralSetting(r.chat) \in {NoTimer, Given(r.chat)} \/ Raced(r.chat)
      BY DEF TimersAreGiven, GetChatEphemeralSetting
    <3> QED
      BY <1>4, <1>6, <2>2, <3>1 DEF CarriesTimer
  <2>3. CASE s = r /\ info'[r].timer = info[r].timer
    BY <1>1, <2>3 DEF TimersAreCarried, CarriesTimer
  <2> QED
    BY <1>7, <2>1, <2>2, <2>3
<1>12. TimersAreCarried'
  BY <1>1, <1>7, <1>11 DEF TimersAreCarried
<1> QED
  BY <1>8, <1>9, <1>10, <1>12

\* Only SendMessage carries a timer out, so only its messages write one.
LEMMA OwnTimer ==
  ASSUME RequestsTyped, NEW r \in asked
  PROVE  \/ SettingOfOwn(r) = {}
         \/ info[r].timer # NoTimer /\ SettingOfOwn(r) = {info[r].timer}
<1>1. r.rpc \in Rpcs
  BY DEF RequestsTyped
<1>2. NoContext.timer = NoTimer
  BY DEF NoContext
<1>3. CASE r.rpc = "SendMessage"
  <2>1. /\ Message(r) = [content |-> BuildContent(r), context |-> IF r.kind = "pollVote" THEN NoContext ELSE info[r]]
    BY <1>3 DEF Message
  <2>2. Message(r).context \in {NoContext, info[r]}
    BY <2>1
  <2>3. ExtractContextInfo(Message(r)) \in {NoContext, info[r]}
    BY <2>2 DEF ExtractContextInfo
  <2>4. ExtractContextInfo(Message(r)).timer \in {NoTimer, info[r].timer}
    BY <1>2, <2>3
  <2> QED
    BY <2>4 DEF SettingOfOwn
<1>4. CASE r.rpc # "SendMessage"
  <2>1. Message(r).content \in {"edit", "buttonsResponse", "reaction", "revoke", "eventUpdate", "receipt"}
    BY <1>1, <1>4 DEF Message, Rpcs
  <2>2. ExtractContextInfo(Message(r)) = NoContext
    BY <2>1 DEF ExtractContextInfo, ContextContents
  <2> QED
    BY <1>2, <2>2 DEF SettingOfOwn
<1> QED
  BY <1>3, <1>4

\* A message of the session writes the timer it carries: what the chat was given, or
\* what it was given before, and then the writer shows it.
LEMMA StoreOwnKeeps ==
  ASSUME OutgoingIInv, NEW r \in asked, StoreOwn(r)
  PROVE  OutgoingIInv'
<1> USE DEF OutgoingIInv
<1>1. /\ UNCHANGED <<changed, pc, info, epoch>> /\ asked' = asked
      /\ r \in pending /\ pending' = pending \ {r} /\ pc[r] # "begin"
      /\ \/ SettingOfOwn(r) = {} /\ UNCHANGED <<timers, writer>>
         \/ \E t \in SettingOfOwn(r) :
              /\ timers' = Put(timers, r.chat, t)
              /\ writer' = Put(writer, r.chat, {r} \cup WroteTimer(r.chat))
  BY DEF StoreOwn, request, asked, WritersHaveBegun
<1>2. \A chat : LastChange(chat)' = LastChange(chat)
  BY <1>1 DEF LastChange, SelectLastInSubSeq, SaysNothing
<1>3. \A chat : Given(chat)' = Given(chat)
  BY <1>2 DEF Given
<1>4. RequestsTyped'
  BY <1>1 DEF RequestsTyped
<1>5. CASE SettingOfOwn(r) = {}
  <2>1. timers' = timers /\ writer' = writer
    BY <1>1, <1>5
  <2>2. \A chat : Raced(chat)' <=> Raced(chat)
    BY <1>1, <1>2, <2>1 DEF Raced
  <2>3. \A chat : GetChatEphemeralSetting(chat)' = GetChatEphemeralSetting(chat)
    BY <2>1 DEF GetChatEphemeralSetting, HasTimer
  <2>4. WritersHaveBegun'
    BY <1>1, <2>1 DEF WritersHaveBegun
  <2>5. TimersAreGiven'
    BY <1>3, <2>2, <2>3 DEF TimersAreGiven, HasTimer
  <2>6. TimersAreCarried'
    BY <1>1, <1>2, <1>3, <2>2 DEF TimersAreCarried, CarriesTimer
  <2> QED
    BY <1>4, <2>4, <2>5, <2>6
<1>6. CASE info[r].timer # NoTimer /\ SettingOfOwn(r) = {info[r].timer}
  <2>1. /\ timers' = Put(timers, r.chat, info[r].timer)
        /\ writer' = Put(writer, r.chat, {r} \cup WroteTimer(r.chat))
    BY <1>1, <1>6
  <2>2. /\ DOMAIN timers' = DOMAIN timers \cup {r.chat}
        /\ timers'[r.chat] = info[r].timer
        /\ \A c \in DOMAIN timers : c # r.chat => timers'[c] = timers[c]
    BY <2>1 DEF Put
  <2>3. /\ DOMAIN writer' = DOMAIN writer \cup {r.chat}
        /\ writer'[r.chat] = {r} \cup IF r.chat \in DOMAIN writer THEN writer[r.chat] ELSE {}
        /\ \A c \in DOMAIN writer : c # r.chat => writer'[c] = writer[c]
    BY <2>1 DEF Put, WroteTimer
  <2>4. \A chat : Raced(chat) => Raced(chat)'
    BY <1>1, <1>2, <2>3 DEF Raced
  <2>5. \A chat : chat # r.chat => GetChatEphemeralSetting(chat)' = GetChatEphemeralSetting(chat)
    BY <2>2 DEF GetChatEphemeralSetting, HasTimer
  <2>6. info[r].timer = Given(r.chat) \/ Raced(r.chat)'
    <3>1. CASE epoch[r] < LastChange(r.chat)
      BY <1>1, <1>2, <2>3, <3>1 DEF Raced
    <3> QED
      BY <1>6, <2>4, <3>1 DEF TimersAreCarried, CarriesTimer
  <2>7. WritersHaveBegun'
    BY <1>1, <2>3 DEF WritersHaveBegun
  <2>8. TimersAreGiven'
    <3> SUFFICES ASSUME NEW chat, HasTimer(chat), GetChatEphemeralSetting(chat)' # Given(chat)'
                 PROVE  Raced(chat)'
      BY DEF TimersAreGiven, HasTimer
    <3>1. CASE chat # r.chat
      BY <1>3, <2>4, <2>5, <3>1 DEF TimersAreGiven
    <3>2. CASE chat = r.chat
      <4>1. GetChatEphemeralSetting(chat)' = info[r].timer
        BY <2>2, <3>2 DEF GetChatEphemeralSetting, HasTimer
      <4> QED
        BY <1>3, <2>6, <3>2, <4>1
    <3> QED
      BY <3>1, <3>2
  <2>9. TimersAreCarried'
    BY <1>1, <1>2, <1>3, <2>4 DEF TimersAreCarried, CarriesTimer
  <2> QED
    BY <1>4, <2>7, <2>8, <2>9
<1> QED
  BY <1>5, <1>6, OwnTimer

\* A change makes every timer of the chat that was read before it an old one.
LEMMA ChangeKeeps ==
  ASSUME OutgoingIInv, ChangeTimer
  PROVE  OutgoingIInv'
<1> USE DEF OutgoingIInv
<1> PICK c : c = Changes[changed + 1]
  OBVIOUS
<1>1. /\ UNCHANGED <<pending, pc, info, epoch>> /\ asked' = asked
      /\ changed \in Nat /\ changed < Len(Changes) /\ changed' = changed + 1
  BY DEF ChangeTimer, request, asked, RequestsTyped
<1>2. \A chat : LastChange(chat) \in 0 .. changed
  BY <1>1, LastChangeIs
<1>3. \A chat : LastChange(chat)' = IF c.chat = chat /\ ~SaysNothing(c) THEN changed + 1 ELSE LastChange(chat)
  BY <1>1, LastChangeMoves DEF IsChange
<1>4. RequestsTyped'
  <2>1. Len(Changes) \in Nat
    BY OutgoingAssumption, LenProperties
  <2> QED
    BY <1>1, <2>1 DEF RequestsTyped
<1>5. \A r \in asked : epoch[r] \in 0 .. changed
  BY DEF RequestsTyped
<1>6. c.by \in {"other", "history"} /\ c.expiration \in Nat
  <2> DEFINE Change == [chat : {x.chat : x \in Range(Changes)}, by : {"other", "history"},
                        expiration : Nat, early : BOOLEAN]
  <2>1. c \in Change
    <3> Changes \in Seq(Change) /\ Len(Changes) \in Nat
      BY OutgoingAssumption, LenProperties
    <3> changed + 1 \in 1 .. Len(Changes)
      BY <1>1
    <3> HIDE DEF Change
    <3> QED
      BY ElementOfSeq
  <2> QED
    BY <2>1
<1>7. CASE SaysNothing(c)
  <2>1. timers' = timers /\ writer' = writer
    BY <1>7, <1>1 DEF ChangeTimer, SaysNothing
  <2>2. \A chat : LastChange(chat)' = LastChange(chat)
    BY <1>3, <1>7
  <2>3. \A chat : /\ Given(chat)' = Given(chat) /\ (Raced(chat)' <=> Raced(chat))
                 /\ GetChatEphemeralSetting(chat)' = GetChatEphemeralSetting(chat)
    BY <1>1, <2>1, <2>2 DEF Given, Raced, GetChatEphemeralSetting, HasTimer
  <2>4. WritersHaveBegun'
    BY <1>1, <2>1 DEF WritersHaveBegun
  <2>5. TimersAreGiven' /\ TimersAreCarried'
    BY <1>1, <2>2, <2>3 DEF TimersAreGiven, TimersAreCarried, CarriesTimer, HasTimer
  <2> QED
    BY <1>4, <2>4, <2>5
<1>8. CASE ~ SaysNothing(c)
  <2>1. /\ writer' = Put(writer, c.chat, {})
        /\ c.expiration = 0 =>
             \/ timers' = [x \in DOMAIN timers \ {c.chat} |-> timers[x]]
             \/ c.early /\ timers' = timers
        /\ c.expiration # 0 => timers' = Put(timers, c.chat, IF c.by = "history" THEN 0 ELSE c.expiration)
    BY <1>1, <1>8 DEF ChangeTimer, Reset
  <2>2. /\ DOMAIN writer' = DOMAIN writer \cup {c.chat} /\ writer'[c.chat] = {}
        /\ \A x \in DOMAIN writer : x # c.chat => writer'[x] = writer[x]
    BY <2>1 DEF Put
  <2>3. LastChange(c.chat)' = changed + 1 /\ \A chat : chat # c.chat => LastChange(chat)' = LastChange(chat)
    BY <1>3, <1>8
  <2>4. \A chat : chat # c.chat => Given(chat)' = Given(chat) /\ (Raced(chat)' <=> Raced(chat))
    BY <1>1, <2>2, <2>3 DEF Given, Raced
  <2>5. /\ \A x : x # c.chat => (x \in DOMAIN timers' <=> x \in DOMAIN timers)
        /\ \A x \in DOMAIN timers : x # c.chat => timers'[x] = timers[x]
        /\ \/ c.expiration = 0 /\ c.early
           \/ (IF c.chat \in DOMAIN timers' THEN timers'[c.chat] ELSE NoTimer)
                = IF c.expiration = 0 THEN NoTimer ELSE IF c.by = "history" THEN 0 ELSE c.expiration
    <3>1. CASE c.expiration = 0
      <4>1. CASE timers' = [x \in DOMAIN timers \ {c.chat} |-> timers[x]]
        BY <3>1, <4>1
      <4>2. CASE c.early /\ timers' = timers
        BY <3>1, <4>2
      <4> QED
        BY <2>1, <3>1, <4>1, <4>2
    <3>2. CASE c.expiration # 0
      <4>1. timers' = Put(timers, c.chat, IF c.by = "history" THEN 0 ELSE c.expiration)
        BY <2>1, <3>2
      <4> QED
        BY <3>2, <4>1 DEF Put
    <3> QED
      BY <3>1, <3>2
  <2>6. Given(c.chat)' = IF c.expiration = 0 THEN NoTimer ELSE IF c.by = "history" THEN 0 ELSE c.expiration
    BY <1>1, <2>3 DEF Given
  <2>7. WritersHaveBegun'
    BY <1>1, <2>2 DEF WritersHaveBegun
  <2>8. TimersAreGiven'
    <3> SUFFICES ASSUME NEW chat, HasTimer(chat), GetChatEphemeralSetting(chat)' # Given(chat)'
                 PROVE  Raced(chat)'
      BY DEF TimersAreGiven, HasTimer
    <3>0. c.expiration = 0 /\ c.early => Raced(c.chat)'
      BY <1>1, <2>3 DEF Raced
    <3>1. chat # c.chat \/ Raced(chat)'
      BY <2>5, <2>6, <3>0 DEF GetChatEphemeralSetting, HasTimer
    <3> SUFFICES ASSUME chat # c.chat PROVE Raced(chat)'
      BY <3>1
    <3>2. GetChatEphemeralSetting(chat)' = GetChatEphemeralSetting(chat)
      BY <2>5 DEF GetChatEphemeralSetting, HasTimer
    <3> QED
      BY <2>4, <3>2 DEF TimersAreGiven
  <2>9. ASSUME NEW r \in asked PROVE CarriesTimer(r)'
    <3>1. CASE r.chat = c.chat
      <4>1. epoch'[r] < LastChange(r.chat)'
        BY <1>1, <1>5, <2>3, <3>1
      <4> QED
        BY <4>1 DEF CarriesTimer
    <3>2. CASE r.chat # c.chat
      BY <1>1, <2>3, <2>4, <3>2 DEF TimersAreCarried, CarriesTimer
    <3> QED
      BY <3>1, <3>2
  <2>10. TimersAreCarried'
    BY <1>1, <2>9 DEF TimersAreCarried
  <2> QED
    BY <1>4, <2>7, <2>8, <2>10
<1> QED
  BY <1>7, <1>8

LEMMA OutgoingInductive == OutgoingSpec => []OutgoingIInv
<1>1. OutgoingIInv /\ UNCHANGED outgoingVars => OutgoingIInv'
  <2> SUFFICES ASSUME OutgoingIInv, UNCHANGED outgoingVars PROVE OutgoingIInv'
    OBVIOUS
  <2>1. UNCHANGED <<timers, changed, epoch, writer, info, pc, pending>> /\ asked' = asked
    BY DEF outgoingVars, request, asked
  <2> QED
    BY <2>1, QuietRequest DEF OutgoingIInv, RequestsTyped, WritersHaveBegun
<1>2. OutgoingIInv /\ [OutgoingNext]_outgoingVars => OutgoingIInv'
  BY <1>1, BeginKeeps, RequestsAreQuiet, StoreOwnKeeps, ChangeKeeps DEF OutgoingNext
<1> QED
  BY <1>2, OutgoingInitIInv, PTL DEF OutgoingSpec

\* An old timer of a chat comes back only by a message of the session that was built
\* before the last change and stored after it, and stays only at an early reset, for
\* any requests and changes.
THEOREM TimersComeBackByRace == OutgoingSpec => []OldTimerComesBackOnlyByRace
<1>1. OutgoingIInv => OldTimerComesBackOnlyByRace
  <2> SUFFICES ASSUME OutgoingIInv, NEW chat, HasTimer(chat), GetChatEphemeralSetting(chat) # Given(chat)
               PROVE  \/ ResetEarly(chat)
                      \/ \E r \in UNION {writer[c] : c \in DOMAIN writer} :
                            r.chat = chat /\ epoch[r] < LastChange(chat)
    BY DEF OldTimerComesBackOnlyByRace
  <2>1. Raced(chat)
    BY DEF OutgoingIInv, TimersAreGiven
  <2>2. CASE ResetEarly(chat)
    BY <2>2
  <2>3. CASE chat \in DOMAIN writer /\ \E r \in writer[chat] : epoch[r] < LastChange(chat)
    <3>1. PICK r \in writer[chat] : epoch[r] < LastChange(chat)
      BY <2>3
    <3>2. r.chat = chat /\ r \in UNION {writer[c] : c \in DOMAIN writer}
      BY <2>3, <3>1 DEF OutgoingIInv, WritersHaveBegun
    <3> QED
      BY <3>1, <3>2
  <2> QED
    BY <2>1, <2>2, <2>3 DEF Raced, ResetEarly
<1> QED
  BY <1>1, OutgoingInductive, PTL

-----------------------------------------------------------------------------
(* Outgoing: the batches of a status.                                      *)

\* The valid participants are participants, no more, and none twice that was not
\* named twice.
LEMMA ValidAreNamed ==
  ASSUME NEW r, NEW P, AllParticipants(r) \in Seq(P)
  PROVE  /\ ValidParticipants(r) \in Seq(P)
         /\ Len(ValidParticipants(r)) <= Len(AllParticipants(r))
         /\ IsInjective(AllParticipants(r)) => IsInjective(ValidParticipants(r))
<1> DEFINE all == AllParticipants(r)
           N == Len(all)
           T == Seq(P)
           Taken(n, s) == IF all[n].server = "s.whatsapp.net" THEN Append(s, all[n]) ELSE s
           valid == CHOOSE f : f = [n \in 0 .. N |-> IF n = 0 THEN <<>> ELSE Taken(n, f[n - 1])]
<1> HIDE DEF all
<1>1. all \in Seq(P) /\ N \in Nat /\ <<>> \in T /\ \A n \in 1 .. N : all[n] \in P
  BY DEF all
<1>2. \A n \in 1 .. N, s \in T : Taken(n, s) \in T
  BY <1>1
<1>3. valid = [n \in 0 .. N |-> IF n = 0 THEN <<>> ELSE Taken(n, valid[n - 1])]
  <2> DEFINE G == [x \in (1 .. N) \X T |-> Taken(x[1], x[2])]
  <2>1. \A n \in 1 .. N, s \in T : G[<<n, s>>] = Taken(n, s) /\ G[<<n, s>>] \in T
    <3> HIDE DEF Taken, T
    <3> QED
      BY <1>2
  <2>2. PICK f : Steps(f, N, T, <<>>, G)
    <3> HIDE DEF G, T, N
    <3>1. StepsStay(N, T, <<>>, G)
      BY <1>1, <2>1 DEF StepsStay
    <3> QED
      BY <3>1, StepsExist
  <2> USE DEF Steps
  <2>3. \A n \in 0 .. N : f[n] = IF n = 0 THEN <<>> ELSE Taken(n, f[n - 1])
    <3>1. \A n \in 1 .. N : f[n] = Taken(n, f[n - 1])
      <4>1. \A n \in 1 .. N : n - 1 \in 0 .. N
        BY <1>1
      <4>2. \A n \in 1 .. N : f[n - 1] \in T
        BY <2>2, <4>1
      <4> HIDE DEF G, Taken, T, N
      <4> QED
        BY <2>1, <2>2, <4>2
    <3> HIDE DEF Taken, G
    <3> QED
      BY <1>1, <2>2, <3>1
  <2>4. f = [n \in 0 .. N |-> IF n = 0 THEN <<>> ELSE Taken(n, f[n - 1])]
    <3> HIDE DEF Taken, G, T
    <3> QED
      BY <2>2, <2>3
  <2> HIDE DEF Taken, G, T, N
  <2> QED
    BY <2>4
<1>4. ValidParticipants(r) = valid[N]
  BY DEF ValidParticipants, all
<1> HIDE DEF valid
<1>5. /\ valid[0] = <<>>
      /\ \A n \in 1 .. N : valid[n] = Taken(n, valid[n - 1])
  <2> HIDE DEF Taken
  <2> QED
    BY <1>1, <1>3
<1> DEFINE From(s, n) ==
             /\ s \in T /\ Len(s) <= n
             /\ \A i \in 1 .. Len(s) : \E j \in 1 .. n : s[i] = all[j]
             /\ IsInjective(all) => IsInjective(s)
           right == {n \in 0 .. N : From(valid[n], n)}
<1>6. 0 \in right
  <2>1. Len(<<>>) = 0 /\ IsInjective(<<>>)
    BY DEF IsInjective
  <2> HIDE DEF T
  <2> QED
    BY <1>1, <1>5, <2>1
<1>7. ASSUME NEW n \in 1 .. N, n - 1 \in right PROVE n \in right
  <2> DEFINE s == valid[n - 1]
  <2>1. From(s, n - 1) /\ valid[n] = Taken(n, s)
    <3> HIDE DEF Taken, From
    <3> QED
      BY <1>5, <1>7
  <2> HIDE DEF s
  <2>2. From(s, n)
    BY <1>1, <2>1
  <2>3. From(Append(s, all[n]), n)
    <3> DEFINE t == Append(s, all[n])
    <3>1. /\ t \in T /\ Len(t) = Len(s) + 1 /\ Len(s) \in Nat /\ t[Len(s) + 1] = all[n]
          /\ \A i \in 1 .. Len(s) : t[i] = s[i]
      BY <1>1, <2>1
    <3> HIDE DEF t, T
    <3>2. \A i \in 1 .. Len(t) : i \in 1 .. Len(s) \/ i = Len(s) + 1
      BY <3>1
    <3>3. \A i \in 1 .. Len(t) : \E j \in 1 .. n : t[i] = all[j]
      BY <1>1, <2>1, <3>1, <3>2
    <3>4. ASSUME IsInjective(all) PROVE IsInjective(t)
      <4>1. \A i \in 1 .. Len(s) : s[i] # all[n]
        BY <1>1, <2>1, <3>4 DEF IsInjective
      <4>2. DOMAIN t = 1 .. Len(t) /\ DOMAIN s = 1 .. Len(s)
        BY <2>1, <3>1 DEF T
      <4> QED
        BY <2>1, <3>1, <3>2, <3>4, <4>1, <4>2 DEF IsInjective
    <3> QED
      BY <1>1, <2>1, <3>1, <3>3, <3>4 DEF t
  <2> HIDE DEF From
  <2> QED
    BY <1>1, <2>1, <2>2, <2>3
<1>8. N \in right
  <2> HIDE DEF right
  <2>1. 0 .. N \subseteq right
    BY <1>1, <1>6, <1>7, AllUpTo
  <2> QED
    BY <1>1, <2>1
<1> QED
  BY <1>4, <1>8 DEF all

LEMMA LessByOne ==
  ASSUME NEW n \in Nat \ {0}, NEW k \in Nat, NEW l \in Nat, k < l
  PROVE  (k * n) + n <= l * n
<1>1. PICK d \in Nat : l = (k + 1) + d
  <2>1. l - (k + 1) \in Nat /\ l = (k + 1) + (l - (k + 1))
    OBVIOUS
  <2> QED
    BY <2>1
<1>2. l * n = (k * n + n) + d * n
  BY <1>1
<1>3. d * n \in Nat
  BY <1>1
<1> QED
  BY <1>2, <1>3

\* A list is cut into batches that have no place of it in common; a list no longer
\* than a batch is one.
LEMMA ChunksAreApart ==
  ASSUME NEW P, NEW s \in Seq(P), NEW n \in Nat \ {0}, IsInjective(s) \/ Len(s) <= n
  PROVE  /\ Len(Chunk(s, n)) \in Nat /\ DOMAIN Chunk(s, n) = 1 .. Len(Chunk(s, n))
         /\ \A k, l \in 1 .. Len(Chunk(s, n)) :
              \A p \in Range(Chunk(s, n)[k]) : p \in Range(Chunk(s, n)[l]) => k = l
<1> DEFINE m == (Len(s) + n - 1) \div n
           end(k) == IF k * n < Len(s) THEN k * n ELSE Len(s)
<1>1. Len(s) \in Nat
  OBVIOUS
<1>2. /\ m \in Nat /\ m * n <= Len(s) + n - 1
  <2>1. Len(s) + n - 1 \in Nat
    BY <1>1
  <2> QED
    BY <2>1
<1>3. Chunk(s, n) = [k \in 1 .. m |-> SubSeq(s, (k - 1) * n + 1, end(k))]
  BY DEF Chunk
<1> HIDE DEF m
<1>4. DOMAIN Chunk(s, n) = 1 .. m /\ Len(Chunk(s, n)) = m
  BY <1>2, <1>3
<1>5. ASSUME NEW k \in 1 .. m, NEW p \in Range(Chunk(s, n)[k])
      PROVE  \E i \in 1 .. Len(s) : s[i] = p /\ (k - 1) * n < i /\ i <= k * n
  <2> DEFINE b == (k - 1) * n + 1
             part == SubSeq(s, b, end(k))
  <2>1. b \in Nat /\ b >= 1 /\ end(k) \in Nat /\ end(k) <= Len(s) /\ end(k) <= k * n
    <3>1. (k - 1) * n \in Nat /\ k * n \in Nat
      BY <1>2
    <3> QED
      BY <1>1, <3>1
  <2>2. Chunk(s, n)[k] = part
    BY <1>3
  <2> HIDE DEF end
  <2>3. part = [i \in 1 .. (end(k) - b + 1) |-> s[i + b - 1]]
    BY <2>1
  <2>4. PICK i \in 1 .. (end(k) - b + 1) : p = s[i + b - 1]
    <3>1. PICK i \in DOMAIN part : p = part[i]
      <4> HIDE DEF part
      <4> QED
        BY <1>5, <2>2 DEF Range
    <3> HIDE DEF b
    <3> QED
      BY <2>3, <3>1
  <2>5. i + b - 1 \in 1 .. Len(s) /\ (k - 1) * n < i + b - 1 /\ i + b - 1 <= k * n
    <3> DEFINE c == (k - 1) * n
               d == k * n
    <3>1. c \in Nat /\ d \in Nat /\ b = c + 1
      BY <1>2
    <3> HIDE DEF b, c, d
    <3> QED
      BY <1>1, <2>1, <2>4, <3>1 DEF d, c
  <2> QED
    BY <2>4, <2>5
<1>6. ASSUME NEW k \in 1 .. m, NEW l \in 1 .. m, k < l, NEW p \in Range(Chunk(s, n)[k]), p \in Range(Chunk(s, n)[l])
      PROVE  FALSE
  <2>1. PICK i \in 1 .. Len(s) : s[i] = p /\ (k - 1) * n < i /\ i <= k * n
    BY <1>5
  <2>2. PICK j \in 1 .. Len(s) : s[j] = p /\ (l - 1) * n < j /\ j <= l * n
    BY <1>5, <1>6
  <2>3. k * n <= (l - 1) * n
    <3>1. k - 1 \in Nat /\ l - 1 \in Nat /\ k - 1 < l - 1
      BY <1>6
    <3>2. (k - 1) * n + n <= (l - 1) * n
      BY <3>1, LessByOne
    <3> QED
      BY <3>2
  <2>4. i < j
    <3> DEFINE c == k * n
               d == (l - 1) * n
    <3>1. c \in Nat /\ d \in Nat
      BY <1>2
    <3> HIDE DEF c, d
    <3> QED
      BY <1>1, <2>1, <2>2, <2>3, <3>1 DEF c, d
  <2>5. CASE IsInjective(s)
    BY <2>1, <2>2, <2>4, <2>5 DEF IsInjective
  <2>6. CASE Len(s) <= n
    <3>1. n <= (l - 1) * n
      <4>1. l - 1 \in Nat /\ 0 < l - 1 /\ 0 * n + n = n
        BY <1>6
      <4> QED
        BY <4>1, LessByOne
    <3> DEFINE d == (l - 1) * n
    <3>2. d \in Nat
      BY <1>2
    <3> HIDE DEF d
    <3> QED
      BY <1>1, <2>2, <2>6, <3>1, <3>2 DEF d
  <2> QED
    BY <2>5, <2>6
<1>7. ASSUME NEW k \in 1 .. m, NEW l \in 1 .. m, NEW p \in Range(Chunk(s, n)[k]), p \in Range(Chunk(s, n)[l])
      PROVE  k = l
  <2>1. ~ (k < l) /\ ~ (l < k)
    BY <1>6, <1>7
  <2> QED
    BY <1>2, <2>1
<1> QED
  BY <1>2, <1>4, <1>7

LEMMA BatchesAreApart ==
  ASSUME NEW requests \in Scenarios, NEW r \in requests
  PROVE  /\ Len(Batches(r)) \in Nat /\ DOMAIN Batches(r) = 1 .. Len(Batches(r))
         /\ \A k, l \in 1 .. Len(Batches(r)) :
              \A p \in Range(Batches(r)[k]) : p \in Range(Batches(r)[l]) => k = l
<1>1. /\ r.participants \in Seq(Range(r.participants)) /\ Len(r.participants) \in Nat
      /\ r.participants # <<>> => Len(r.participants) # 0
  BY OutgoingAssumption
<1>2. CASE r.rpc # "MarkRead" /\ IsStatus(r.chat)
  <2>1. Batches(r) = Chunk(ValidParticipants(r), Size(r))
    BY <1>2 DEF Batches
  <2>2. \E P : AllParticipants(r) \in Seq(P)
    <3>1. Audience \in Seq(Range(Audience))
      BY OutgoingAssumption
    <3>2. Reverse(Audience) \in Seq(Range(Audience))
      BY <3>1 DEF Reverse
    <3> QED
      BY <1>1, <3>2 DEF AllParticipants
  <2>3. PICK P : AllParticipants(r) \in Seq(P)
    BY <2>2
  <2>4. IsInjective(AllParticipants(r)) \/ Len(AllParticipants(r)) <= Size(r)
    <3>1. CASE r.participants # <<>>
      BY <1>1, <3>1 DEF AllParticipants, Size
    <3>2. CASE r.participants = <<>>
      <4>1. AllParticipants(r) = Reverse(Audience)
        BY <3>2 DEF AllParticipants
      <4>2. DOMAIN Audience = 1 .. Len(Audience) /\ Len(Audience) \in Nat /\ IsInjective(Audience)
        BY OutgoingAssumption
      <4> QED
        BY <4>1, <4>2 DEF Reverse, IsInjective
    <3> QED
      BY <3>1, <3>2
  <2>5. Size(r) \in Nat \ {0}
    BY <1>1, OutgoingAssumption DEF Size
  <2>6. /\ ValidParticipants(r) \in Seq(P)
        /\ IsInjective(ValidParticipants(r)) \/ Len(ValidParticipants(r)) <= Size(r)
    <3>1. Len(ValidParticipants(r)) <= Len(AllParticipants(r)) /\ ValidParticipants(r) \in Seq(P)
          /\ (IsInjective(AllParticipants(r)) => IsInjective(ValidParticipants(r)))
      BY <2>3, ValidAreNamed
    <3>2. Len(ValidParticipants(r)) \in Nat /\ Len(AllParticipants(r)) \in Nat
      BY <2>3, <3>1
    <3> QED
      BY <2>4, <2>5, <3>1, <3>2
  <2> QED
    BY <2>1, <2>5, <2>6, ChunksAreApart
<1>3. CASE ~ (r.rpc # "MarkRead" /\ IsStatus(r.chat))
  <2>1. \E b : Batches(r) = <<b>>
    BY <1>3 DEF Batches
  <2> QED
    BY <2>1
<1> QED
  BY <1>2, <1>3

Waypoints == {"begin", "quote", "lookup", "prepare", "send", "return", "answered"}

RequestsCounted ==
    /\ asked \in Scenarios
    /\ pc \in [asked -> Waypoints] /\ answer = [r \in asked |-> answer[r]]
    /\ batch = [r \in asked |-> batch[r]] /\ errs = [r \in asked |-> errs[r]]
    /\ \E S : sent \in Seq(S)

\* As long as nothing failed, what went out are the batches that were tried.
SentAreBatches(r) ==
    \E f \in [1 .. batch[r] -> DOMAIN sent] :
        /\ Got(r) = {f[k] : k \in 1 .. batch[r]}
        /\ \A k \in 1 .. batch[r] : sent[f[k]].to = Batches(r)[k]

\* What a request has sent and counted, and what it is going to answer.
Tally(r) ==
    /\ batch[r] \in 0 .. Len(Batches(r)) /\ errs[r] \in Nat
    /\ pc[r] \notin {"send", "return", "answered"} => batch[r] = 0
    /\ batch[r] = 0 => Got(r) = {} /\ errs[r] = 0
    /\ errs[r] = 0 => SentAreBatches(r)
    /\ pc[r] \in {"return", "answered"} =>
         /\ answer[r] = "ok" => errs[r] = 0 /\ batch[r] = Len(Batches(r))
         /\ answer[r] = "error" => batch[r] = 0 \/ errs[r] > 0 \/ r \in late

AnswersIInv == RequestsCounted /\ \A r \in asked : Tally(r)

LEMMA AnswersStart == OutgoingInit => AnswersIInv
<1> SUFFICES ASSUME OutgoingInit PROVE AnswersIInv
  OBVIOUS
<1>1. PICK requests \in Scenarios :
         /\ pc = [r \in requests |-> "begin"] /\ answer = [r \in requests |-> "none"]
         /\ batch = [r \in requests |-> 0] /\ errs = [r \in requests |-> 0]
  BY DEF OutgoingInit
<1>2. asked = requests
  BY <1>1 DEF asked
<1>3. sent = <<>>
  BY DEF OutgoingInit
<1>4. RequestsCounted
  <2>1. sent \in Seq({})
    BY <1>3
  <2> QED
    BY <1>1, <1>2, <2>1 DEF RequestsCounted, Waypoints
<1>5. ASSUME NEW r \in asked PROVE Tally(r)
  <2>1. Got(r) = {}
    BY <1>3 DEF Got
  <2>2. SentAreBatches(r)
    <3>1. 1 .. batch[r] = {}
      BY <1>1, <1>2
    <3>2. <<>> \in [{} -> DOMAIN sent]
      OBVIOUS
    <3> QED
      BY <2>1, <3>1, <3>2 DEF SentAreBatches
  <2>3. Len(Batches(r)) \in Nat
    BY <1>2, BatchesAreApart
  <2> QED
    BY <1>1, <1>2, <2>1, <2>2, <2>3 DEF Tally
<1> QED
  BY <1>4, <1>5 DEF AnswersIInv

\* What others do changes nothing of what a request has sent.
LEMMA OthersSend ==
  ASSUME RequestsCounted, NEW r \in asked, Tally(r),
         \/ sent' = sent
         \/ \E m : sent' = Append(sent, m) /\ m.by # r,
         batch'[r] = batch[r], errs'[r] = errs[r], answer'[r] = answer[r] /\ pc'[r] = pc[r], late \subseteq late'
  PROVE  Tally(r)'
<1>1. PICK S : sent \in Seq(S)
  BY DEF RequestsCounted
<1>2. /\ DOMAIN sent \subseteq DOMAIN sent' /\ \A i \in DOMAIN sent : sent'[i] = sent[i]
      /\ \A i \in DOMAIN sent' \ DOMAIN sent : sent'[i].by # r
  <2>1. ASSUME NEW m, sent' = Append(sent, m), m.by # r
        PROVE  <1>2
    BY <1>1, <2>1
  <2> QED
    BY <2>1
<1>3. Got(r)' = Got(r)
  BY <1>2 DEF Got
<1>4. SentAreBatches(r) => SentAreBatches(r)'
  <2> SUFFICES ASSUME NEW f \in [1 .. batch[r] -> DOMAIN sent],
                      /\ Got(r) = {f[k] : k \in 1 .. batch[r]}
                      /\ \A k \in 1 .. batch[r] : sent[f[k]].to = Batches(r)[k]
               PROVE  SentAreBatches(r)'
    BY DEF SentAreBatches
  <2>1. f \in [1 .. batch'[r] -> DOMAIN sent']
    BY <1>2
  <2>2. \A k \in 1 .. batch[r] : sent'[f[k]] = sent[f[k]]
    BY <1>2
  <2>3. Got(r)' = {f[k] : k \in 1 .. batch'[r]}
    BY <1>3
  <2>4. \A k \in 1 .. batch'[r] : sent'[f[k]].to = Batches(r)[k]
    BY <2>2
  <2> QED
    BY <2>1, <2>3, <2>4 DEF SentAreBatches, Batches, ValidParticipants, AllParticipants, Size, IsStatus, Chunk
<1> QED
  BY <1>3, <1>4 DEF Tally, Batches, ValidParticipants, AllParticipants, Size, IsStatus, Chunk

\* What a request may answer that sends nothing now.
LEMMA SendsNothing ==
  ASSUME AnswersIInv, NEW r \in asked, NEW l \in Waypoints,
         UNCHANGED <<sent, batch, errs>>, pc' = [pc EXCEPT ![r] = l], late' = late,
         answer' = answer \/ \E a : answer' = [answer EXCEPT ![r] = a],
         batch[r] = 0 \/ l \in {"send", "return", "answered"},
         l \in {"return", "answered"} =>
           /\ answer'[r] = "ok" => errs[r] = 0 /\ batch[r] = Len(Batches(r))
           /\ answer'[r] = "error" => batch[r] = 0 \/ errs[r] > 0 \/ r \in late
  PROVE  AnswersIInv'
<1> USE DEF AnswersIInv
<1>1. RequestsCounted'
  <2>1. asked' = asked /\ pc' \in [asked -> Waypoints]
    BY DEF RequestsCounted, asked
  <2>2. answer' = [s \in asked |-> answer'[s]]
    BY DEF RequestsCounted
  <2> QED
    BY <2>1, <2>2 DEF RequestsCounted
<1>2. asked' = asked
  BY DEF asked
<1>3. ASSUME NEW s \in asked, s # r PROVE Tally(s)'
  <2>1. pc'[s] = pc[s] /\ answer'[s] = answer[s]
    BY <1>3 DEF RequestsCounted, asked
  <2> QED
    BY <2>1, OthersSend
<1>4. Tally(r)'
  <2>1. pc'[r] = l
    BY DEF asked
  <2>2. SentAreBatches(r)' <=> SentAreBatches(r)
    BY DEF SentAreBatches, Got, Batches, ValidParticipants, AllParticipants, Size, IsStatus, Chunk
  <2>3. Got(r)' = Got(r) /\ Batches(r)' = Batches(r)
    BY DEF Got, Batches, ValidParticipants, AllParticipants, Size, IsStatus, Chunk
  <2>4. Tally(r)
    OBVIOUS
  <2> QED
    BY <2>1, <2>2, <2>3, <2>4 DEF Tally
<1> QED
  BY <1>1, <1>2, <1>3, <1>4

LEMMA HandlersCount ==
  ASSUME AnswersIInv, NEW r \in asked, Begin(r) \/ Quote(r) \/ LookUp(r) \/ Prepare(r) \/ Sent(r) \/ Answer(r)
  PROVE  AnswersIInv'
<1> USE DEF Shared, Goto, Return, Waypoints
<1>1. UNCHANGED <<sent, batch, errs, late>>
  BY DEF Begin, Quote, LookUp, Prepare, Sent, Answer
<1>2. Tally(r)
  BY DEF AnswersIInv
<1>3. CASE Begin(r) \/ Quote(r) \/ LookUp(r) \/ Prepare(r)
  <2>1. batch[r] = 0
    BY <1>2, <1>3 DEF Tally, Begin, Quote, LookUp, Prepare
  <2>2. \/ answer' = answer /\ \E l \in {"quote", "lookup", "prepare", "send"} : pc' = [pc EXCEPT ![r] = l]
        \/ pc' = [pc EXCEPT ![r] = "return"] /\ answer' = [answer EXCEPT ![r] = "error"]
    BY <1>3 DEF Begin, Quote, LookUp, Prepare, Proceed
  <2>3. answer' = [answer EXCEPT ![r] = "error"] => answer'[r] # "ok"
    BY DEF AnswersIInv, RequestsCounted
  <2> QED
    BY <1>1, <2>1, <2>2, <2>3, SendsNothing
<1>4. CASE Sent(r)
  <2> DEFINE a == IF errs[r] = 0 THEN "ok" ELSE "error"
  <2>1. pc' = [pc EXCEPT ![r] = "return"] /\ answer' = [answer EXCEPT ![r] = a] /\ batch[r] = Len(Batches(r))
    BY <1>4 DEF Sent
  <2>2. answer'[r] = a
    BY <2>1 DEF AnswersIInv, RequestsCounted
  <2>3. a = "ok" => errs[r] = 0
    OBVIOUS
  <2>4. a = "error" => errs[r] > 0
    BY <1>2 DEF Tally
  <2> HIDE DEF a
  <2> QED
    BY <1>1, <2>1, <2>2, <2>3, <2>4, SendsNothing
<1>5. CASE Answer(r)
  <2> DEFINE a == IF r \in late THEN "error" ELSE answer[r]
  <2>1. pc' = [pc EXCEPT ![r] = "answered"] /\ answer' = [answer EXCEPT ![r] = a] /\ pc[r] = "return"
    BY <1>5 DEF Answer
  <2>2. answer'[r] = a
    BY <2>1 DEF AnswersIInv, RequestsCounted
  <2>3. a = "ok" => errs[r] = 0 /\ batch[r] = Len(Batches(r))
    BY <1>2, <2>1 DEF Tally
  <2>4. a = "error" => batch[r] = 0 \/ errs[r] > 0 \/ r \in late
    BY <1>2, <2>1 DEF Tally
  <2> HIDE DEF a
  <2> QED
    BY <1>1, <2>1, <2>2, <2>3, <2>4, SendsNothing
<1> QED
  BY <1>3, <1>4, <1>5

\* A batch that is tried counts as sent, or as failed.
LEMMA BatchesCount ==
  ASSUME AnswersIInv, NEW r \in asked, SendBatch(r)
  PROVE  AnswersIInv'
<1> USE DEF AnswersIInv
<1>1. PICK took \in BOOLEAN, told \in BOOLEAN :
        /\ told => took
        /\ errs' = [errs EXCEPT ![r] = IF told THEN @ ELSE @ + 1]
        /\ sent' = IF ~took THEN sent
                   ELSE Append(sent, [by |-> r, to |-> Batches(r)[batch'[r]], content |-> Message(r).content,
                                      context |-> Message(r).context])
  BY DEF SendBatch
<1> DEFINE m == [by |-> r, to |-> Batches(r)[batch'[r]], content |-> Message(r).content,
                 context |-> Message(r).context]
<1>2. m.by = r /\ m.to = Batches(r)[batch'[r]] /\ sent' = IF took THEN Append(sent, m) ELSE sent
  BY <1>1
<1> HIDE DEF m
<1>3. /\ UNCHANGED <<pc, answer, late>> /\ pc[r] = "send" /\ asked' = asked
      /\ batch' = [batch EXCEPT ![r] = batch[r] + 1] /\ batch[r] < Len(Batches(r))
  BY DEF SendBatch, asked
<1>4. PICK S : sent \in Seq(S)
  BY DEF RequestsCounted
<1>5. RequestsCounted'
  <2>1. Append(sent, m) \in Seq(S \cup {m}) /\ sent \in Seq(S \cup {m})
    BY <1>4
  <2>2. sent' \in Seq(S \cup {m})
    BY <1>2, <2>1
  <2>3. batch' = [s \in asked |-> batch'[s]] /\ errs' = [s \in asked |-> errs'[s]]
    BY <1>1, <1>3 DEF RequestsCounted
  <2> QED
    BY <1>3, <2>2, <2>3 DEF RequestsCounted
<1>6. ASSUME NEW s \in asked, s # r PROVE Tally(s)'
  <2>1. batch'[s] = batch[s] /\ errs'[s] = errs[s]
    BY <1>1, <1>3, <1>6 DEF RequestsCounted
  <2>2. sent' = sent \/ \E x : sent' = Append(sent, x) /\ x.by # s
    BY <1>2, <1>6
  <2> QED
    BY <1>3, <2>1, <2>2, OthersSend
<1>7. Tally(r)'
  <2>1. /\ batch'[r] = batch[r] + 1 /\ batch[r] \in 0 .. Len(Batches(r)) /\ errs[r] \in Nat
        /\ errs'[r] = IF told THEN errs[r] ELSE errs[r] + 1
    BY <1>1, <1>3 DEF RequestsCounted, Tally
  <2>2. Batches(r)' = Batches(r) /\ Len(Batches(r)) \in Nat
    BY BatchesAreApart DEF RequestsCounted, Batches, ValidParticipants, AllParticipants, Size, IsStatus, Chunk
  <2>3. ASSUME errs'[r] = 0 PROVE SentAreBatches(r)'
    <3>1. errs[r] = 0 /\ took /\ sent' = Append(sent, m)
      BY <1>1, <1>2, <2>1, <2>3
    <3>2. PICK f \in [1 .. batch[r] -> DOMAIN sent] :
            /\ Got(r) = {f[k] : k \in 1 .. batch[r]}
            /\ \A k \in 1 .. batch[r] : sent[f[k]].to = Batches(r)[k]
      BY <3>1 DEF Tally, SentAreBatches
    <3> DEFINE n == Len(sent) + 1
               b == batch[r] + 1
               g == [k \in 1 .. b |-> IF k = b THEN n ELSE f[k]]
    <3>3. /\ DOMAIN sent' = DOMAIN sent \cup {n} /\ sent'[n] = m /\ n \notin DOMAIN sent
          /\ \A i \in DOMAIN sent : sent'[i] = sent[i]
      BY <1>4, <3>1
    <3>4. batch[r] \in Nat /\ \A k \in 1 .. b : k = b \/ k \in 1 .. batch[r]
      BY <2>1
    <3> HIDE DEF n
    <3>5. b \in 1 .. b /\ g[b] = n /\ \A k \in 1 .. batch[r] : k # b /\ k \in 1 .. b /\ g[k] = f[k]
      BY <3>4
    <3>6. g \in [1 .. b -> DOMAIN sent']
      BY <3>2, <3>3, <3>4
    <3>7. Got(r)' = Got(r) \cup {n}
      BY <1>2, <3>3 DEF Got
    <3>8. Got(r)' = {g[k] : k \in 1 .. b}
      <4> HIDE DEF g, b
      <4> QED
        BY <3>2, <3>4, <3>5, <3>7
    <3>9. \A k \in 1 .. b : sent'[g[k]].to = Batches(r)[k]
      <4>1. sent'[g[b]].to = Batches(r)[b]
        BY <1>2, <2>1, <3>3, <3>5
      <4>2. \A k \in 1 .. batch[r] : sent'[g[k]].to = Batches(r)[k]
        BY <3>2, <3>3, <3>5
      <4> HIDE DEF g, b
      <4> QED
        BY <3>4, <4>1, <4>2
    <3> HIDE DEF g
    <3> QED
      BY <2>1, <2>2, <3>6, <3>8, <3>9 DEF SentAreBatches
  <2>4. errs'[r] \in Nat /\ batch'[r] \in 0 .. Len(Batches(r)) /\ batch'[r] # 0
    BY <1>3, <2>1, <2>2
  <2> QED
    BY <1>3, <2>2, <2>3, <2>4 DEF Tally
<1> QED
  BY <1>3, <1>5, <1>6, <1>7

\* The deadline and the storage send nothing.
LEMMA RestCounts ==
  ASSUME AnswersIInv,
         \/ UNCHANGED outgoingVars \/ ChangeTimer
         \/ \E r \in asked : Expire(r) \/ StoreOwn(r)
  PROVE  AnswersIInv'
<1>1. UNCHANGED <<sent, pc, batch, errs, answer>> /\ late \subseteq late' /\ asked' = asked
  BY DEF outgoingVars, ChangeTimer, Expire, StoreOwn, request, asked
<1>2. RequestsCounted'
  BY <1>1 DEF AnswersIInv, RequestsCounted
<1>3. ASSUME NEW r \in asked PROVE Tally(r)'
  BY <1>1, OthersSend DEF AnswersIInv
<1> QED
  BY <1>1, <1>2, <1>3 DEF AnswersIInv

LEMMA AnswersInductive == OutgoingSpec => []AnswersIInv
<1>1. AnswersIInv /\ [OutgoingNext]_outgoingVars => AnswersIInv'
  BY HandlersCount, BatchesCount, RestCounts DEF OutgoingNext
<1> QED
  BY <1>1, AnswersStart, PTL DEF OutgoingSpec

\* An ok says that everyone the message was for got it, once; an error after which
\* somebody got it, that a batch failed or that it came too late: for any requests,
\* participants and size of batches.
THEOREM AnswersAreTrue == OutgoingSpec => []AnswerIsTrue
<1>1. ASSUME AnswersIInv, NEW r \in asked, pc[r] = "answered", answer[r] = "ok", NEW p \in Named(r)
      PROVE  Cardinality({i \in Got(r) : \E j \in DOMAIN sent[i].to : sent[i].to[j] = p}) = 1
  <2>1. batch[r] = Len(Batches(r)) /\ SentAreBatches(r)
    BY <1>1 DEF AnswersIInv, Tally
  <2>2. PICK f \in [1 .. batch[r] -> DOMAIN sent] :
          /\ Got(r) = {f[k] : k \in 1 .. batch[r]}
          /\ \A k \in 1 .. batch[r] : sent[f[k]].to = Batches(r)[k]
    BY <2>1 DEF SentAreBatches
  <2>3. /\ DOMAIN Batches(r) = 1 .. batch[r]
        /\ \A k, l \in 1 .. batch[r] : \A q \in Range(Batches(r)[k]) : q \in Range(Batches(r)[l]) => k = l
    BY <1>1, <2>1, BatchesAreApart DEF AnswersIInv, RequestsCounted
  <2>4. PICK k \in 1 .. batch[r] : p \in Range(Batches(r)[k])
    BY <1>1, <2>3 DEF Named, Range
  <2>5. \A i \in Got(r) : (\E j \in DOMAIN sent[i].to : sent[i].to[j] = p) <=> p \in Range(sent[i].to)
    BY DEF Range
  <2>6. \A l \in 1 .. batch[r] : p \in Range(sent[f[l]].to) <=> l = k
    BY <2>2, <2>3, <2>4
  <2>7. {i \in Got(r) : \E j \in DOMAIN sent[i].to : sent[i].to[j] = p} = {f[k]}
    BY <2>2, <2>4, <2>5, <2>6
  <2> QED
    BY <2>7, FS_Singleton
<1>2. ASSUME AnswersIInv, NEW r \in asked, pc[r] = "answered", answer[r] = "error", Got(r) # {}
      PROVE  errs[r] > 0 \/ r \in late
  BY <1>2 DEF AnswersIInv, Tally
<1>3. AnswersIInv => AnswerIsTrue
  BY <1>1, <1>2 DEF AnswerIsTrue
<1> QED
  BY <1>3, AnswersInductive, PTL
===============================================================================
