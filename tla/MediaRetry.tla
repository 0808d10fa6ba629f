------------------------------ MODULE MediaRetry ------------------------------
(***************************************************************************)
(* DownloadAnyMediaWithRetry for one message: downloads that meet a 403    *)
(* ask the phone to upload the media again and wait for its answer, which  *)
(* comes as an event.  Calls and event handlers meet in the cache of       *)
(* events and in the map of waiters, both keyed by the message, and no     *)
(* lock is held over two of their operations.                              *)
(***************************************************************************)
EXTENDS Naturals

CONSTANTS
    Threads,     \* downloads of the message
    Handlers,    \* goroutines of reissueEvent
    None,
    MaxReceipts  \* bound: receipts sent and not yet answered

ASSUME MediaRetryAssumption ==
    /\ None \notin Threads
    /\ MaxReceipts \in Nat \ {0}

VARIABLES
    cache,     \* mediaRetryEvents: the last answer, for 24 hours
    waiter,    \* mediaRetryWaiters: the call whose channel is registered
    chan,      \* the channel of each call, with room for one answer
    receipts,  \* receipts under way, or with the phone
    phase,     \* of each call
    got,       \* the answer a call goes on with
    handling   \* what each handler does, and with which answer

retryVars == <<cache, waiter, chan, receipts, phase, got, handling>>

\* "fresh" carries a new DirectPath; "failed" is one that cannot be decrypted
\* or tells no success.
Answers == {"fresh", "failed"}
NoAnswer == "none"
Labels == {"idle", "lookup", "register", "poll", "send", "wait", "unregister", "result"}
Handling == [step : {"idle", "set", "notify"}, answer : Answers \cup {NoAnswer}]
NoHandling == [step |-> "idle", answer |-> NoAnswer]

Proceed(t, l) == phase' = [phase EXCEPT ![t] = l]
EndDownload(t) == Proceed(t, "idle") /\ got' = [got EXCEPT ![t] = NoAnswer]
Carry(t, answer, l) == Proceed(t, l) /\ got' = [got EXCEPT ![t] = answer]

RetryInit ==
    /\ cache = NoAnswer
    /\ waiter = None
    /\ chan = [t \in Threads |-> NoAnswer]
    /\ receipts = 0
    /\ phase = [t \in Threads |-> "idle"]
    /\ got = [t \in Threads |-> NoAnswer]
    /\ handling = [h \in Handlers |-> NoHandling]

-----------------------------------------------------------------------------
(* A download.                                                             *)

\* A 403, and a media key to ask with; other outcomes change nothing.
Download(t) ==
    /\ phase[t] = "idle"
    /\ Proceed(t, "lookup")
    /\ UNCHANGED <<cache, waiter, chan, receipts, got, handling>>

Lookup(t) ==
    /\ phase[t] = "lookup"
    /\ IF cache # NoAnswer
       THEN Carry(t, cache, "result")
       ELSE Proceed(t, "register") /\ UNCHANGED got
    /\ UNCHANGED <<cache, waiter, chan, receipts, handling>>

\* LoadOrStore: the first call sends the receipt, the others poll the cache.
Register(t) ==
    /\ phase[t] = "register"
    /\ chan' = [chan EXCEPT ![t] = NoAnswer]
    /\ IF waiter = None
       THEN waiter' = t /\ Proceed(t, "send")
       ELSE UNCHANGED waiter /\ Proceed(t, "poll")
    /\ UNCHANGED <<cache, receipts, got, handling>>

Poll(t) ==
    /\ phase[t] = "poll" /\ cache # NoAnswer
    /\ Carry(t, cache, "result")
    /\ UNCHANGED <<cache, waiter, chan, receipts, handling>>

PollTimesOut(t) ==
    /\ phase[t] = "poll"
    /\ EndDownload(t)
    /\ UNCHANGED <<cache, waiter, chan, receipts, handling>>

\* The receipt is sent, or cannot be.
SendReceipt(t) ==
    /\ phase[t] = "send"
    /\ \/ receipts < MaxReceipts /\ receipts' = receipts + 1 /\ Proceed(t, "wait")
       \/ UNCHANGED receipts /\ Proceed(t, "unregister")
    /\ UNCHANGED <<cache, waiter, chan, got, handling>>

ReceiveAnswer(t) ==
    /\ phase[t] = "wait" /\ chan[t] # NoAnswer
    /\ chan' = [chan EXCEPT ![t] = NoAnswer]
    /\ Carry(t, chan[t], "unregister")
    /\ UNCHANGED <<cache, waiter, receipts, handling>>

WaitTimesOut(t) ==
    /\ phase[t] = "wait"
    /\ Proceed(t, "unregister")
    /\ UNCHANGED <<cache, waiter, chan, receipts, got, handling>>

\* The deferred Delete, by the message.
Unregister(t) ==
    /\ phase[t] = "unregister"
    /\ waiter' = None
    /\ IF got[t] = NoAnswer THEN EndDownload(t) ELSE Proceed(t, "result") /\ UNCHANGED got
    /\ UNCHANGED <<cache, chan, receipts, handling>>

\* A failed answer is taken out of the cache; with a fresh one the media is
\* downloaded again, which ends the call.
Result(t) ==
    /\ phase[t] = "result"
    /\ cache' = IF got[t] = "failed" THEN NoAnswer ELSE cache
    /\ EndDownload(t)
    /\ UNCHANGED <<waiter, chan, receipts, handling>>

-----------------------------------------------------------------------------
(* The phone and the event handlers.                                       *)

\* The phone answers a receipt, however late, or never.
PhoneAnswers(h) ==
    /\ handling[h].step = "idle" /\ receipts > 0
    /\ receipts' = receipts - 1
    /\ \E answer \in Answers :
         handling' = [handling EXCEPT ![h] = [step |-> "set", answer |-> answer]]
    /\ UNCHANGED <<cache, waiter, chan, phase, got>>

\* reissueEvent caches the answer ...
Set(h) ==
    /\ handling[h].step = "set"
    /\ cache' = handling[h].answer
    /\ handling' = [handling EXCEPT ![h].step = "notify"]
    /\ UNCHANGED <<waiter, chan, receipts, phase, got>>

\* Mutant: a channel without a buffer.
NotifyReceiver(h) ==
    /\ handling[h].step = "notify"
    /\ IF waiter # None /\ phase[waiter] = "wait"
       THEN chan' = [chan EXCEPT ![waiter] = handling[h].answer]
       ELSE UNCHANGED chan
    /\ handling' = [handling EXCEPT ![h] = NoHandling]
    /\ UNCHANGED <<cache, waiter, receipts, phase, got>>

\* ... and then sends it to the waiter, unless its channel is full.
Notify(h) ==
    /\ handling[h].step = "notify"
    /\ IF waiter # None /\ chan[waiter] = NoAnswer
       THEN chan' = [chan EXCEPT ![waiter] = handling[h].answer]
       ELSE UNCHANGED chan
    /\ handling' = [handling EXCEPT ![h] = NoHandling]
    /\ UNCHANGED <<cache, waiter, receipts, phase, got>>

\* The phone never answers; the answer is evicted after 24 hours.
Silence ==
    /\ receipts > 0
    /\ receipts' = receipts - 1
    /\ UNCHANGED <<cache, waiter, chan, phase, got, handling>>

Evict ==
    /\ cache # NoAnswer
    /\ cache' = NoAnswer
    /\ UNCHANGED <<waiter, chan, receipts, phase, got, handling>>

-----------------------------------------------------------------------------
DownloadStep(t) ==
    \/ Lookup(t) \/ Register(t) \/ Poll(t) \/ SendReceipt(t) \/ ReceiveAnswer(t)
    \/ Unregister(t) \/ Result(t)

RetryNext ==
    \/ \E t \in Threads : Download(t) \/ DownloadStep(t) \/ PollTimesOut(t) \/ WaitTimesOut(t)
    \/ \E h \in Handlers : PhoneAnswers(h) \/ Set(h) \/ Notify(h)
    \/ Silence \/ Evict

RetrySpec == RetryInit /\ [][RetryNext]_retryVars

\* Calls and handlers run.  No timeout is relied on, and no answer.
RetryFairness ==
    /\ \A t \in Threads : WF_retryVars(DownloadStep(t))
    /\ \A h \in Handlers : WF_retryVars(Set(h)) /\ WF_retryVars(Notify(h))

-----------------------------------------------------------------------------
TypeOK ==
    /\ cache \in Answers \cup {NoAnswer}
    /\ waiter \in Threads \cup {None}
    /\ chan \in [Threads -> Answers \cup {NoAnswer}]
    /\ receipts \in 0 .. MaxReceipts
    /\ phase \in [Threads -> Labels]
    /\ got \in [Threads -> Answers \cup {NoAnswer}]
    /\ handling \in [Handlers -> Handling]

\* Among calls that race from an empty cache one sends a receipt and waits for
\* its answer; and whoever is registered is such a call, also after errors and
\* timeouts: a stale entry would leave every later call polling for an answer
\* that nobody asked for.
WaiterIsSender ==
    \A t \in Threads : phase[t] \in {"send", "wait", "unregister"} <=> waiter = t

\* An answer handled while a call is registered ends its wait without its
\* timeout, though the call may still be sending the receipt, and the answer
\* be that to an earlier one.
AnswerEndsWait ==
    \A t \in Threads, h \in Handlers :
        waiter = t /\ handling[h].step = "set" ~> waiter # t

-----------------------------------------------------------------------------
(* What the repository says of media retries and the code does not do.     *)

\* gows.go:80 - an answer is cached for the calls whose wait is over: a fresh
\* one stays until it is evicted or another comes.
FreshIsKept ==
    [][cache = "fresh" /\ cache' = NoAnswer => Evict]_cache
===============================================================================
