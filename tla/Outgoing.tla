------------------------------- MODULE Outgoing -------------------------------
(***************************************************************************)
(* The requests that send messages: what a handler of server/messages.go   *)
(* looks up, builds and sends, what it answers, and what the event of the  *)
(* message the session sent itself does to the storage afterwards.  Every  *)
(* request has a goroutine of its own.  What a message says is left out;   *)
(* what remains is the kind of its content and its ContextInfo.            *)
(***************************************************************************)
EXTENDS Integers, Sequences, SequencesExt, FiniteSets, TLC

CONSTANTS
    Scenarios,  \* sets of requests; those of a behaviour are one of them
    Stored,     \* the messages stored before: id -> [content, context, serverID]
    Changes,    \* what others do to the timers of chats, in this order; a reset is early
                \* if the clock does not show a later second than the stamp of the setting
    Audience,   \* GetBroadcastListParticipants: who sees a status, the session last
    BatchSize   \* StatusParticipantsBatchSize: 5,000

\* Who sees a status is a set of contacts, listed once each.
ASSUME OutgoingAssumption ==
    /\ BatchSize \in Nat \ {0}
    /\ Audience \in Seq(Range(Audience)) /\ IsInjective(Audience)
    /\ Changes \in Seq([chat : {c.chat : c \in Range(Changes)}, by : {"other", "history"},
                        expiration : Nat, early : BOOLEAN])
    /\ \A requests \in Scenarios : \A r \in requests :
         /\ r.rpc \in {"SendMessage", "EditMessage", "SendButtonReply", "SendReaction", "RevokeMessage",
                      "CancelEventMessage", "MarkRead"}
         /\ r.participants \in Seq(Range(r.participants))

VARIABLES
    rows,       \* gows_messages: id -> [content, context, serverID]
    timers,     \* gows_chat_ephemeral_setting: chat -> expiration
    changed,    \* how many of Changes have happened
    sent,       \* what WhatsApp took: sequence of [by, to, content, context]
    pending,    \* requests whose message awaits its handleEvent
    late,       \* requests that have run for longer than unaryCallTimeout
    pc, info,   \* of a handler: where it is, and its contextInfo
    found,      \* ... the set of at most one message it looked up
    batch, errs,  \* ... the batches sent, and those that failed
    answer,     \* "none", "ok" or "error"
    epoch, writer \* history: `changed` when a request read the timer; who wrote a timer since its last change

\* The requests that clients make in this behaviour.
asked == DOMAIN pc
request == <<pc, info, found, batch, errs, answer>>
outgoingVars == <<rows, timers, changed, sent, pending, late, request, epoch, writer>>

NoTimer == -1      \* a message without Expiration
NoContext == [timer |-> NoTimer, quotes |-> {}, mentions |-> FALSE]
IsStatus(chat) == chat.user = "status" /\ chat.server = "broadcast"
IsNewsletter(chat) == chat.server = "newsletter"

MediaKinds == {"image", "audio", "video", "ptv", "document"}

\* Contents whose ContextInfo ExtractContextInfo finds.
ContextContents ==
    {"extended", "image", "contact", "location", "video", "ptv", "audio", "captioned", "document",
     "contacts", "list", "poll", "pollV3"}

ExtractContextInfo(m) == IF m.content \in ContextContents THEN m.context ELSE NoContext

\* The content SendMessage builds for what is asked of it.
BuildPollCreationV3(r) == IF r.options > 0 /\ ~r.multiple THEN "pollV3" ELSE "poll"
BuildContactsMessage(r) == IF r.contacts = 1 THEN "contact" ELSE "contacts"
BuildMedia(r) == IF r.kind = "document" THEN "captioned" ELSE r.kind
BuildContent(r) ==
    CASE r.kind = "pollVote" -> "pollUpdate"
      [] r.kind = "poll" -> BuildPollCreationV3(r)
      [] r.kind = "contacts" -> BuildContactsMessage(r)
      [] r.kind = "buttons" -> "viewOnce"
      [] r.kind = "text" -> "extended"
      [] r.kind \in MediaKinds -> BuildMedia(r)
      [] OTHER -> r.kind   \* event, list, location

\* BuildEditedMessage keeps the kind and the context of what it edits.
BuildEditedMessage(original) ==
    IF \E m \in original : m.content = "conversation" THEN [content |-> "conversation", context |-> NoContext]
    ELSE IF \E m \in original : m.content \in {"image", "video", "document", "captioned"}
         THEN CHOOSE m \in {[content |-> o.content, context |-> o.context] : o \in original} : TRUE
    ELSE [content |-> "extended",
          context |-> IF original = {} THEN NoContext
                      ELSE ExtractContextInfo(CHOOSE m \in original : TRUE)]

\* What goes out: of an edit, the edited message inside the protocol message.
Message(r) ==
    CASE r.rpc = "SendMessage" ->
           [content |-> BuildContent(r), context |-> IF r.kind = "pollVote" THEN NoContext ELSE info[r]]
      [] r.rpc = "EditMessage" -> [content |-> "edit", context |-> BuildEditedMessage(found[r]).context]
      [] r.rpc = "SendButtonReply" -> [content |-> "buttonsResponse", context |-> info[r]]
      [] r.rpc = "SendReaction" -> [content |-> "reaction", context |-> NoContext]
      [] r.rpc = "RevokeMessage" -> [content |-> "revoke", context |-> NoContext]
      [] r.rpc = "CancelEventMessage" -> [content |-> "eventUpdate", context |-> NoContext]
      [] r.rpc = "MarkRead" -> [content |-> "receipt", context |-> NoContext]

-----------------------------------------------------------------------------
OutgoingInit ==
    /\ rows = Stored
    /\ timers = <<>> /\ changed = 0
    /\ sent = <<>> /\ pending = {} /\ late = {}
    /\ \E requests \in Scenarios :
         /\ pc = [r \in requests |-> "begin"] /\ info = [r \in requests |-> NoContext]
         /\ found = [r \in requests |-> {}] /\ answer = [r \in requests |-> "none"]
         /\ batch = [r \in requests |-> 0] /\ errs = [r \in requests |-> 0]
         /\ epoch = [r \in requests |-> 0]
    /\ writer = <<>>

Goto(r, l) == pc' = [pc EXCEPT ![r] = l]
Return(r, a) == Goto(r, "return") /\ answer' = [answer EXCEPT ![r] = a]
Shared == <<rows, timers, changed, sent, pending, late, writer>>

\* Where a handler goes once its context is complete.
LooksUp(r) ==
    \/ r.rpc \in {"EditMessage", "CancelEventMessage"}
    \/ (r.rpc = "SendReaction" /\ IsNewsletter(r.chat) /\ ~r.number)
    \/ (r.rpc = "SendMessage" /\ r.kind = "pollVote" /\ ~(IsNewsletter(r.chat) /\ r.number))
Proceed(r) == Goto(r, IF LooksUp(r) THEN "lookup" ELSE "prepare")

\* The session and the chat of a request; of SendMessage, the timer of the chat
\* (getEphemeralSettings), without which it goes on if reading it fails.
HasTimer(chat) == chat.server \in {"s.whatsapp.net", "lid", "g.us"}
GetChatEphemeralSetting(chat) ==
    IF HasTimer(chat) /\ chat \in DOMAIN timers THEN timers[chat] ELSE NoTimer

Begin(r) ==
    /\ pc[r] = "begin"
    /\ IF r.bad \cap {"session", "jid"} # {}
       THEN Return(r, "error") /\ UNCHANGED <<info, epoch>>
       ELSE /\ IF r.rpc = "SendMessage" /\ r.kind # "pollVote"
               THEN \E t \in {GetChatEphemeralSetting(r.chat)} \cup {NoTimer} :
                      info' = [info EXCEPT ![r].timer = t]
               ELSE UNCHANGED info
            /\ epoch' = [epoch EXCEPT ![r] = changed]
            /\ IF r.reply # "" \/ r.rpc = "SendButtonReply" THEN Goto(r, "quote") ELSE Proceed(r)
            /\ UNCHANGED answer
    /\ UNCHANGED <<Shared, found, batch, errs>>

\* PopulateContextInfoWithReply: a message that does not turn up within the
\* retries is not quoted; one stored without content makes the handler panic.
QuoteFails(r) == r.reply \notin DOMAIN rows
Quote(r) ==
    /\ pc[r] = "quote"
    /\ IF QuoteFails(r) THEN Proceed(r) /\ UNCHANGED <<info, answer>>
       ELSE IF rows[r.reply].content = "nil" THEN Return(r, "error") /\ UNCHANGED info
       ELSE info' = [info EXCEPT ![r].quotes = {r.reply}] /\ Proceed(r) /\ UNCHANGED answer
    /\ UNCHANGED <<Shared, found, batch, errs, epoch>>

\* What a handler makes of the message it looked up (the set m): whether it goes on.
CheckVotesInOptions(r) == "options" \notin r.bad
Accepts(r, m) ==
    CASE r.rpc = "EditMessage" -> TRUE
      [] r.rpc = "CancelEventMessage" -> \E x \in m : x.content = "event"
      [] r.rpc = "SendReaction" -> \E x \in m : x.serverID # 0
      [] OTHER -> \E x \in m : (~IsNewsletter(r.chat) \/ x.serverID # 0) /\ CheckVotesInOptions(r)

LookUp(r) ==
    /\ pc[r] = "lookup"
    /\ LET m == IF r.target \in DOMAIN rows THEN {rows[r.target]} ELSE {}
       IN  /\ found' = [found EXCEPT ![r] = m]
           /\ IF Accepts(r, m) THEN Goto(r, "prepare") /\ UNCHANGED answer ELSE Return(r, "error")
    /\ UNCHANGED <<Shared, info, batch, errs, epoch>>

\* Files, participants, colours, receipt types; the encryption of votes and
\* updates; uploads, which WhatsApp may refuse.
MayFail(r) ==
    \/ r.rpc = "CancelEventMessage"
    \/ (r.rpc = "SendMessage" /\ r.kind \in MediaKinds \cup {"pollVote", "buttons"})
Prepare(r) ==
    /\ pc[r] = "prepare"
    /\ \/ r.bad \ {"options"} # {} /\ Return(r, "error") /\ UNCHANGED info
       \/ MayFail(r) /\ Return(r, "error") /\ UNCHANGED info
       \/ /\ r.bad \ {"options"} = {}
          /\ info' = [info EXCEPT ![r].mentions = r.mentions]
          /\ Goto(r, "send") /\ UNCHANGED answer
    /\ UNCHANGED <<Shared, found, batch, errs, epoch>>

-----------------------------------------------------------------------------
\* The batches a status goes out in; any other message is one.
AllParticipants(r) == IF r.participants # <<>> THEN r.participants ELSE Reverse(Audience)
ValidParticipants(r) ==
    LET all == AllParticipants(r)
        valid[n \in 0 .. Len(all)] ==
          IF n = 0 THEN <<>>
          ELSE IF all[n].server = "s.whatsapp.net" THEN Append(valid[n - 1], all[n]) ELSE valid[n - 1]
    IN  valid[Len(all)]
Size(r) == IF r.participants # <<>> THEN Len(r.participants) ELSE BatchSize
Chunk(s, n) ==
    [i \in 1 .. (Len(s) + n - 1) \div n |->
        SubSeq(s, (i - 1) * n + 1, IF i * n < Len(s) THEN i * n ELSE Len(s))]
Batches(r) ==
    IF r.rpc # "MarkRead" /\ IsStatus(r.chat) THEN Chunk(ValidParticipants(r), Size(r))
    ELSE << IF r.participants # <<>> THEN r.participants ELSE <<r.chat>> >>

\* Mutant: the last batch decides.
SendBatchForgets(r) ==
    /\ pc[r] = "send"
    /\ batch[r] < Len(Batches(r))
    /\ batch' = [batch EXCEPT ![r] = @ + 1]
    /\ \E taken, known \in BOOLEAN :
         /\ known => taken
         /\ errs' = [errs EXCEPT ![r] = IF known THEN 0 ELSE 1]
         /\ sent' = IF ~taken THEN sent
                    ELSE Append(sent, [by |-> r, to |-> Batches(r)[batch'[r]], content |-> Message(r).content,
                                       context |-> Message(r).context])
    /\ UNCHANGED <<rows, timers, changed, pending, late, writer, epoch, pc, info, found, answer>>

\* WhatsApp takes a batch, or refuses it, or takes it and the answer is lost.
\* SendStatusMessage goes on after a batch that failed.
SendBatch(r) ==
    /\ pc[r] = "send"
    /\ batch[r] < Len(Batches(r))
    /\ batch' = [batch EXCEPT ![r] = @ + 1]
    /\ \E taken, known \in BOOLEAN :
         /\ known => taken
         /\ errs' = [errs EXCEPT ![r] = IF known THEN @ ELSE @ + 1]
         /\ sent' = IF ~taken THEN sent
                    ELSE Append(sent, [by |-> r, to |-> Batches(r)[batch'[r]], content |-> Message(r).content,
                                       context |-> Message(r).context])
    /\ UNCHANGED <<rows, timers, changed, pending, late, writer, epoch, pc, info, found, answer>>

\* A message that went out becomes an event of the session; a reaction or a vote
\* in a newsletter does not become one that is stored.
EmitsMessage(r) ==
    ~ (IsNewsletter(r.chat) /\ (r.rpc = "SendReaction" \/ (r.rpc = "SendMessage" /\ r.kind = "pollVote")))
Sent(r) ==
    /\ pc[r] = "send"
    /\ batch[r] = Len(Batches(r))
    /\ Return(r, IF errs[r] = 0 THEN "ok" ELSE "error")
    /\ pending' = IF errs[r] = 0 /\ EmitsMessage(r) THEN pending \cup {r} ELSE pending
    /\ UNCHANGED <<rows, timers, changed, sent, late, writer, info, found, batch, errs, epoch>>

\* UnaryTimeoutInterceptor: too late an answer is an error, whatever was done.
Expire(r) ==
    /\ r.slow /\ pc[r] # "answered" /\ r \notin late
    /\ late' = late \cup {r}
    /\ UNCHANGED <<rows, timers, changed, sent, pending, request, epoch, writer>>

Answer(r) ==
    /\ pc[r] = "return"
    /\ Goto(r, "answered")
    /\ answer' = [answer EXCEPT ![r] = IF r \in late THEN "error" ELSE @]
    /\ UNCHANGED <<Shared, info, found, batch, errs, epoch>>

-----------------------------------------------------------------------------
\* Mutant: a message without a timer takes the setting of its chat away.
SettingOfOwnClears(r) ==
    {t \in {ExtractContextInfo(Message(r)).timer} : r.chat.server \in {"s.whatsapp.net", "lid"}}

\* The storage's handler of the session's own message: it stores the message, a
\* revocation deletes the one it names, and a timer in its context becomes the
\* setting of the chat.
SettingOfOwn(r) ==
    {t \in {ExtractContextInfo(Message(r)).timer} : r.chat.server \in {"s.whatsapp.net", "lid"} /\ t # NoTimer}
Put(f, x, v) == [y \in DOMAIN f \cup {x} |-> IF y = x THEN v ELSE f[y]]
WroteTimer(chat) == IF chat \in DOMAIN writer THEN writer[chat] ELSE {}

StoreOwn(r) ==
    /\ r \in pending
    /\ pending' = pending \ {r}
    /\ rows' = IF r.rpc = "MarkRead" THEN rows
               ELSE LET kept == IF r.rpc = "RevokeMessage"
                                THEN [i \in DOMAIN rows \ {r.target} |-> rows[i]] ELSE rows
                    IN  (r.id :> [serverID |-> 0] @@ Message(r)) @@ kept
    /\ IF SettingOfOwn(r) = {} THEN UNCHANGED <<timers, writer>>
       ELSE \E t \in SettingOfOwn(r) :
              /\ timers' = Put(timers, r.chat, t)
              /\ writer' = Put(writer, r.chat, {r} \cup WroteTimer(r.chat))
    /\ UNCHANGED <<changed, sent, late, request, epoch>>

\* The other side changes the timer of a chat, or a history sync brings it along:
\* ExtractEphemeralSettingsFromConversation leaves out how long it is, and a
\* conversation without a timer says nothing.  DeleteChatEphemeralSetting leaves a
\* setting that is not older than now, unless it has no stamp, as one of a history
\* may.
SaysNothing(c) == c.by = "history" /\ c.expiration = 0
Reset(c) ==
    {[x \in DOMAIN timers \ {c.chat} |-> timers[x]]} \cup (IF c.early THEN {timers} ELSE {})
ChangeTimer ==
    /\ changed < Len(Changes)
    /\ changed' = changed + 1
    /\ LET c == Changes[changed']
       IN  IF SaysNothing(c) THEN UNCHANGED <<timers, writer>>
           ELSE /\ timers' \in IF c.expiration = 0 THEN Reset(c)
                               ELSE {Put(timers, c.chat, IF c.by = "history" THEN 0 ELSE c.expiration)}
                /\ writer' = Put(writer, c.chat, {})
    /\ UNCHANGED <<rows, sent, pending, late, request, epoch>>

OutgoingNext ==
    \/ \E r \in asked :
         \/ Begin(r) \/ Quote(r) \/ LookUp(r) \/ Prepare(r) \/ SendBatch(r) \/ Sent(r)
         \/ Expire(r) \/ Answer(r) \/ StoreOwn(r)
    \/ ChangeTimer

OutgoingSpec == OutgoingInit /\ [][OutgoingNext]_outgoingVars

-----------------------------------------------------------------------------
\* Who a request names: of a status, those it does not ignore.
Named(r) == UNION {Range(b) : b \in Range(Batches(r))}
Got(r) == {i \in DOMAIN sent : sent[i].by = r}

\* What is answered is what was done: after "ok" everyone named got the message,
\* once, and an error after which someone did get it is an answer of WhatsApp that
\* was lost, a status of several batches, or an answer that came too late.
AnswerIsTrue ==
    \A r \in asked : pc[r] = "answered" =>
        /\ answer[r] = "ok" =>
              \A p \in Named(r) : Cardinality({i \in Got(r) : \E j \in DOMAIN sent[i].to : sent[i].to[j] = p}) = 1
        /\ answer[r] = "error" /\ Got(r) # {} => errs[r] > 0 \/ r \in late

\* The timer of a chat is the one it was given last, unless messages of the
\* session that were built before that change were stored after it, or that change
\* is a reset in the second of the setting before it: then an old one is back, or
\* still there, and every later message carries it on.
LastChange(chat) == SelectLastInSubSeq(Changes, 1, changed, LAMBDA c : c.chat = chat /\ ~SaysNothing(c))
Given(chat) ==
    LET c == Changes[LastChange(chat)]
    IN  IF LastChange(chat) = 0 \/ c.expiration = 0 THEN NoTimer ELSE IF c.by = "history" THEN 0 ELSE c.expiration
ResetEarly(chat) ==
    LastChange(chat) # 0 /\ Changes[LastChange(chat)].expiration = 0 /\ Changes[LastChange(chat)].early
OldTimerComesBackOnlyByRace ==
    \A chat \in {c.chat : c \in Range(Changes)} :
        HasTimer(chat) /\ GetChatEphemeralSetting(chat) # Given(chat) =>
            \/ ResetEarly(chat)
            \/ \E r \in UNION {writer[c] : c \in DOMAIN writer} : r.chat = chat /\ epoch[r] < LastChange(chat)
===============================================================================
