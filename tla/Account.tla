-------------------------------- MODULE Account --------------------------------
(***************************************************************************)
(* The requests of server/ that change what WhatsApp keeps of the account: *)
(* groups, labels, newsletters, names, pictures, presence and read marks,  *)
(* and a vote in the poll of a newsletter.  Each is a call of whatsmeow    *)
(* after some checks; what WhatsApp does with it is external.              *)
(***************************************************************************)
EXTENDS Integers, Sequences, FiniteSets, FiniteSetsExt, TLC

CONSTANTS
    Asks,       \* sets of requests; those of a behaviour are one of them
    Account0,   \* what WhatsApp keeps at first
    Inbox,      \* how many messages may arrive in the chat of a read mark
    EmptyJID    \* what ParseJID returns beside an error

VARIABLES
    account,    \* [groups, labels, tagged, follows, mutes, profile, presence, chats, watched, contacts, marks]
    arrived,    \* how many messages of that chat WhatsApp has
    stored,     \* those among them that the storage has
    at,         \* of a handler: "check", "clock", "read", "call", "wait", "await", "retry",
                \* "resent", "returned", or "dropped" by an error of RetryFrame
    known,      \* ... what it read: a TopicID, or the last message a mark covers
    result,     \* ... "none", "ok" or "error"
    waiters,    \* votes with a channel that waits for a response (WaitResponse)
    accepted,   \* history: what WhatsApp took, in order: [by, before, after]
    seen        \* history: the messages stored when a read mark was composed

\* The requests that clients make in this behaviour.
Clients == DOMAIN at
handlerVars == <<at, known, result, waiters, seen>>
accountVars == <<account, arrived, stored, accepted, handlerVars>>

-----------------------------------------------------------------------------
(* What the handlers ask of WhatsApp.                                      *)

SetField(a, r, field, value) == [a EXCEPT !.groups[r.jid] = [@ EXCEPT ![field] = value]]

CreateGroup(a, r) ==
    [a EXCEPT !.groups = (r.value :> [Account0.blank EXCEPT !.name = r.value, !.members = r.who]) @@ @]
LeaveGroup(a, r) == [a EXCEPT !.groups = [g \in DOMAIN @ \ {r.jid} |-> @[g]]]
SetGroupName(a, r) == SetField(a, r, "name", r.value)
SetGroupPicture(a, r) == SetField(a, r, "picture", r.value)
SetGroupLocked(a, r) == SetField(a, r, "locked", r.value)
SetGroupAnnounce(a, r) == SetField(a, r, "announce", r.value)
SetGroupDescription(a, r) ==
    SetField(SetField(a, r, "topic", r.value), r, "topicId", a.groups[r.jid].topicId + 1)

\* What an action does to the members and the admins of a group.
Participants(g, r) ==
    CASE r.value = "ADD" -> [g EXCEPT !.members = @ \cup r.who]
      [] r.value = "REMOVE" -> [g EXCEPT !.members = @ \ r.who, !.admins = @ \ r.who]
      [] r.value = "PROMOTE" -> [g EXCEPT !.admins = @ \cup (r.who \cap g.members)]
      [] r.value = "DEMOTE" -> [g EXCEPT !.admins = @ \ r.who]
UpdateGroupParticipants(a, r) == [a EXCEPT !.groups[r.jid] = Participants(@, r)]

\* GetGroupInviteLink is asked not to reset the link, by both requests.
RevokeGroupInviteLink(a, r) == a
JoinGroupWithLink(a, r) ==
    [a EXCEPT !.groups = [g \in DOMAIN @ |->
        IF @[g].invite = r.value THEN [@[g] EXCEPT !.members = @ \cup {"me"}] ELSE @[g]]]

UpsertLabel(a, r) == [a EXCEPT !.labels = (r.jid :> r.value) @@ @]
DeleteLabel(a, r) == [a EXCEPT !.labels = [l \in DOMAIN @ \ {r.jid} |-> @[l]]]

\* A chat that cannot be parsed is the empty one, without an error.
Parsed(r) == IF "jid" \in r.bad THEN EmptyJID ELSE r.jid
AddChatLabel(a, r) == [a EXCEPT !.tagged = @ \cup {<<Parsed(r), r.value>>}]
RemoveChatLabel(a, r) == [a EXCEPT !.tagged = @ \ {<<Parsed(r), r.value>>}]

CreateNewsletter(a, r) == [a EXCEPT !.follows = @ \cup {r.value}]
NewsletterToggleMute(a, r) == [a EXCEPT !.mutes = IF r.value THEN @ \cup {r.jid} ELSE @ \ {r.jid}]
NewsletterToggleFollow(a, r) == [a EXCEPT !.follows = IF r.value THEN @ \cup {r.jid} ELSE @ \ {r.jid}]

SetProfileName(a, r) == [a EXCEPT !.profile.name = r.value]
SetProfileStatus(a, r) == [a EXCEPT !.profile.status = r.value]
SetProfilePicture(a, r) == [a EXCEPT !.profile.picture = r.value]   \* SetGroupPhoto of EmptyJID
SendPresence(a, r) == [a EXCEPT !.presence = r.value]
SendChatPresence(a, r) ==
    [a EXCEPT !.chats = (r.jid :> (CASE r.value = "TYPING" -> <<"composing", "text">>
                                     [] r.value = "RECORDING" -> <<"composing", "audio">>
                                     [] r.value = "PAUSED" -> <<"paused", "text">>)) @@ @]
SubscribePresence(a, r) == [a EXCEPT !.watched = @ \cup {r.jid}]
UpdateContact(a, r) == [a EXCEPT !.contacts = (r.jid :> r.value) @@ @]

\* The mark ranges up to the last message the handler found.
BuildChatUnread(a, r) == [a EXCEPT !.marks = (r.jid :> [read |-> r.value, upTo |-> known[r]]) @@ @]

Effect(a, r) ==
    CASE r.rpc = "CreateGroup" -> CreateGroup(a, r)
      [] r.rpc = "LeaveGroup" -> LeaveGroup(a, r)
      [] r.rpc = "SetGroupName" -> SetGroupName(a, r)
      [] r.rpc = "SetGroupPicture" -> SetGroupPicture(a, r)
      [] r.rpc = "SetGroupLocked" -> SetGroupLocked(a, r)
      [] r.rpc = "SetGroupAnnounce" -> SetGroupAnnounce(a, r)
      [] r.rpc = "SetGroupDescription" -> SetGroupDescription(a, r)
      [] r.rpc = "UpdateGroupParticipants" -> UpdateGroupParticipants(a, r)
      [] r.rpc = "RevokeGroupInviteLink" -> RevokeGroupInviteLink(a, r)
      [] r.rpc = "JoinGroupWithLink" -> JoinGroupWithLink(a, r)
      [] r.rpc = "UpsertLabel" -> UpsertLabel(a, r)
      [] r.rpc = "DeleteLabel" -> DeleteLabel(a, r)
      [] r.rpc = "AddChatLabel" -> AddChatLabel(a, r)
      [] r.rpc = "RemoveChatLabel" -> RemoveChatLabel(a, r)
      [] r.rpc = "CreateNewsletter" -> CreateNewsletter(a, r)
      [] r.rpc = "NewsletterToggleMute" -> NewsletterToggleMute(a, r)
      [] r.rpc = "NewsletterToggleFollow" -> NewsletterToggleFollow(a, r)
      [] r.rpc = "SetProfileName" -> SetProfileName(a, r)
      [] r.rpc = "SetProfileStatus" -> SetProfileStatus(a, r)
      [] r.rpc = "SetProfilePicture" -> SetProfilePicture(a, r)
      [] r.rpc = "SendPresence" -> SendPresence(a, r)
      [] r.rpc = "SendChatPresence" -> SendChatPresence(a, r)
      [] r.rpc = "SubscribePresence" -> SubscribePresence(a, r)
      [] r.rpc = "UpdateContact" -> UpdateContact(a, r)
      [] r.rpc = "MarkChatUnread" -> BuildChatUnread(a, r)
      [] r.rpc = "SendNewsletterPollVote" -> a

-----------------------------------------------------------------------------
AccountInit ==
    /\ account = Account0.account
    /\ arrived = 0 /\ stored = {} /\ accepted = <<>> /\ waiters = {}
    /\ \E requests \in Asks :
         /\ at = [r \in requests |-> "check"]
         /\ known = [r \in requests |-> 0]
         /\ result = [r \in requests |-> "none"]
         /\ seen = [r \in requests |-> {}]

World == <<account, arrived, stored, accepted>>
Step(r, from, to) == at[r] = from /\ at' = [at EXCEPT ![r] = to]
Answered(r, how) == result' = [result EXCEPT ![r] = how]

\* Sessions, JIDs and participants that do not parse, unknown actions and kinds of
\* presence, pictures that are none, newsletters that are none.
Ignores(r) == r.rpc \in {"AddChatLabel", "RemoveChatLabel"}
Invalid(r) == IF Ignores(r) THEN r.bad \ {"jid"} # {} ELSE r.bad # {}
NextStep(r) ==
    CASE r.rpc = "SetGroupDescription" -> "read"
      [] r.rpc = "MarkChatUnread" -> "clock"
      [] r.rpc = "SendNewsletterPollVote" -> "wait"
      [] OTHER -> "call"
Check(r) ==
    /\ at[r] = "check"
    /\ IF Invalid(r)
       THEN Step(r, "check", "returned") /\ Answered(r, "error")
       ELSE Step(r, "check", NextStep(r)) /\ UNCHANGED result
    /\ UNCHANGED <<World, known, waiters, seen>>

\* SetGroupDescription reads the description it is about to replace.
ReadTopic(r) ==
    /\ r.rpc = "SetGroupDescription"
    /\ \/ /\ r.jid \in DOMAIN account.groups
          /\ Step(r, "read", "call")
          /\ known' = [known EXCEPT ![r] = account.groups[r.jid].topicId]
          /\ UNCHANGED result
       \/ Step(r, "read", "returned") /\ Answered(r, "error") /\ UNCHANGED known
    /\ UNCHANGED <<World, waiters, seen>>

\* MarkChatUnread reads the clock before it reads the storage.
ReadClock(r) ==
    /\ Step(r, "clock", "read")
    /\ known' = [known EXCEPT ![r] = arrived]
    /\ UNCHANGED <<World, result, waiters, seen>>

\* Mutant: the mark ranges up to the clock.
KeepClock(r) ==
    /\ r.rpc = "MarkChatUnread"
    /\ Step(r, "read", "call")
    /\ seen' = [seen EXCEPT ![r] = stored]
    /\ UNCHANGED <<World, known, result, waiters>>

\* GetChatMessages with a limit of one: the last message the storage has.
ReadLast(r) ==
    /\ r.rpc = "MarkChatUnread"
    /\ \/ /\ Step(r, "read", "call")
          /\ known' = [known EXCEPT ![r] = IF stored = {} THEN @ ELSE Max(stored)]
          /\ seen' = [seen EXCEPT ![r] = stored]
          /\ UNCHANGED result
       \/ Step(r, "read", "returned") /\ Answered(r, "error") /\ UNCHANGED <<known, seen>>
    /\ UNCHANGED <<World, waiters>>

\* What WhatsApp refuses: what it does not know, and to replace a description
\* that is no longer the one named.
OfGroup == {"LeaveGroup", "SetGroupName", "SetGroupPicture", "SetGroupLocked", "SetGroupAnnounce",
            "SetGroupDescription", "UpdateGroupParticipants", "RevokeGroupInviteLink"}
Refuses(r) ==
    \/ r.rpc \in OfGroup /\ r.jid \notin DOMAIN account.groups
    \/ /\ r.rpc = "SetGroupDescription"
       /\ known[r] # 0
       /\ known[r] # account.groups[r.jid].topicId

\* WhatsApp takes the request and says so, or takes it and the answer is lost, or
\* does not take it.
Call(r) ==
    /\ Step(r, "call", "returned")
    /\ \/ /\ ~Refuses(r)
          /\ account' = Effect(account, r)
          /\ accepted' = Append(accepted, [by |-> r, before |-> account, after |-> account'])
          /\ \E how \in {"ok", "error"} : Answered(r, how)
       \/ Answered(r, "error") /\ UNCHANGED <<account, accepted>>
    /\ UNCHANGED <<arrived, stored, known, waiters, seen>>

-----------------------------------------------------------------------------
(* SendNewsletterPollVoteNode: the vote is a node of its own.              *)

Cancelled(r) == waiters' = waiters \ {r}

SendNode(r) ==
    /\ \/ Step(r, "wait", "await") /\ waiters' = waiters \cup {r} /\ UNCHANGED result
       \/ Step(r, "wait", "returned") /\ Answered(r, "error") /\ UNCHANGED waiters
    /\ UNCHANGED <<World, known, seen>>

\* WhatsApp responds, to a vote it took or to one it refused ...
Respond(r) ==
    /\ at[r] \in {"await", "resent"}
    /\ r \in waiters
    /\ Cancelled(r)
    /\ \/ /\ Step(r, at[r], "returned") /\ Answered(r, "ok")
          /\ accepted' = Append(accepted, [by |-> r, before |-> account, after |-> account])
       \/ Step(r, at[r], "returned") /\ Answered(r, "error") /\ UNCHANGED accepted
    /\ UNCHANGED <<account, arrived, stored, known, seen>>

\* ... or the connection ends: the channel gets the disconnection and is gone.
Disconnect(r) ==
    /\ Step(r, "await", "retry")
    /\ Cancelled(r)
    /\ UNCHANGED <<World, known, result, seen>>

\* RetryFrame is external: it waits under the same id and sends the node again.
RetryFrame(r) ==
    /\ Step(r, "retry", "resent")
    /\ waiters' = waiters \cup {r}
    /\ UNCHANGED <<World, known, result, seen>>

\* Its error, before or after that, is returned as it is: nothing is cancelled.
RetryFails(r) ==
    /\ Step(r, "retry", "dropped") \/ Step(r, "resent", "dropped")
    /\ Answered(r, "error")
    /\ UNCHANGED <<World, known, waiters, seen>>

\* Mutant: the request gives up and leaves its channel behind.
GiveUpSilently(r) ==
    /\ Step(r, "await", "returned")
    /\ Answered(r, "error")
    /\ UNCHANGED <<World, known, waiters, seen>>

\* The context of the request ends first: CancelResponse takes the channel away.
GiveUp(r) ==
    /\ Step(r, "await", "returned")
    /\ Answered(r, "error")
    /\ Cancelled(r)
    /\ UNCHANGED <<World, known, seen>>

-----------------------------------------------------------------------------
\* A message arrives, and its handler stores it some time later.
Arrive ==
    /\ arrived < Inbox
    /\ arrived' = arrived + 1
    /\ UNCHANGED <<account, stored, accepted, handlerVars>>
Store(n) ==
    /\ n \in (1 .. arrived) \ stored
    /\ stored' = stored \cup {n}
    /\ UNCHANGED <<account, arrived, accepted, handlerVars>>

AccountNext ==
    \/ \E r \in Clients :
         \/ Check(r) \/ ReadTopic(r) \/ ReadClock(r) \/ ReadLast(r) \/ Call(r)
         \/ SendNode(r) \/ Respond(r) \/ GiveUp(r)
         \/ Disconnect(r) \/ RetryFrame(r) \/ RetryFails(r)
    \/ Arrive \/ \E n \in 1 .. arrived : Store(n)

AccountSpec == AccountInit /\ [][AccountNext]_accountVars

-----------------------------------------------------------------------------
\* server/actions.go:84-117 - a mark as read covers a message the storage did not
\* have only if it had a later one of the chat, or none at all.
MarksCoverWhatWasSeen ==
    \A i \in DOMAIN accepted :
        LET r == accepted[i].by
        IN  r.rpc = "MarkChatUnread" /\ seen[r] # {} =>
              \A n \in 1 .. known[r] : n \in seen[r] \/ \E later \in seen[r] : later > n

\* gows/newsletter.go:277-309 - a vote leaves a channel that waits for its
\* response only if it was sent again after a disconnection, and that failed:
\* an error of the first sending, a response and the end of the context do not.
VotesLeaveNoWaiter == \A r \in waiters : at[r] \in {"await", "resent", "dropped"}

\* proto/gows.proto:102 - RevokeGroupInviteLink: after its answer the group has
\* another link.
RevokedLinkIsDead ==
    \A i \in DOMAIN accepted :
        accepted[i].by.rpc = "RevokeGroupInviteLink" =>
            \A g \in {accepted[i].by.jid} :
               accepted[i].after.groups[g].invite # accepted[i].before.groups[g].invite
===============================================================================
