----------------------------- MODULE MessageStore -----------------------------
(***************************************************************************)
(* StorageEventHandler: every event has a goroutine of its own, so a       *)
(* message, its receipts, its revocation, a history sync and the deletion  *)
(* of its chat meet in the tables in any order.  A statement of SQL is a   *)
(* step.  Which events come is drawn at the start from Scenarios.          *)
(***************************************************************************)
EXTENDS StoreQueries, Sequences

CONSTANTS
    Scenarios,   \* sets of events that may come together
    Ignored,     \* what IgnoreJidsConfig names: "status", "broadcast", "groups", ...
    Attempts     \* of a read that is retried: 6 in the code

VARIABLES
    events,    \* the events of this behaviour
    table,     \* gows_messages
    settings,  \* gows_chat_ephemeral_setting, by chat
    labels,    \* gows_labels: the ids
    assocs,    \* gows_label_associations: <<chat, label>>
    lids,      \* whatsmeow_lid_map
    pc,
    local      \* locals of a handler

tables == <<table, settings, labels, assocs, lids>>
storeVars == <<events, tables, pc, local>>

NoUser == "none"
Forever == 99      \* time.Now(), later than every timestamp of an event
NoTimestamp == 0   \* nil, and earlier than every deletion
Error == 0
Pending == 1
ServerAck == 2
DeliveryAck == 3
Read == 4
Played == 5

EventKinds == {"message", "receipt", "history", "delete", "label", "assoc", "contact"}

\* The chats an event names, and the phone number of a contact.
NamedChats(e) ==
    IF e.kind = "label" THEN {}
    ELSE {e.chat} \cup (IF e.kind = "history" THEN {e.messages[n].chat : n \in 1 .. Len(e.messages)} ELSE {})
HasPhone(e) == e.kind = "contact" /\ e.chat.server \in {"s.whatsapp.net", "lid"}
PhoneOf(e) == IF IsLid(e.chat) THEN e.other ELSE e.chat.user

\* Messages of the past have times and statuses; "null" is no label; the user
\* part of a phone number is that of no group, LID or other chat.
ASSUME StoreAssumption ==
    /\ Attempts \in Nat \ {0}
    /\ \A S \in Scenarios : \A e \in S :
         /\ e.kind \in EventKinds
         /\ e.kind = "message" => e.ts \in 0 .. Forever
         /\ e.kind = "history" => \A n \in 1 .. Len(e.messages) :
               e.messages[n].ts \in 0 .. Forever /\ e.messages[n].status \in Nat
         /\ e.kind = "assoc" => e.label # "null"
         /\ \A c \in NamedChats(e) :
               /\ c = [server |-> c.server, user |-> c.user]
               /\ \A f \in S : HasPhone(f) /\ c.server # "s.whatsapp.net" => c.user # PhoneOf(f)

\* Contents isRealMessage calls real, and those whose context ExtractContextInfo
\* reads; "nil" is a message without content.
RealKinds ==
    {"conversation", "extended", "image", "contact", "location", "video", "ptv", "audio",
     "document", "captioned", "sticker", "contacts", "template", "list", "rich", "poll",
     "pollV2", "pollV3", "pollV4", "pollV5", "buttons"}
ContextKinds == RealKinds \ {"conversation", "rich", "pollV4", "pollV5", "buttons"}

ShouldIgnoreJID(jid) ==
    CASE jid.server = "broadcast" ->
           (IF jid.user = "status" THEN "status" ELSE "broadcast") \in Ignored
      [] jid.server = "g.us" -> "groups" \in Ignored
      [] jid.server = "newsletter" -> "newsletters" \in Ignored
      [] OTHER -> FALSE

Stored(e, status) ==
    [id |-> e.id, chat |-> e.chat, ts |-> e.ts, fromMe |-> e.fromMe,
     real |-> e.content \in RealKinds, status |-> status]

\* ExtractEphemeralSettingsFromMsg and ...FromProtocolMessage: the set of at most
\* one setting a message makes; expiration 0 is a chat that is not ephemeral.
SettingOf(e) ==
    IF e.content = "protocol" /\ e.protocol = "setting"
    THEN {[ts |-> e.ts, expiration |-> e.expiration]}
    ELSE IF e.chat.server \in {"s.whatsapp.net", "lid"} /\ e.content \in ContextKinds
                /\ e.expiration > 0
         THEN {[ts |-> e.settingTs, expiration |-> e.expiration]}
         ELSE {}

-----------------------------------------------------------------------------
Goto(e, l) == pc' = [pc EXCEPT ![e] = l]
Done(e) == Goto(e, "done") /\ UNCHANGED local
NoLocal == [row |-> {}, n |-> 1, attempt |-> 0, setting |-> {}, before |-> Forever]

StoreInit ==
    /\ events \in Scenarios
    /\ table = <<>>
    /\ settings = <<>>
    /\ labels = {}
    /\ assocs = {}
    /\ lids = <<>>
    /\ pc = [e \in events |-> "idle"]
    /\ local = [e \in events |-> NoLocal]

\* handleEvent: events of ignored chats end here, and so do the conversations of
\* a history sync, which get a goroutine each.
First(e) ==
    CASE e.kind = "message" -> "save"
      [] e.kind = "receipt" -> IF e.type \in {"delivered", "read", "played"} THEN "get" ELSE "done"
      [] e.kind = "history" -> "sync"
      [] e.kind = "delete"  -> "clear"
      [] e.kind = "label"   -> "edit"
      [] e.kind = "assoc"   -> IF e.labeled THEN "await" ELSE "unlabel"
      [] e.kind = "contact" -> "map"

HandleEvent(e) ==
    /\ pc[e] = "idle"
    /\ Goto(e, IF e.kind # "label" /\ ShouldIgnoreJID(e.chat) THEN "done" ELSE First(e))
    /\ UNCHANGED <<events, tables, local>>

-----------------------------------------------------------------------------
(* Messages.                                                               *)

HandleSaveMessage(e) ==
    /\ pc[e] = "save"
    /\ table' = Upsert(table, Stored(e, IF e.fromMe THEN ServerAck ELSE DeliveryAck))
    /\ Goto(e, "react")
    /\ UNCHANGED <<events, settings, labels, assocs, lids, local>>

\* handleMessageEvent: a revocation deletes the message it names, other messages
\* may set or reset the setting of their chat.  Without content it panics, and
\* handleEvent recovers.
HandleMessageEvent(e) ==
    /\ pc[e] = "react"
    /\ IF e.content = "protocol" /\ e.protocol = "revoke"
       THEN table' = DeleteIds(table, {e.target}) /\ Done(e)
       ELSE /\ UNCHANGED table
            /\ \/ \E s \in SettingOf(e) :
                    /\ local' = [local EXCEPT ![e].setting = {s}]
                    /\ Goto(e, IF s.expiration > 0 THEN "set" ELSE "look")
               \/ SettingOf(e) = {} /\ Done(e)
    /\ UNCHANGED <<events, settings, labels, assocs, lids>>

\* UpdateChatEphemeralSetting.
SetEphemeral(e) ==
    /\ pc[e] = "set"
    /\ \E s \in local[e].setting : settings' = (e.chat :> s) @@ settings
    /\ Done(e)
    /\ UNCHANGED <<events, table, labels, assocs, lids>>

\* DeleteChatEphemeralSetting reads the setting, and then deletes it unless it
\* is as late as the deletion.
LookEphemeral(e) ==
    /\ pc[e] = "look"
    /\ IF e.chat \in DOMAIN settings /\ settings[e.chat].ts < local[e].before
       THEN Goto(e, "reset") /\ UNCHANGED local
       ELSE Done(e)
    /\ UNCHANGED <<events, tables>>

ResetEphemeral(e) ==
    /\ pc[e] = "reset"
    /\ settings' = [c \in DOMAIN settings \ {e.chat} |-> settings[c]]
    /\ Done(e)
    /\ UNCHANGED <<events, table, labels, assocs, lids>>

HandleDeleteChat(e) ==
    /\ pc[e] = "clear"
    /\ table' = DeleteChatMessages(table, e.chat, e.ts)
    /\ Goto(e, "look")
    /\ local' = [local EXCEPT ![e].before = e.ts]
    /\ UNCHANGED <<events, settings, labels, assocs, lids>>

\* saveHistoryForOneChat stores messages with the status the history has, or
\* with 0, and then the setting of the chat, whose expiration it leaves at 0.
SaveHistory(e) ==
    /\ pc[e] = "sync"
    /\ IF local[e].n <= Len(e.messages)
       THEN LET h == e.messages[local[e].n] IN
            /\ table' = Upsert(table, Stored(h, h.status))
            /\ local' = [local EXCEPT ![e].n = @ + 1]
            /\ UNCHANGED pc
       ELSE /\ UNCHANGED table
            /\ IF e.expiration > 0
               THEN /\ local' = [local EXCEPT ![e].setting = {[ts |-> e.settingTs, expiration |-> 0]}]
                    /\ Goto(e, "set")
               ELSE Done(e)
    /\ UNCHANGED <<events, settings, labels, assocs, lids>>

-----------------------------------------------------------------------------
(* Receipts.                                                               *)

StatusOf(e) ==
    CASE e.type = "delivered" -> DeliveryAck [] e.type = "read" -> Read [] e.type = "played" -> Played

Id(e) == e.ids[local[e].n]

\* On to the next id of the receipt.
NextId(e) ==
    /\ local' = [local EXCEPT ![e] = [NoLocal EXCEPT !.n = local[e].n + 1]]
    /\ Goto(e, IF local[e].n = Len(e.ids) THEN "done" ELSE "get")

\* Mutant: a receipt is written whatever the status is.
GetMessageAny(e) ==
    /\ pc[e] = "get"
    /\ IF Id(e) \in DOMAIN table
       THEN Goto(e, "put") /\ local' = [local EXCEPT ![e].row = {table[Id(e)].data}]
       ELSE IF local[e].attempt + 1 < Attempts
            THEN UNCHANGED pc /\ local' = [local EXCEPT ![e].attempt = @ + 1]
            ELSE NextId(e)
    /\ UNCHANGED <<events, tables>>

\* GetMessageWithRetries: the message may be on its way.
GetMessage(e) ==
    /\ pc[e] = "get"
    /\ IF Id(e) \in DOMAIN table
       THEN IF table[Id(e)].data.status >= StatusOf(e)
            THEN NextId(e)
            ELSE Goto(e, "put") /\ local' = [local EXCEPT ![e].row = {table[Id(e)].data}]
       ELSE IF local[e].attempt + 1 < Attempts
            THEN UNCHANGED pc /\ local' = [local EXCEPT ![e].attempt = @ + 1]
            ELSE NextId(e)
    /\ UNCHANGED <<events, tables>>

\* The message as it was read is stored again, with the new status.
PutStatus(e) ==
    /\ pc[e] = "put"
    /\ \E row \in local[e].row : table' = Upsert(table, [row EXCEPT !.status = StatusOf(e)])
    /\ NextId(e)
    /\ UNCHANGED <<events, settings, labels, assocs, lids>>

-----------------------------------------------------------------------------
(* Labels and contacts.                                                    *)

HandleLabelEdit(e) ==
    /\ pc[e] = "edit"
    /\ labels' = IF e.deleted THEN labels \ {e.label} ELSE labels \cup {e.label}
    /\ Done(e)
    /\ UNCHANGED <<events, table, settings, assocs, lids>>

\* Mutant: one look at the labels.
AwaitLabelOnce(e) ==
    /\ pc[e] = "await"
    /\ local' = [local EXCEPT ![e].attempt = 1]
    /\ Goto(e, "associate")
    /\ UNCHANGED <<events, tables>>

\* The label may be on its way; after the last attempt the chat is associated
\* all the same.
AwaitLabel(e) ==
    /\ pc[e] = "await"
    /\ IF e.label \in labels
       THEN Goto(e, "associate") /\ UNCHANGED local
       ELSE /\ local' = [local EXCEPT ![e].attempt = @ + 1]
            /\ IF local[e].attempt + 1 < Attempts THEN UNCHANGED pc ELSE Goto(e, "associate")
    /\ UNCHANGED <<events, tables>>

AddAssociation(e) ==
    /\ pc[e] = "associate"
    /\ assocs' = assocs \cup {<<e.chat, e.label>>}
    /\ Done(e)
    /\ UNCHANGED <<events, table, settings, labels, lids>>

RemoveAssociation(e) ==
    /\ pc[e] = "unlabel"
    /\ assocs' = assocs \ {<<e.chat, e.label>>}
    /\ Done(e)
    /\ UNCHANGED <<events, table, settings, labels, lids>>

\* What GetLabelsByJid gives for an association: null if its label is gone.
LabelOf(assoc) == IF assoc[2] \in labels THEN assoc[2] ELSE "null"

\* A contact of a phone number names a LID, one of a LID a phone number; the map
\* keeps one LID for a phone number.
HandleContact(e) ==
    /\ pc[e] = "map"
    /\ IF e.other = NoUser \/ e.chat.server \notin {"s.whatsapp.net", "lid"}
       THEN UNCHANGED lids
       ELSE LET l == IF IsLid(e.chat) THEN e.chat.user ELSE e.other
                p == IF IsLid(e.chat) THEN e.other ELSE e.chat.user
            IN  lids' = [u \in {l} \cup {v \in DOMAIN lids : lids[v] # p} |-> IF u = l THEN p ELSE lids[u]]
    /\ Done(e)
    /\ UNCHANGED <<events, table, settings, labels, assocs>>

-----------------------------------------------------------------------------
Step(e) ==
    \/ HandleEvent(e) \/ HandleSaveMessage(e) \/ HandleMessageEvent(e)
    \/ SetEphemeral(e) \/ LookEphemeral(e) \/ ResetEphemeral(e)
    \/ HandleDeleteChat(e) \/ SaveHistory(e) \/ GetMessage(e) \/ PutStatus(e)
    \/ HandleLabelEdit(e) \/ AwaitLabel(e) \/ AddAssociation(e) \/ RemoveAssociation(e)
    \/ HandleContact(e)

StoreNext == \E e \in events : Step(e)

StoreSpec == StoreInit /\ [][StoreNext]_storeVars

-----------------------------------------------------------------------------
(* Properties.                                                             *)

\* The status of a stored message falls only if a message is stored again, or
\* if the row a receipt read has changed before it is written: receipts that
\* are handled one after the other never take a status back, in whichever order
\* they come.
StatusFallsOnlyByRace ==
    [][\A i \in DOMAIN table \cap DOMAIN table' :
         table'[i].data.status < table[i].data.status =>
            \E e \in events :
                \/ HandleSaveMessage(e) \/ SaveHistory(e)
                \/ PutStatus(e) /\ local[e].row # {table[i].data}]_storeVars

\* A chat shows null for a label only if that label was deleted, or did not
\* come in all the attempts of the association of this chat with this label.
NullLabelIsExplained ==
    \A a \in assocs : LabelOf(a) = "null" =>
        \E e \in events : pc[e] = "done" /\ e.label = a[2] /\
            \/ e.kind = "label" /\ e.deleted
            \/ e.kind = "assoc" /\ e.chat = a[1] /\ local[e].attempt = Attempts

Chats == {e.chat : e \in {f \in events : f.kind # "label"}}

\* A message stored again under another name of its chat keeps the column of the
\* first; the merged list is right only if the first was the LID, and is known.
Settled ==
    \A i \in DOMAIN table :
        LET jid == table[i].jid
            chat == table[i].data.chat
        IN  jid = chat \/ (IsLid(jid) /\ Canonical(lids, jid) = Canonical(lids, chat))

FilterAgreesFor(jids) ==
    LastMessagesMerged(table, lids, jids) =
        {i \in LastMessagesMerged(table, lids, {}) :
            ShownChat(table, lids, i) \in {Canonical(lids, j) : j \in jids}}

\* The merged list of chats has an entry for every chat with a message, and its
\* entry is as late as any of the messages the chat is asked for: two queries
\* and a merge in memory against one query with all the variants of a chat,
\* whatever the map of LIDs has learnt when they run.  The list asked for chats
\* is the part of the whole list that shows them, under whichever of its names a
\* chat is asked for; a LID that no phone number is known for is not asked for.
ViewsAgree ==
    Settled =>
        LET last == LastMessagesMerged(table, lids, {}) IN
        /\ \A i \in LastMessages(table, {}) :
              \E k \in last : ShownChat(table, lids, k) = Canonical(lids, table[i].jid)
        /\ \A k \in last :
              \A i \in GetChatMessages(table, lids, ShownChat(table, lids, k), TRUE) :
                  table[i].data.ts <= table[k].data.ts
        /\ \A j, k \in {c \in Chats : IsLid(c) => c.user \in DOMAIN lids} :
              FilterAgreesFor({j, k})

-----------------------------------------------------------------------------
(* What the repository says and the code does not do.                      *)

\* message.go:214 - "When a JID filter is provided, expand each JID to its
\* canonical form + LID variants": a chat in the list is found by its name.
FilterFindsChat ==
    Settled => \A j \in Chats : FilterAgreesFor({j})

\* storage_event_handler.go:253 - "Ignoring receipt for" status@broadcast.
StatusReceiptsIgnored ==
    [][\A e \in events :
         e.kind = "receipt" /\ e.chat = [server |-> "broadcast", user |-> "status"]
            => ~PutStatus(e)]_storeVars
===============================================================================
