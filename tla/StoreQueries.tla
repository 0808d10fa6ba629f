----------------------------- MODULE StoreQueries -----------------------------
(***************************************************************************)
(* The message table and what is asked of it.  A row keeps the chat and    *)
(* is_real as they were first inserted: an upsert writes only the data     *)
(* column (and the timestamp, which is the one in the data).  Chats of one *)
(* person under a phone number and under a LID are merged by the map of    *)
(* LIDs.  A table is a function on message ids, the map of LIDs one on the *)
(* users of LIDs.                                                          *)
(***************************************************************************)
EXTENDS Naturals, TLC

Phone(user) == [server |-> "s.whatsapp.net", user |-> user]
Lid(user)   == [server |-> "lid", user |-> user]
IsLid(jid)  == jid.server = "lid"

Canonical(lids, jid) ==
    IF IsLid(jid) /\ jid.user \in DOMAIN lids THEN Phone(lids[jid.user]) ELSE jid

\* LIDs of a phone number: asked for by the user part, whatever the server.
LidsOf(lids, user) == {Lid(u) : u \in {v \in DOMAIN lids : lids[v] = user}}

\* The chats that are shown as one with jid.
Variants(lids, jid) ==
    LET c == Canonical(lids, jid) IN {c} \cup LidsOf(lids, c.user)

-----------------------------------------------------------------------------
\* INSERT ... ON CONFLICT (id) DO UPDATE SET timestamp, data.
Upsert(table, msg) ==
    [i \in DOMAIN table \cup {msg.id} |->
        IF i # msg.id THEN table[i]
        ELSE IF i \in DOMAIN table THEN [table[i] EXCEPT !.data = msg]
        ELSE [jid |-> msg.chat, real |-> msg.real, data |-> msg]]

DeleteIds(table, ids) == [i \in DOMAIN table \ ids |-> table[i]]

\* DELETE ... WHERE jid = ? AND timestamp < ?
DeleteChatMessages(table, jid, before) ==
    DeleteIds(table, {i \in DOMAIN table : table[i].jid = jid /\ table[i].data.ts < before})

-----------------------------------------------------------------------------
Real(table) == {i \in DOMAIN table : table[i].real}

\* A filter's fields are optional: sets of at most one value.
NoFilter == [jid |-> {}, gte |-> {}, lte |-> {}, fromMe |-> {}, status |-> {}]

\* GetAllMessages, without its order and its page.
GetAllMessages(table, lids, filter, merge) ==
    {i \in Real(table) :
        LET row == table[i] IN
        /\ \A j \in filter.jid : row.jid \in IF merge THEN Variants(lids, j) ELSE {j}
        /\ \A t \in filter.gte : row.data.ts >= t
        /\ \A t \in filter.lte : row.data.ts <= t
        /\ \A b \in filter.fromMe : row.data.fromMe = b
        /\ \A s \in filter.status : row.data.status = s}

GetChatMessages(table, lids, jid, merge) ==
    GetAllMessages(table, lids, [NoFilter EXCEPT !.jid = {jid}], merge)

\* DISTINCT ON (jid) ... ORDER BY timestamp DESC: of rows of one time any.
DistinctLatestByJID(table, ids) ==
    {i \in ids : \A j \in ids : table[j].jid = table[i].jid => table[j].data.ts <= table[i].data.ts}

\* Mutant: the row of the phone number always wins.
MergePhoneFirst(table, lids, primary, secondary) ==
    primary \cup {i \in secondary : \A j \in primary :
                     table[j].data.chat # Canonical(lids, table[i].data.chat)}

\* mergeLastMessages, of rows with their chats made canonical where the jid is
\* a LID: a secondary row replaces what is there only if it is later.
MergeLastMessages(table, lids, primary, secondary) ==
    LET key(i) == IF i \in secondary THEN Canonical(lids, table[i].data.chat)
                  ELSE table[i].data.chat
        rivals(i) == {j \in primary \cup secondary : key(j) = key(i)} \ {i}
    IN  {i \in primary \cup secondary : \A j \in rivals(i) :
            IF i \in secondary /\ j \in primary
            THEN table[i].data.ts > table[j].data.ts
            ELSE table[i].data.ts >= table[j].data.ts}

\* getLastMessagesInChatsWithMerge, without its order and its page.  A filter
\* of chats is expanded to phone numbers for one query and to LIDs for the
\* other; {} is no filter.
LastMessagesMerged(table, lids, jids) ==
    LET phones == {Canonical(lids, j) : j \in jids}
        ofLids == UNION {LidsOf(lids, c.user) : c \in phones}
        in(i, filter) == filter = {} \/ table[i].jid \in filter
        rows == DistinctLatestByJID(table, Real(table))
        primary == {i \in rows : ~IsLid(table[i].jid) /\ in(i, phones)}
        secondary == IF jids # {} /\ ofLids = {} THEN {}
                     ELSE {i \in rows : IsLid(table[i].jid) /\ in(i, ofLids)}
    IN  MergeLastMessages(table, lids, primary, secondary)

\* GetLastMessagesInChats without a merge.
LastMessages(table, jids) ==
    {i \in DistinctLatestByJID(table, Real(table)) : jids = {} \/ table[i].jid \in jids}

\* The chat a row of the merged list is shown as.
ShownChat(table, lids, i) ==
    IF IsLid(table[i].jid) THEN Canonical(lids, table[i].data.chat) ELSE table[i].data.chat
===============================================================================
