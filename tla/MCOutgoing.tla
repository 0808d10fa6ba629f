------------------------------ MODULE MCOutgoing ------------------------------
(* A bounded instance of Outgoing: every kind of request on its own, and two  *)
(* texts whose timers meet a change of the timer.                             *)
EXTENDS Outgoing

Alice == [user |-> "alice", server |-> "s.whatsapp.net"]
Bob == [user |-> "bob", server |-> "s.whatsapp.net"]
Lid == [user |-> "carol", server |-> "lid"]
Own == [user |-> "me", server |-> "s.whatsapp.net"]
Group == [user |-> "team", server |-> "g.us"]
News == [user |-> "news", server |-> "newsletter"]
Status == [user |-> "status", server |-> "broadcast"]
MCAudience == <<Alice, Lid, Bob, Own>>

Plain == [rpc |-> "SendMessage", id |-> "n1", chat |-> Alice, kind |-> "text", options |-> 0,
          multiple |-> FALSE, contacts |-> 0, number |-> FALSE, reply |-> "", target |-> "",
          participants |-> <<>>, mentions |-> FALSE, bad |-> {}, slow |-> FALSE]

MCStored ==
    LET Row(content, serverID) == [content |-> content, context |-> NoContext, serverID |-> serverID]
        Timed(content) == [Row(content, 0) EXCEPT !.context.timer = 9]
    IN  "text" :> Timed("extended") @@ "plain" :> Row("conversation", 0) @@ "poll" :> Row("pollV3", 0)
          @@ "event" :> Row("event", 0) @@ "post" :> Row("poll", 7) @@ "file" :> Timed("captioned")
          @@ "empty" :> Row("nil", 0)

\* One request at a time: every rpc, every kind, every way to go wrong.
Alone ==
    {[Plain EXCEPT !.kind = k, !.reply = q, !.mentions = TRUE] :
        k \in {"text", "poll", "list", "event", "location", "buttons"} \cup MediaKinds, q \in {"", "text", "empty", "gone"}}
    \cup {[Plain EXCEPT !.kind = "poll", !.options = n, !.multiple = n = 3] : n \in {2, 3}}
    \cup {[Plain EXCEPT !.kind = "contacts", !.contacts = n] : n \in 1 .. 2}
    \cup {[Plain EXCEPT !.kind = "pollVote", !.chat = c, !.target = t, !.number = n, !.bad = b] :
            c \in {Group, News}, t \in {"poll", "post", "gone"}, n \in BOOLEAN, b \in {{}, {"options"}}}
    \cup {[Plain EXCEPT !.bad = {b}, !.slow = TRUE] : b \in {"session", "jid", "color"}}
    \cup {[Plain EXCEPT !.chat = Status, !.participants = p, !.slow = s] :
            p \in {<<>>, <<Alice, Lid>>, <<Lid>>}, s \in BOOLEAN}
    \cup {[Plain EXCEPT !.rpc = "EditMessage", !.target = t] : t \in {"text", "plain", "file", "gone"}}
    \cup {[Plain EXCEPT !.rpc = "SendReaction", !.chat = c, !.target = t, !.number = n] :
            c \in {Alice, News}, t \in {"poll", "post"}, n \in BOOLEAN}
    \cup {[Plain EXCEPT !.rpc = "SendButtonReply", !.reply = q] : q \in {"text", "gone"}}
    \cup {[Plain EXCEPT !.rpc = "CancelEventMessage", !.target = t] : t \in {"event", "poll", "gone"}}
    \cup {[Plain EXCEPT !.rpc = rpc, !.target = "text", !.slow = s] : rpc \in {"RevokeMessage", "MarkRead"}, s \in BOOLEAN}

\* A text and what may meet it: another text, and the end of what it quotes.
Late == [Plain EXCEPT !.slow = TRUE]
MCScenarios ==
    {{}} \cup {{r} : r \in Alone}
      \cup {{Late, [Plain EXCEPT !.id = "n2"]},
            {Late, [Plain EXCEPT !.id = "n2", !.rpc = "EditMessage", !.target = "text"]},
            {[Plain EXCEPT !.reply = "text"], [Plain EXCEPT !.id = "n2", !.rpc = "RevokeMessage", !.target = "text"]},
            {Plain, [Plain EXCEPT !.id = "n2", !.chat = Lid]}}

Change(chat, by, expiration) == [chat |-> chat, by |-> by, expiration |-> expiration, early |-> FALSE]
MCChanges == <<Change(Alice, "other", 5), Change(Alice, "other", 0), Change(Alice, "history", 0),
               Change(Lid, "history", 7), [Change(Lid, "other", 0) EXCEPT !.early = TRUE]>>
===============================================================================
