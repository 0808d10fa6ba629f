------------------------------- MODULE MCStorage -------------------------------
(* What the handlers of events leave for others: the tables of messages, the   *)
(* copy of a group, the answers that downloads wait for.  A behaviour has one  *)
(* of the three.                                                               *)
(*                                                                             *)
(* Events that meet: receipts of two messages with a history sync and a        *)
(* revocation; messages of one person under a phone number and a LID with the  *)
(* contact that joins them and the deletion of a chat; settings; labels.       *)
EXTENDS MessageStore, GroupCache, MediaRetry

CONSTANTS p1, r1, t1, t2, h1, h2

VARIABLE part

P == Phone("p")
L == Lid("l")
U == Lid("u")
G == [server |-> "g.us", user |-> "g"]
B == [server |-> "broadcast", user |-> "status"]

Msg(id, chat, ts, fromMe, content) ==
    [kind |-> "message", id |-> id, chat |-> chat, ts |-> ts, fromMe |-> fromMe,
     content |-> content, expiration |-> 0, settingTs |-> NoTimestamp, status |-> ServerAck]
Protocol(id, chat, ts, protocol, target, expiration) ==
    [kind |-> "message", id |-> id, chat |-> chat, ts |-> ts, fromMe |-> FALSE,
     content |-> "protocol", protocol |-> protocol, target |-> target,
     expiration |-> expiration, settingTs |-> ts]
Receipt(chat, type, ids) == [kind |-> "receipt", chat |-> chat, type |-> type, ids |-> ids]
History(chat, messages, expiration) ==
    [kind |-> "history", chat |-> chat, messages |-> messages, expiration |-> expiration,
     settingTs |-> NoTimestamp]
DeleteChat(chat, ts) == [kind |-> "delete", chat |-> chat, ts |-> ts]
Contact(chat, other) == [kind |-> "contact", chat |-> chat, other |-> other]
Label(l, deleted) == [kind |-> "label", label |-> l, deleted |-> deleted]
Assoc(chat, l, labeled) == [kind |-> "assoc", chat |-> chat, label |-> l, labeled |-> labeled]

M1 == Msg("m1", P, 1, TRUE, "conversation")
M2 == Msg("m2", L, 2, FALSE, "image")
M3 == Msg("m3", L, 1, FALSE, "contact")
M4 == Msg("m4", U, 3, FALSE, "poll")
M5 == Msg("m5", G, 1, FALSE, "audio")

MCScenarios ==
    { {M1, Receipt(P, "delivered", <<"m1">>), Receipt(P, "read", <<"m1", "m2">>), M2,
       Protocol("m6", L, 3, "revoke", "m2", 0)},
      {M1, Receipt(P, "played", <<"m1">>), Receipt(P, "read", <<"m1">>),
       History(P, <<M1, [Msg("m7", P, 0, TRUE, "video") EXCEPT !.status = Read]>>, 0),
       Receipt(P, "retry", <<"m1">>)},
      {M1, M2, M3, M5, Contact(L, "p"), DeleteChat(L, 2)},
      {M1, M2, M4, Contact(P, "l"), Contact(U, NoUser), DeleteChat(P, 3),
       History(P, <<[M2 EXCEPT !.chat = P]>>, 0)},
      {[M1 EXCEPT !.chat = B], Receipt(B, "read", <<"m1">>)},
      {[M2 EXCEPT !.expiration = 7, !.settingTs = 1], DeleteChat(L, 2),
       Protocol("m7", L, 3, "setting", "", 9), Protocol("m8", L, 4, "setting", "", 0),
       History(L, <<M3>>, 5), Msg("m9", G, 1, FALSE, "nil")},
      {}, {Label("a", FALSE), Label("b", FALSE), Label("a", TRUE), Assoc(P, "a", TRUE),
       Assoc(P, "b", TRUE), Assoc(P, "b", FALSE), Assoc(G, "b", TRUE)} }

Init ==
    /\ StoreInit /\ GroupInit /\ RetryInit
    /\ part \in {"messages", "group", "downloads"}
    /\ (part = "messages") = (events # {})
Next ==
    /\ UNCHANGED part
    /\ \/ part = "messages" /\ StoreNext /\ UNCHANGED <<groupVars, retryVars>>
       \/ part = "group" /\ GroupNext /\ UNCHANGED <<storeVars, retryVars>>
       \/ part = "downloads" /\ RetryNext /\ UNCHANGED <<storeVars, groupVars>>
Spec == Init /\ [][Next]_<<storeVars, groupVars, retryVars, part>> /\ RetryFairness
================================================================================
