------------------------------- MODULE MCServer -------------------------------
(* The requests that send messages, those that change the account, and the    *)
(* streams of events; a behaviour has one of the three.                       *)
EXTENDS MCOutgoing, Account, EventStreams

VARIABLE service

Ask(rpc, jid, value) == [rpc |-> rpc, jid |-> jid, value |-> value, who |-> {"alice"}, bad |-> {}]
Blank == [name |-> "old", topic |-> "old", topicId |-> 1, members |-> {"me", "bob"}, admins |-> {"me"},
          picture |-> "old", locked |-> FALSE, announce |-> FALSE, invite |-> "link"]
MCAccount0 ==
    [blank |-> Blank,
     account |-> [groups |-> "g" :> Blank @@ "h" :> [Blank EXCEPT !.topicId = 0, !.invite = "other"],
                  labels |-> "l" :> "old", tagged |-> {<<"chat", "l">>}, follows |-> {"n"}, mutes |-> {},
                  profile |-> [name |-> "old", status |-> "old", picture |-> "old"], presence |-> "UNAVAILABLE",
                  chats |-> <<>>, watched |-> {}, contacts |-> <<>>, marks |-> <<>>]]

Lone ==
    {Ask(rpc, "g", "new") : rpc \in {"CreateGroup", "LeaveGroup", "SetGroupName", "SetGroupPicture",
                                     "RevokeGroupInviteLink", "UpdateContact", "SubscribePresence"}}
    \cup {Ask(rpc, "g", TRUE) : rpc \in {"SetGroupLocked", "SetGroupAnnounce"}}
    \cup {Ask("UpdateGroupParticipants", "g", v) : v \in {"ADD", "REMOVE", "PROMOTE", "DEMOTE"}}
    \cup {Ask("JoinGroupWithLink", "", "link"), Ask("UpsertLabel", "m", "new"), Ask("DeleteLabel", "l", "old"),
          Ask("CreateNewsletter", "", "o")}
    \cup {Ask(rpc, "n", v) : rpc \in {"NewsletterToggleMute", "NewsletterToggleFollow"}, v \in BOOLEAN}
    \cup {[Ask(rpc, "chat", "l") EXCEPT !.bad = b] : rpc \in {"AddChatLabel", "RemoveChatLabel"}, b \in {{}, {"jid"}}}
    \cup {Ask(rpc, "", "new") : rpc \in {"SetProfileName", "SetProfileStatus", "SetProfilePicture", "SendPresence"}}
    \cup {Ask("SendChatPresence", "chat", v) : v \in {"TYPING", "RECORDING", "PAUSED"}}
    \cup {[Ask("SetGroupName", "g", "new") EXCEPT !.bad = {"session"}]}

Describe(g, v) == Ask("SetGroupDescription", g, v)
MCAsks ==
    {{}} \cup {{r} : r \in Lone}
      \cup {{Describe(g, "new"), Describe(g, "newer"), Describe(g, "newest")} : g \in {"g", "h"}}
      \cup {{Ask("MarkChatUnread", "chat", TRUE), Ask("MarkChatUnread", "chat", FALSE)},
            {Ask("SendNewsletterPollVote", "n", v) : v \in {"yes", "no"}},
            {Ask("LeaveGroup", "g", "new"), Describe("g", "new"), Ask("RevokeGroupInviteLink", "g", "new")}}

MCFeed == "first" :> <<"x", "y", "x">> @@ "second" :> <<"z">>
MCExcluded == "s" :> {"y"} @@ "t" :> {}

Init ==
    /\ OutgoingInit /\ AccountInit /\ EventsInit
    /\ service \in {"messages", "account", "streams"}
    /\ (asked = {}) = (service # "messages")
    /\ (Clients = {}) = (service # "account")
Next ==
    \/ service = "messages" /\ OutgoingNext /\ UNCHANGED <<accountVars, eventVars, service>>
    \/ service = "account" /\ AccountNext /\ UNCHANGED <<outgoingVars, eventVars, service>>
    \/ service = "streams" /\ EventsNext /\ UNCHANGED <<outgoingVars, accountVars, service>>
Spec ==
    /\ Init /\ [][Next]_<<outgoingVars, accountVars, eventVars, service>>
    /\ EventsFairness
===============================================================================
