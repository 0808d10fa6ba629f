------------------------------ MODULE GroupCache ------------------------------
(***************************************************************************)
(* The stored copy of a group.  Notifications of the server are handled in *)
(* goroutines of their own, in any order: an update is applied under the   *)
(* cache's lock and only to the version it is made from, and is tried      *)
(* again a few times; when the cache is a day old the groups are fetched   *)
(* instead.  That I joined or left is written without the lock.  Groups    *)
(* share only the lock and the refresh, so there is one.                   *)
(***************************************************************************)
EXTENDS Naturals, FiniteSets

CONSTANTS
    People,       \* the other participants
    Readers,      \* RPCs that read groups, or force a refresh
    UpdateAttempts,     \* of retry.Do: 10 in the code
    MaxChanges,   \* bound: changes of the group
    MaxRefreshes  \* bound: times a day passes

ASSUME GroupCacheAssumption ==
    /\ {UpdateAttempts, MaxChanges} \subseteq Nat \ {0}
    /\ MaxRefreshes \in Nat
    /\ Readers \cap (0 .. MaxChanges) = {}

VARIABLES
    server,    \* the group as the server has it
    history,   \* its participants, at each version
    sent,      \* the notifications sent so far, numbered
    stored,    \* gows_groups: {} or the group
    setting,   \* the timer in gows_chat_ephemeral_setting, 0 for none
    due,       \* shouldRefresh
    refreshes, \* days that have passed
    lock,      \* holder of g.lock, or {}
    stage,        \* of the handlers of notifications and of the RPCs
    work,     \* [group, attempt]
    raced      \* history: an unlocked write met a locked one

cacheVars == <<stored, setting, raced>>
groupVars == <<server, history, sent, cacheVars, due, refreshes, lock, stage, work>>

Numbers == 0 .. MaxChanges
Workers == Numbers \cup Readers
NoWork == [group |-> {}, attempt |-> 0]
Move(t, l) == stage' = [stage EXCEPT ![t] = l]
Inside == server.mine

-----------------------------------------------------------------------------
(* UpdateGroupInfo.                                                        *)

\* An update is of participants, with the version it starts from and the one it
\* makes, or of the timer: the new one, or none.
NoChange == [join |-> {}, leave |-> {}, promote |-> {}, demote |-> {}, timer |-> {}, prev |-> 0, version |-> 0]

\* ParticipantsMap: the changes in their order, the roles by participant.
UpdateParticipants(members, u) ==
    LET joined == [p \in DOMAIN members \cup u.join |->
                      IF p \in DOMAIN members THEN members[p] ELSE "member"]
    IN  [p \in DOMAIN joined \ u.leave |->
            IF p \in u.demote THEN "member"
            ELSE IF p \in u.promote THEN "admin" ELSE joined[p]]

\* Mutant: an update of an older group is taken.
MismatchedIfOlder(group, u) ==
    u.join \cup u.leave \cup u.promote \cup u.demote # {} /\ u.prev < group.version

IsVersioned(u) == u.join \cup u.leave \cup u.promote \cup u.demote # {}

\* ErrMismatchedParticipantVersion.
Mismatched(group, u) == IsVersioned(u) /\ u.prev # group.version

UpdateGroupInfo(group, u) ==
    LET g == IF u.timer = {} THEN group ELSE [group EXCEPT !.timer = CHOOSE t \in u.timer : TRUE]
    IN  IF IsVersioned(u)
        THEN [g EXCEPT !.members = UpdateParticipants(group.members, u), !.version = u.version]
        ELSE g

-----------------------------------------------------------------------------
(* The server.                                                             *)

GroupInit ==
    /\ server = [version |-> 0, members |-> [p \in {} |-> "member"], timer |-> 0, mine |-> TRUE]
    /\ history = [v \in {0} |-> server.members]
    /\ sent = [n \in {0} |-> [kind |-> "joined", group |-> server]]
    /\ stored = {}
    /\ setting = 0
    /\ due = TRUE
    /\ refreshes = 0
    /\ lock = {}
    /\ stage = [t \in Workers |-> "idle"]
    /\ work = [t \in Workers |-> NoWork]
    /\ raced = FALSE

Announce(note) ==
    LET next == Cardinality(DOMAIN sent)
    IN  sent' = [n \in DOMAIN sent \cup {next} |-> IF n = next THEN note ELSE sent[n]]
CanChange == Inside /\ Cardinality(DOMAIN sent) <= MaxChanges
UNCHANGED_cache == UNCHANGED <<cacheVars, due, refreshes, lock, stage, work>>

Changes ==
    {[NoChange EXCEPT !.join = {p}] : p \in People \ DOMAIN server.members} \cup
    {[NoChange EXCEPT !.leave = {p}] : p \in DOMAIN server.members} \cup
    {[NoChange EXCEPT !.promote = {p}] : p \in {q \in DOMAIN server.members : server.members[q] = "member"}} \cup
    {[NoChange EXCEPT !.demote = {p}] : p \in {q \in DOMAIN server.members : server.members[q] = "admin"}}

ChangeParticipants ==
    /\ CanChange
    /\ \E c \in Changes :
         LET v == server.version + 1
             members == UpdateParticipants(server.members, c)
         IN  /\ server' = [server EXCEPT !.version = v, !.members = members]
             /\ history' = [w \in DOMAIN history \cup {v} |-> IF w = v THEN members ELSE history[w]]
             /\ Announce([kind |-> "update", update |-> [c EXCEPT !.prev = server.version, !.version = v]])
    /\ UNCHANGED_cache

ChangeTimer ==
    /\ CanChange
    /\ \E t \in {0, 1} \ {server.timer} :
         /\ server' = [server EXCEPT !.timer = t]
         /\ Announce([kind |-> "update", update |-> [NoChange EXCEPT !.timer = {t}]])
    /\ UNCHANGED history
    /\ UNCHANGED_cache

\* I leave, or am removed.
RemoveMe ==
    /\ CanChange
    /\ server' = [server EXCEPT !.mine = FALSE]
    /\ Announce([kind |-> "left"])
    /\ UNCHANGED history
    /\ UNCHANGED_cache

DayPasses ==
    /\ ~due /\ refreshes < MaxRefreshes
    /\ due' = TRUE
    /\ refreshes' = refreshes + 1
    /\ UNCHANGED <<server, history, sent, cacheVars, lock, stage, work>>

-----------------------------------------------------------------------------
(* Handlers.                                                               *)

serverVars == <<server, history, sent>>

Start(n) ==
    /\ n \in DOMAIN sent /\ stage[n] = "idle"
    /\ Move(n, CASE sent[n].kind = "joined" -> "join"
                 [] sent[n].kind = "left" -> "leave"
                 [] OTHER -> "lock")
    /\ UNCHANGED <<serverVars, cacheVars, due, refreshes, lock, work>>

\* GetGroup, GetAllGroups and FetchGroups read under no lock once the groups
\* are fresh; what they read changes nothing.
StartReader(r) ==
    /\ stage[r] = "idle"
    /\ \E l \in {"lock", "force"} : Move(r, l)
    /\ UNCHANGED <<serverVars, cacheVars, due, refreshes, lock, work>>

\* Somebody has read what an unlocked write makes stale.
CopyIsOut == \E t \in lock : stage[t] \notin {"fetch", "read"}

\* handleMeJoinedGroup: UpsertOneGroup, setting and group, without the lock.
JoinedSetting(n) ==
    /\ stage[n] = "join"
    /\ setting' = sent[n].group.timer
    /\ Move(n, "joined")
    /\ raced' = (raced \/ CopyIsOut \/ stored # {})
    /\ UNCHANGED <<serverVars, stored, due, refreshes, lock, work>>

JoinedGroup(n) ==
    /\ stage[n] = "joined"
    /\ stored' = {sent[n].group}
    /\ Move(n, "done")
    /\ raced' = (raced \/ CopyIsOut \/ stored # {})
    /\ UNCHANGED <<serverVars, setting, due, refreshes, lock, work>>

\* handleMeLeftGroup: DeleteGroup, setting and group, without the lock.
LeftSetting(n) ==
    /\ stage[n] = "leave"
    /\ setting' = 0
    /\ Move(n, "left")
    /\ raced' = (raced \/ CopyIsOut \/ stage[0] # "done")
    /\ UNCHANGED <<serverVars, stored, due, refreshes, lock, work>>

LeftGroup(n) ==
    /\ stage[n] = "left"
    /\ stored' = {}
    /\ Move(n, "done")
    /\ raced' = (raced \/ CopyIsOut \/ stage[0] # "done")
    /\ UNCHANGED <<serverVars, setting, due, refreshes, lock, work>>

\* UpdateGroup and fetchGroupsIfNeeded take the lock and look at the time.
Lock(t) ==
    /\ stage[t] \in {"lock", "force"} /\ lock = {}
    /\ IF due \/ stage[t] = "force"
       THEN lock' = {t} /\ Move(t, "fetch")
       ELSE IF t \in Readers
            THEN UNCHANGED lock /\ Move(t, "done")
            ELSE lock' = {t} /\ Move(t, "read")
    /\ raced' = (raced \/ \E n \in Numbers : stage[n] \in {"joined", "left"})
    /\ UNCHANGED <<serverVars, stored, setting, due, refreshes, work>>

\* An error of UpdateGroup is tried again by handleGroupInfo; a reader's is its
\* answer.
Fail(t) ==
    /\ lock' = {}
    /\ IF t \in Readers \/ work[t].attempt + 1 = UpdateAttempts
       THEN Move(t, IF t \in Readers THEN "done" ELSE "gave_up")
       ELSE Move(t, "lock")
    /\ work' = [work EXCEPT ![t] = [NoWork EXCEPT !.attempt = work[t].attempt + 1]]

Finish(t) == lock' = {} /\ Move(t, "done") /\ work' = [work EXCEPT ![t].group = {}]

\* fetchGroupsUnlocked: the groups I am in, as the server has them now; then the
\* table is emptied and filled again, and the update that met this is skipped.
Fetch(t) ==
    /\ stage[t] = "fetch"
    /\ \/ /\ work' = [work EXCEPT ![t].group = IF Inside THEN {server} ELSE {}]
          /\ Move(t, "wipe") /\ UNCHANGED lock
       \/ Fail(t)
    /\ UNCHANGED <<serverVars, cacheVars, due, refreshes>>

Wipe(t) ==
    /\ stage[t] = "wipe"
    /\ stored' = {}
    /\ Move(t, "refill")
    /\ UNCHANGED <<serverVars, setting, raced, due, refreshes, lock, work>>

RefillSetting(t) ==
    /\ stage[t] = "refill"
    /\ \A g \in work[t].group : setting' = g.timer
    /\ work[t].group = {} => UNCHANGED setting
    /\ Move(t, "insert")
    /\ UNCHANGED <<serverVars, stored, raced, due, refreshes, lock, work>>

Insert(t) ==
    /\ stage[t] = "insert"
    /\ stored' = IF work[t].group = {} THEN stored ELSE work[t].group
    /\ due' = FALSE
    /\ Finish(t)
    /\ UNCHANGED <<serverVars, setting, raced, refreshes>>

\* Mutant: an update that does not fit is dropped.
ReadOrDrop(t) ==
    /\ stage[t] = "read"
    /\ \/ stored = {} /\ Fail(t)
       \/ \E g \in stored :
            IF Mismatched(g, sent[t].update)
            THEN Finish(t)
            ELSE /\ work' = [work EXCEPT ![t].group = {UpdateGroupInfo(g, sent[t].update)}]
                 /\ Move(t, "setting") /\ UNCHANGED lock
    /\ UNCHANGED <<serverVars, cacheVars, due, refreshes>>

\* The group is read and updated in memory; one that is not there, or not at the
\* version the update starts from, is an error.
ReadGroup(t) ==
    /\ stage[t] = "read"
    /\ \/ stored = {} /\ Fail(t)
       \/ \E g \in stored :
            IF Mismatched(g, sent[t].update)
            THEN Fail(t)
            ELSE /\ work' = [work EXCEPT ![t].group = {UpdateGroupInfo(g, sent[t].update)}]
                 /\ Move(t, "setting") /\ UNCHANGED lock
    /\ UNCHANGED <<serverVars, cacheVars, due, refreshes>>

\* Mutant: only a timer that is on is written.
UpdateSettingOn(t) ==
    /\ stage[t] = "setting"
    /\ setting' = IF sent[t].update.timer = {1} THEN 1 ELSE setting
    /\ Move(t, "write")
    /\ UNCHANGED <<serverVars, stored, raced, due, refreshes, lock, work>>

UpdateSetting(t) ==
    /\ stage[t] = "setting"
    /\ setting' = IF sent[t].update.timer = {} THEN setting
                  ELSE (CHOOSE g \in work[t].group : TRUE).timer
    /\ Move(t, "write")
    /\ UNCHANGED <<serverVars, stored, raced, due, refreshes, lock, work>>

WriteGroup(t) ==
    /\ stage[t] = "write"
    /\ stored' = work[t].group
    /\ Finish(t)
    /\ UNCHANGED <<serverVars, setting, raced, due, refreshes>>

-----------------------------------------------------------------------------
Locked(t) ==
    \/ Lock(t) \/ Fetch(t) \/ Wipe(t) \/ RefillSetting(t) \/ Insert(t)
    \/ ReadGroup(t) \/ UpdateSetting(t) \/ WriteGroup(t)
Handler(n) == Start(n) \/ JoinedSetting(n) \/ JoinedGroup(n) \/ LeftSetting(n) \/ LeftGroup(n)

GroupNext ==
    \/ ChangeParticipants \/ ChangeTimer \/ RemoveMe \/ DayPasses
    \/ \E n \in Numbers : Handler(n)
    \/ \E r \in Readers : StartReader(r)
    \/ \E t \in Workers : Locked(t)

GroupSpec == GroupInit /\ [][GroupNext]_groupVars

-----------------------------------------------------------------------------
\* The stored participants are those the group had at the stored version, in
\* whichever order updates, refreshes and the join are handled: an update that
\* is lost or comes twice never leaves a list that was nowhere true.
VersionMatchesMembers == \A g \in stored : g.members = history[g.version]

Quiet == \A n \in DOMAIN sent : stage[n] \in {"done", "gave_up"}
NoneGaveUp == \A n \in DOMAIN sent : stage[n] # "gave_up"

\* When all notifications are handled the stored copy is the server's, also if
\* they were handled in the opposite order or skipped for a refresh: one that I
\* left is not stored, another is unless an update was given up.  It takes an
\* unlocked write that meets somebody's copy to make this wrong.
CaughtUp ==
    Quiet /\ lock = {} /\ ~raced =>
        IF Inside
        THEN NoneGaveUp => stored # {} /\ \A g \in stored : g.version = server.version
        ELSE stored = {}

\* The setting that messages to the group are sent with is the timer of the
\* stored group whenever nobody is at work on the two: they are in two tables,
\* each writer writes one after the other, and a refresh empties only one.
SettingFollowsGroup ==
    /\ ~raced /\ lock = {}
    /\ \A n \in Numbers : stage[n] \notin {"joined", "left"}
    => \A g \in stored : setting = g.timer
===============================================================================
