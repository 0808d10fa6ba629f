----------------------------- MODULE StorageProofs -----------------------------
(***************************************************************************)
(* What TLAPS proves of what handlers of events leave for others: the copy *)
(* of a group, the tables of messages, the answers downloads wait for.     *)
(***************************************************************************)
EXTENDS MessageStore, GroupCache, MediaRetry, FiniteSetTheorems, TLAPS

-----------------------------------------------------------------------------
(* GroupCache.                                                             *)

Roles == {"member", "admin"}
Members == UNION {[S -> Roles] : S \in SUBSET People}
Group == [version : Nat, members : Members, timer : {0, 1}, mine : BOOLEAN]
Update == [join : SUBSET People, leave : SUBSET People, promote : SUBSET People, demote : SUBSET People,
           timer : SUBSET {0, 1}, prev : Nat, version : Nat]
Inner == {"fetch", "wipe", "refill", "insert", "read", "setting", "write"}
Outer == {"idle", "lock", "force", "join", "joined", "leave", "left", "done", "gave_up"}

GroupTypeOK ==
    /\ server \in Group
    /\ history \in [0 .. server.version -> Members]
    /\ stored \in SUBSET Group
    /\ setting \in {0, 1} /\ due \in BOOLEAN /\ raced \in BOOLEAN
    /\ lock \in SUBSET Workers
    /\ stage \in [Workers -> Inner \cup Outer]
    /\ work \in [Workers -> [group : SUBSET Group, attempt : Nat]]

\* Where the handler of a notification can be, once it runs.
StagesOf(kind) ==
    CASE kind = "joined" -> {"join", "joined", "done"}
      [] kind = "left"   -> {"leave", "left", "done"}
      [] kind = "update" -> {"lock", "done", "gave_up"} \cup Inner

IsNote(n) ==
    \/ n = 0 /\ sent[n].kind = "joined" /\ sent[n].group \in Group
    \/ n # 0 /\ sent[n].kind = "left" /\ ~server.mine
    \/ n # 0 /\ sent[n].kind = "update" /\ sent[n].update \in Update

\* Number 0 is that I joined; that I left is the last one, as the group then
\* changes no more for me.
NotesFit ==
    /\ \E k \in Numbers : DOMAIN sent = 0 .. k
    /\ \A n \in DOMAIN sent : IsNote(n)
    /\ \A n \in Numbers : stage[n] # "idle" => n \in DOMAIN sent /\ stage[n] \in StagesOf(sent[n].kind)
    /\ \A r \in Readers : stage[r] \in {"idle", "lock", "force", "fetch", "wipe", "refill", "insert", "done"}

\* Who is between Lock and its end holds the lock, and nobody else has a group
\* in hand; there is one group.
LockFits ==
    /\ \A t, u \in lock : t = u
    /\ \A t \in Workers : stage[t] \in Inner <=> t \in lock
    /\ \A t \in Workers : stage[t] \notin {"wipe", "refill", "insert", "setting", "write"} => work[t].group = {}
    /\ \A t \in Workers : stage[t] \in {"setting", "write"} => work[t].group # {}
    /\ \A t \in Workers : \A g, h \in work[t].group : g = h
    /\ \A g, h \in stored : g = h

\* A copy is of some version the group had; an update leads from its version to
\* the next.
WasTrue(g) == g.version <= server.version /\ g.members = history[g.version]
VersionsFit ==
    /\ server.members = history[server.version]
    /\ \A n \in DOMAIN sent : sent[n].kind = "joined" => WasTrue(sent[n].group)
    /\ \A n \in DOMAIN sent : sent[n].kind = "update" =>
         LET u == sent[n].update
         IN  IF IsVersioned(u)
             THEN /\ u.version = u.prev + 1 /\ u.version <= server.version
                  /\ history[u.version] = UpdateParticipants(history[u.prev], u)
             ELSE u.version = 0
    /\ \A g \in stored : WasTrue(g)
    /\ \A t \in Workers : \A g \in work[t].group : WasTrue(g)

\* The setting, as long as nothing has raced.  Between the two writes of a join
\* or a leave it is that of neither.
Between == \E n \in Numbers : stage[n] \in {"joined", "left"}

LeftAfterJoined == \A n \in Numbers : stage[n] = "left" => stage[0] = "done"

\* With nobody between the two tables the setting is the group's ...
RestFits ==
    ~Between /\ (\A t \in lock : stage[t] \in {"fetch", "read"}) => \A g \in stored : setting = g.timer

\* ... with the holder of the lock between them it is that of what comes next ...
WorkFits(t) ==
    /\ stage[t] \in {"refill", "insert"} => stored = {}
    /\ stage[t] = "insert" => \A g \in work[t].group : setting = g.timer
    /\ stage[t] = "setting" /\ ~Between /\ sent[t].update.timer = {} =>
          \A g \in work[t].group : setting = g.timer
    /\ stage[t] = "write" /\ ~Between => \A g \in work[t].group : setting = g.timer

\* ... and a join between its two writes has met an empty table.
JoinFits(t) ==
    /\ stage[t] \notin {"setting", "write"}
    /\ stage[t] \in {"fetch", "read"} => stored = {}
    /\ work[t].group = {} => setting = sent[0].group.timer

SettingFits ==
    /\ LeftAfterJoined
    /\ RestFits
    /\ \A t \in lock : WorkFits(t)
    /\ stage[0] = "joined" =>
         /\ lock = {} /\ stored = {} => setting = sent[0].group.timer
         /\ \A t \in lock : JoinFits(t)

\* Catching up: a copy has every update that is done.
Settles(g) ==
    \A n \in DOMAIN sent : sent[n].kind = "update" /\ stage[n] = "done" => sent[n].update.version <= g.version

VersionAnnounced ==
    server.version > 0 =>
        \E n \in DOMAIN sent : sent[n].kind = "update" /\ sent[n].update.version = server.version
LeavingAnnounced == ~Inside => \E n \in DOMAIN sent : sent[n].kind = "left"

FetchedGroup == \A t \in Workers : Inside /\ stage[t] \in {"wipe", "refill", "insert"} => work[t].group # {}

\* From the first notification that is done a group is stored, or a refresh has
\* emptied the table and holds one.
StoredOnceHandled ==
    Inside /\ (\E n \in DOMAIN sent : stage[n] = "done") =>
        stored # {} \/ \E t \in lock : stage[t] \in {"refill", "insert"}

\* What is stored, and what is about to be, has every update that is done, and
\* the one being written.
HandledUpdatesSettle ==
    Inside =>
        /\ \A g \in stored : Settles(g)
        /\ \A t \in lock : \A g \in work[t].group :
              Settles(g) /\ (t \in Numbers => sent[t].update.version <= g.version)

\* Once the leave is handled nothing is stored or in hand.
LeftIsEmpty ==
    (\E n \in DOMAIN sent : sent[n].kind = "left" /\ stage[n] = "done") =>
        /\ stage[0] = "done"
        /\ stored = {}
        /\ \A t \in lock : work[t].group = {}

CatchesUp ==
    /\ VersionAnnounced /\ LeavingAnnounced
    /\ FetchedGroup /\ StoredOnceHandled
    /\ ~raced => HandledUpdatesSettle /\ LeftIsEmpty

GroupIInv == GroupTypeOK /\ NotesFit /\ LockFits /\ VersionsFit /\ (~raced => SettingFits) /\ CatchesUp

LEMMA MembersAre ==
    ASSUME NEW m
    PROVE  m \in Members <=> DOMAIN m \subseteq People /\ m \in [DOMAIN m -> Roles]
BY DEF Members

LEMMA UpdateTypes ==
    ASSUME NEW m \in Members, NEW u \in Update
    PROVE  UpdateParticipants(m, u) \in Members
<1>. DEFINE joined == [p \in DOMAIN m \cup u.join |-> IF p \in DOMAIN m THEN m[p] ELSE "member"]
<1>1. DOMAIN m \subseteq People /\ m \in [DOMAIN m -> Roles] BY MembersAre
<1>2. joined \in [DOMAIN m \cup u.join -> Roles] BY <1>1 DEF Roles
<1>. DEFINE f == UpdateParticipants(m, u)
<1>3. DOMAIN f = DOMAIN joined \ u.leave BY DEF UpdateParticipants
<1>4. DOMAIN f \subseteq People BY <1>1, <1>2, <1>3 DEF Update
<1>5. f \in [DOMAIN f -> Roles] BY <1>2, <1>3 DEF UpdateParticipants, Roles
<1>. HIDE DEF f
<1>6. f \in Members BY <1>4, <1>5, MembersAre
<1>. QED BY <1>6 DEF f

LEMMA UpdateKeepsGroup ==
    ASSUME NEW g \in Group, NEW u \in Update
    PROVE  UpdateGroupInfo(g, u) \in Group
<1>1. UpdateParticipants(g.members, u) \in Members BY UpdateTypes DEF Group
<1>2. u.timer # {} => (CHOOSE t \in u.timer : TRUE) \in {0, 1} BY DEF Update
<1>. HIDE DEF Members
<1>. QED BY <1>1, <1>2 DEF UpdateGroupInfo, Group, Update

LEMMA ChangesAre ==
    ASSUME NEW c \in Changes, server \in Group, NEW v \in Nat, NEW w \in Nat
    PROVE  /\ c \in Update /\ IsVersioned(c)
           /\ [c EXCEPT !.prev = v, !.version = w] \in Update
           /\ IsVersioned([c EXCEPT !.prev = v, !.version = w])
           /\ \A m : UpdateParticipants(m, [c EXCEPT !.prev = v, !.version = w]) = UpdateParticipants(m, c)
<1>1. DOMAIN server.members \subseteq People BY MembersAre DEF Group
<1>2. PICK p \in People : \/ c = [NoChange EXCEPT !.join = {p}]
                          \/ c = [NoChange EXCEPT !.leave = {p}]
                          \/ c = [NoChange EXCEPT !.promote = {p}]
                          \/ c = [NoChange EXCEPT !.demote = {p}]
  BY <1>1 DEF Changes
<1>3. c \in Update /\ IsVersioned(c) BY <1>2 DEF NoChange, Update, IsVersioned
<1>4. [c EXCEPT !.prev = v, !.version = w] \in Update BY <1>3 DEF Update
<1>5. IsVersioned([c EXCEPT !.prev = v, !.version = w]) BY <1>3 DEF Update, IsVersioned
<1>6. \A m : UpdateParticipants(m, [c EXCEPT !.prev = v, !.version = w]) = UpdateParticipants(m, c)
  BY <1>3 DEF Update, UpdateParticipants
<1>. QED BY <1>3, <1>4, <1>5, <1>6

LEMMA NextIs ==
    ASSUME NEW k \in Numbers, DOMAIN sent = 0 .. k
    PROVE  Cardinality(DOMAIN sent) = k + 1
BY FS_Interval, GroupCacheAssumption DEF Numbers

LEMMA StepsKeepTypes ==
    ASSUME GroupTypeOK, NotesFit, LockFits, [GroupNext]_groupVars
    PROVE  GroupTypeOK'
<1>. USE GroupCacheAssumption
<1>. DEFINE Row == [group : SUBSET Group, attempt : Nat]
<1>1. CASE ChangeParticipants
  <2>1. PICK c \in Changes :
          /\ server' = [server EXCEPT !.version = server.version + 1,
                                      !.members = UpdateParticipants(server.members, c)]
          /\ history' = [w \in DOMAIN history \cup {server.version + 1} |->
                            IF w = server.version + 1 THEN UpdateParticipants(server.members, c) ELSE history[w]]
    BY <1>1 DEF ChangeParticipants
  <2>2. server \in Group /\ history \in [0 .. server.version -> Members] BY DEF GroupTypeOK
  <2>3. UpdateParticipants(server.members, c) \in Members BY <2>2, ChangesAre, UpdateTypes DEF Group
  <2>. HIDE DEF Members
  <2>4. server' \in Group /\ server'.version = server.version + 1
    <3>1. server' = [version |-> server.version + 1, members |-> UpdateParticipants(server.members, c),
                     timer |-> server.timer, mine |-> server.mine]
      BY <2>1, <2>2 DEF Group
    <3>. QED BY <2>2, <2>3, <3>1 DEF Group
  <2>5. 0 .. server.version + 1 = 0 .. server.version \cup {server.version + 1} BY <2>2 DEF Group
  <2>6. history' \in [0 .. server'.version -> Members] BY <2>1, <2>2, <2>3, <2>4, <2>5
  <2>. QED BY <1>1, <2>4, <2>6 DEF GroupTypeOK, ChangeParticipants, UNCHANGED_cache, cacheVars
<1>2. CASE ChangeTimer
  BY <1>2 DEF ChangeTimer, GroupTypeOK, UNCHANGED_cache, cacheVars, Group
<1>3. CASE RemoveMe
  BY <1>3 DEF RemoveMe, GroupTypeOK, UNCHANGED_cache, cacheVars, Group
<1>4. CASE DayPasses
  BY <1>4 DEF DayPasses, GroupTypeOK, cacheVars
<1>5. ASSUME NEW n \in Numbers, Handler(n)
      PROVE  GroupTypeOK'
  <2>0. n \in Workers BY DEF Workers
  <2>. HIDE DEF Members
  <2>1. CASE Start(n)
    BY <2>0, <2>1 DEF Start, Move, GroupTypeOK, serverVars, cacheVars, Inner, Outer
  <2>2. CASE JoinedSetting(n)
    <3>1. sent[n].group.timer \in {0, 1}
      BY <2>2 DEF JoinedSetting, NotesFit, IsNote, StagesOf, Group, Inner
    <3>. QED BY <2>0, <2>2, <3>1 DEF JoinedSetting, Move, GroupTypeOK, serverVars, Inner, Outer, CopyIsOut
  <2>3. CASE JoinedGroup(n)
    <3>1. sent[n].group \in Group
      BY <2>3 DEF JoinedGroup, NotesFit, IsNote, StagesOf, Inner
    <3>. QED BY <2>0, <2>3, <3>1 DEF JoinedGroup, Move, GroupTypeOK, serverVars, Inner, Outer, CopyIsOut
  <2>4. CASE LeftSetting(n)
    BY <2>0, <2>4 DEF LeftSetting, Move, GroupTypeOK, serverVars, Inner, Outer, CopyIsOut
  <2>5. CASE LeftGroup(n)
    BY <2>0, <2>5 DEF LeftGroup, Move, GroupTypeOK, serverVars, Inner, Outer, CopyIsOut
  <2>. QED BY <1>5, <2>1, <2>2, <2>3, <2>4, <2>5 DEF Handler
<1>6. ASSUME NEW r \in Readers, StartReader(r)
      PROVE  GroupTypeOK'
  BY <1>6 DEF StartReader, Move, GroupTypeOK, serverVars, cacheVars, Inner, Outer, Workers
<1>7. ASSUME NEW t \in Workers, Locked(t)
      PROVE  GroupTypeOK'
  <2>. HIDE DEF Members
  <2>0. /\ stage \in [Workers -> Inner \cup Outer] /\ work \in [Workers -> Row] /\ lock \in SUBSET Workers
        /\ work[t] \in Row /\ stored \in SUBSET Group /\ server \in Group
    BY DEF GroupTypeOK
  <2>1. Fail(t) => /\ lock' \in SUBSET Workers /\ stage' \in [Workers -> Inner \cup Outer]
                   /\ work' \in [Workers -> Row]
    BY <2>0 DEF Fail, Move, NoWork, Inner, Outer
  <2>2. Finish(t) => /\ lock' \in SUBSET Workers /\ stage' \in [Workers -> Inner \cup Outer]
                     /\ work' \in [Workers -> Row]
    BY <2>0 DEF Finish, Move, Inner, Outer
  <2>3. CASE Lock(t)
    BY <2>0, <2>3 DEF Lock, Move, GroupTypeOK, serverVars, Inner, Outer
  <2>4. CASE Fetch(t)
    <3>1. CASE Fail(t) /\ UNCHANGED <<serverVars, cacheVars, due, refreshes>>
      BY <2>1, <3>1 DEF GroupTypeOK, serverVars, cacheVars
    <3>2. CASE /\ work' = [work EXCEPT ![t].group = IF Inside THEN {server} ELSE {}]
               /\ Move(t, "wipe") /\ UNCHANGED lock
               /\ UNCHANGED <<serverVars, cacheVars, due, refreshes>>
      <4>1. work' \in [Workers -> Row] BY <2>0, <3>2
      <4>2. stage' \in [Workers -> Inner \cup Outer] BY <2>0, <3>2 DEF Move, Inner
      <4>. QED BY <3>2, <4>1, <4>2 DEF GroupTypeOK, serverVars, cacheVars
    <3>. QED BY <2>4, <3>1, <3>2 DEF Fetch
  <2>5. CASE Wipe(t)
    BY <2>0, <2>5 DEF Wipe, Move, GroupTypeOK, serverVars, Inner, Outer
  <2>6. CASE RefillSetting(t)
    <3>1. setting' \in {0, 1} BY <2>0, <2>6 DEF RefillSetting, GroupTypeOK, Group
    <3>. QED BY <2>0, <2>6, <3>1 DEF RefillSetting, Move, GroupTypeOK, serverVars, Inner, Outer
  <2>7. CASE Insert(t)
    BY <2>0, <2>2, <2>7 DEF Insert, GroupTypeOK, serverVars
  <2>8. CASE ReadGroup(t)
    <3>1. CASE Fail(t)
      BY <2>1, <2>8, <3>1 DEF ReadGroup, GroupTypeOK, serverVars, cacheVars
    <3>2. ASSUME NEW g \in stored, Move(t, "setting"), UNCHANGED lock,
                 work' = [work EXCEPT ![t].group = {UpdateGroupInfo(g, sent[t].update)}]
          PROVE  GroupTypeOK'
      <4>1. sent[t].update \in Update
        BY <2>8, <2>0 DEF ReadGroup, NotesFit, IsNote, StagesOf, Workers
      <4>2. UpdateGroupInfo(g, sent[t].update) \in Group BY <4>1, <2>0, UpdateKeepsGroup
      <4>3. work' \in [Workers -> Row] BY <2>0, <3>2, <4>2
      <4>4. stage' \in [Workers -> Inner \cup Outer] BY <2>0, <3>2 DEF Move, Inner
      <4>. QED BY <2>8, <3>2, <4>3, <4>4 DEF ReadGroup, GroupTypeOK, serverVars, cacheVars
    <3>. QED BY <2>8, <3>1, <3>2 DEF ReadGroup
  <2>9. CASE UpdateSetting(t)
    <3>1. (CHOOSE g \in work[t].group : TRUE) \in Group
      BY <2>0, <2>9 DEF UpdateSetting, LockFits
    <3>2. setting' \in {0, 1} BY <2>9, <3>1 DEF UpdateSetting, GroupTypeOK, Group
    <3>. QED BY <2>0, <2>9, <3>2 DEF UpdateSetting, Move, GroupTypeOK, serverVars, Inner, Outer
  <2>10. CASE WriteGroup(t)
    BY <2>0, <2>2, <2>10 DEF WriteGroup, GroupTypeOK, serverVars
  <2>. QED BY <1>7, <2>3, <2>4, <2>5, <2>6, <2>7, <2>8, <2>9, <2>10 DEF Locked
<1>8. CASE UNCHANGED groupVars
  BY <1>8 DEF GroupTypeOK, groupVars, cacheVars
<1>. QED BY <1>1, <1>2, <1>3, <1>4, <1>5, <1>6, <1>7, <1>8 DEF GroupNext

LEMMA AnnounceKeepsNotes ==
    ASSUME GroupTypeOK, NotesFit, NEW note, Announce(note), CanChange, UNCHANGED stage,
           server'.mine => server.mine,
           \/ note.kind = "left" /\ ~server'.mine
           \/ note.kind = "update" /\ note.update \in Update
    PROVE  NotesFit'
<1>1. PICK k \in Numbers : DOMAIN sent = 0 .. k BY DEF NotesFit
<1>2. Cardinality(DOMAIN sent) = k + 1 BY <1>1, NextIs
<1>3. k + 1 \in Numbers BY <1>1, <1>2, GroupCacheAssumption DEF CanChange, Numbers
<1>4. sent' = [n \in 0 .. k + 1 |-> IF n = k + 1 THEN note ELSE sent[n]]
  BY <1>1, <1>2 DEF Announce, Numbers
<1>5. \A n \in DOMAIN sent' : IsNote(n)'
  <2>. SUFFICES ASSUME NEW n \in 0 .. k + 1 PROVE IsNote(n)'
    BY <1>4
  <2>1. CASE n = k + 1 BY <2>1, <1>4, <1>1 DEF IsNote, Numbers
  <2>2. CASE n \in 0 .. k
    <3>1. IsNote(n) /\ sent'[n] = sent[n] BY <2>2, <1>1, <1>4 DEF NotesFit, Numbers
    <3>. QED BY <3>1 DEF IsNote
  <2>. QED BY <2>1, <2>2, <1>1 DEF Numbers
<1>6. \A n \in Numbers : stage[n] # "idle" => n \in DOMAIN sent' /\ stage[n] \in StagesOf(sent'[n].kind)
  BY <1>1, <1>4 DEF NotesFit, Numbers
<1>7. \E j \in Numbers : DOMAIN sent' = 0 .. j BY <1>3, <1>4
<1>. QED BY <1>5, <1>6, <1>7 DEF NotesFit

LEMMA StepsKeepNotes ==
    ASSUME GroupTypeOK, NotesFit, LockFits, [GroupNext]_groupVars
    PROVE  NotesFit'
<1>. USE GroupCacheAssumption
<1>0. /\ stage \in [Workers -> Inner \cup Outer]
      /\ \A n \in Numbers, r \in Readers : n # r
  BY DEF GroupTypeOK, Numbers
<1>1. CASE ChangeParticipants
  <2>1. PICK c \in Changes :
          /\ server' = [server EXCEPT !.version = server.version + 1,
                                      !.members = UpdateParticipants(server.members, c)]
          /\ Announce([kind |-> "update",
                       update |-> [c EXCEPT !.prev = server.version, !.version = server.version + 1]])
    BY <1>1 DEF ChangeParticipants
  <2>2. [c EXCEPT !.prev = server.version, !.version = server.version + 1] \in Update
    <3>1. server \in Group /\ server.version \in Nat /\ server.version + 1 \in Nat BY DEF GroupTypeOK, Group
    <3>. QED BY <3>1, ChangesAre
  <2>3. server'.mine = server.mine BY <2>1 DEF GroupTypeOK, Group
  <2>. DEFINE note == [kind |-> "update",
                       update |-> [c EXCEPT !.prev = server.version, !.version = server.version + 1]]
  <2>4. note.kind = "update" /\ note.update \in Update BY <2>2
  <2>5. Announce(note) /\ CanChange /\ UNCHANGED stage BY <1>1, <2>1 DEF ChangeParticipants, UNCHANGED_cache
  <2>. HIDE DEF note
  <2>. QED BY <2>3, <2>4, <2>5, AnnounceKeepsNotes
<1>2. CASE ChangeTimer
  <2>1. PICK t \in {0, 1} :
          /\ server' = [server EXCEPT !.timer = t]
          /\ Announce([kind |-> "update", update |-> [NoChange EXCEPT !.timer = {t}]])
    BY <1>2 DEF ChangeTimer
  <2>. DEFINE note == [kind |-> "update", update |-> [NoChange EXCEPT !.timer = {t}]]
  <2>2. note.kind = "update" /\ note.update \in Update BY DEF NoChange, Update
  <2>3. Announce(note) /\ CanChange /\ UNCHANGED stage BY <1>2, <2>1 DEF ChangeTimer, UNCHANGED_cache
  <2>4. server'.mine = server.mine BY <2>1 DEF GroupTypeOK, Group
  <2>. HIDE DEF note
  <2>. QED BY <2>2, <2>3, <2>4, AnnounceKeepsNotes
<1>3. CASE RemoveMe
  <2>. DEFINE note == [kind |-> "left"]
  <2>1. note.kind = "left" /\ ~server'.mine BY <1>3 DEF RemoveMe, GroupTypeOK, Group
  <2>2. Announce(note) /\ CanChange /\ UNCHANGED stage BY <1>3 DEF RemoveMe, UNCHANGED_cache
  <2>. HIDE DEF note
  <2>. QED BY <2>1, <2>2, AnnounceKeepsNotes
<1>4. CASE DayPasses
  BY <1>4 DEF DayPasses, NotesFit, IsNote
<1>5. ASSUME NEW n \in Numbers, Handler(n)
      PROVE  NotesFit'
  <2>0. n \in Workers BY DEF Workers
  <2>1. UNCHANGED serverVars
    BY <1>5 DEF Handler, Start, JoinedSetting, JoinedGroup, LeftSetting, LeftGroup, serverVars
  <2>2. \E l \in Inner \cup Outer : Move(n, l) /\ n \in DOMAIN sent /\ l \in StagesOf(sent[n].kind)
    <3>1. CASE Start(n)
      BY <3>1 DEF Start, Move, NotesFit, IsNote, StagesOf, Inner, Outer
    <3>2. CASE JoinedSetting(n)
      BY <3>2 DEF JoinedSetting, Move, NotesFit, IsNote, StagesOf, Inner, Outer
    <3>3. CASE JoinedGroup(n)
      BY <3>3 DEF JoinedGroup, Move, NotesFit, IsNote, StagesOf, Inner, Outer
    <3>4. CASE LeftSetting(n)
      BY <3>4 DEF LeftSetting, Move, NotesFit, IsNote, StagesOf, Inner, Outer
    <3>5. CASE LeftGroup(n)
      BY <3>5 DEF LeftGroup, Move, NotesFit, IsNote, StagesOf, Inner, Outer
    <3>. QED BY <1>5, <3>1, <3>2, <3>3, <3>4, <3>5 DEF Handler
  <2>3. \A m \in Workers \ {n} : stage'[m] = stage[m] BY <2>2, <1>0 DEF Move
  <2>4. n \in DOMAIN sent /\ stage'[n] \in StagesOf(sent[n].kind) BY <2>0, <2>2, <1>0 DEF Move
  <2>. QED BY <2>1, <2>3, <2>4, <1>0 DEF NotesFit, IsNote, serverVars, Workers
<1>6. ASSUME NEW r \in Readers, StartReader(r)
      PROVE  NotesFit'
  <2>1. UNCHANGED serverVars BY <1>6 DEF StartReader
  <2>2. \A m \in Workers \ {r} : stage'[m] = stage[m] BY <1>6, <1>0 DEF StartReader, Move
  <2>3. stage'[r] \in {"lock", "force"} BY <1>6, <1>0 DEF StartReader, Move, Workers
  <2>. QED BY <2>1, <2>2, <2>3, <1>0 DEF NotesFit, IsNote, serverVars, Workers
<1>7. ASSUME NEW t \in Workers, Locked(t)
      PROVE  NotesFit'
  <2>1. UNCHANGED serverVars
    BY <1>7 DEF Locked, Lock, Fetch, Wipe, RefillSetting, Insert, ReadGroup, UpdateSetting, WriteGroup,
                serverVars
  <2>. DEFINE Fits(l) == IF t \in Readers THEN l \in {"fetch", "wipe", "refill", "insert", "done"}
                         ELSE l \in Inner \cup {"lock", "done", "gave_up"}
  <2>2. \E l \in Inner \cup Outer : Move(t, l) /\ Fits(l)
    <3>1. t \in Readers => stage[t] \notin {"read", "setting", "write"} BY DEF NotesFit
    <3>2. Fail(t) => \E l \in Inner \cup Outer : Move(t, l) /\ Fits(l) BY DEF Fail, Outer
    <3>3. Finish(t) => \E l \in Inner \cup Outer : Move(t, l) /\ Fits(l) BY DEF Finish, Outer
    <3>4. CASE Lock(t) BY <3>4 DEF Lock, Inner, Outer
    <3>5. CASE Fetch(t) BY <3>2, <3>5 DEF Fetch, Inner
    <3>6. CASE Wipe(t) BY <3>6 DEF Wipe, Inner
    <3>7. CASE RefillSetting(t) BY <3>7 DEF RefillSetting, Inner
    <3>8. CASE Insert(t) BY <3>3, <3>8 DEF Insert
    <3>9. CASE ReadGroup(t) BY <3>1, <3>2, <3>9 DEF ReadGroup, Inner
    <3>10. CASE UpdateSetting(t) BY <3>1, <3>10 DEF UpdateSetting, Inner
    <3>11. CASE WriteGroup(t) BY <3>3, <3>11 DEF WriteGroup
    <3>. HIDE DEF Fits
    <3>. QED BY <1>7, <3>4, <3>5, <3>6, <3>7, <3>8, <3>9, <3>10, <3>11 DEF Locked
  <2>3. \A m \in Workers \ {t} : stage'[m] = stage[m] BY <2>2, <1>0 DEF Move
  <2>4. Fits(stage'[t]) BY <2>2, <1>0 DEF Move
  <2>5. stage[t] \in Inner \cup {"lock", "force"}
    BY <1>7 DEF Locked, Lock, Fetch, Wipe, RefillSetting, Insert, ReadGroup, UpdateSetting, WriteGroup, Inner
  <2>6. t \in Numbers => t \in DOMAIN sent /\ sent[t].kind = "update"
    BY <2>5 DEF NotesFit, IsNote, StagesOf, Inner
  <2>. QED BY <2>1, <2>3, <2>4, <2>6, <1>0 DEF NotesFit, IsNote, serverVars, Workers, StagesOf
<1>8. CASE UNCHANGED groupVars
  BY <1>8 DEF NotesFit, IsNote, groupVars
<1>. QED BY <1>1, <1>2, <1>3, <1>4, <1>5, <1>6, <1>7, <1>8 DEF GroupNext

LEMMA StepsKeepLocks ==
    ASSUME GroupTypeOK, NotesFit, LockFits, [GroupNext]_groupVars
    PROVE  LockFits'
<1>. USE GroupCacheAssumption
<1>0. /\ stage \in [Workers -> Inner \cup Outer] /\ lock \in SUBSET Workers
      /\ work \in [Workers -> [group : SUBSET Group, attempt : Nat]]
  BY DEF GroupTypeOK
<1>1. CASE ChangeParticipants \/ ChangeTimer \/ RemoveMe \/ DayPasses
  BY <1>1 DEF ChangeParticipants, ChangeTimer, RemoveMe, DayPasses, UNCHANGED_cache, cacheVars, LockFits
<1>2. ASSUME NEW n \in Numbers, Handler(n)
      PROVE  LockFits'
  <2>0. n \in Workers BY DEF Workers
  <2>1. \E l \in Outer : Move(n, l)
    <3>1. CASE Start(n)
      BY <3>1 DEF Start, Outer
    <3>. QED BY <1>2, <3>1 DEF Handler, JoinedSetting, JoinedGroup, LeftSetting, LeftGroup, Outer
  <2>2. stage[n] \notin Inner
    BY <1>2 DEF Handler, Start, JoinedSetting, JoinedGroup, LeftSetting, LeftGroup, Inner
  <2>3. UNCHANGED <<lock, work>>
    BY <1>2 DEF Handler, Start, JoinedSetting, JoinedGroup, LeftSetting, LeftGroup
  <2>4. \A g, h \in stored' : g = h
    BY <1>2 DEF Handler, Start, JoinedSetting, JoinedGroup, LeftSetting, LeftGroup, LockFits, cacheVars
  <2>5. \A m \in Workers : stage'[m] = stage[m] \/ (stage[m] \notin Inner /\ stage'[m] \notin Inner)
    BY <2>0, <2>1, <2>2, <1>0 DEF Move, Inner, Outer
  <2>. QED BY <2>3, <2>4, <2>5 DEF LockFits, Inner
<1>3. ASSUME NEW r \in Readers, StartReader(r)
      PROVE  LockFits'
  BY <1>3, <1>0 DEF StartReader, Move, cacheVars, LockFits, Inner, Workers
<1>4. ASSUME NEW t \in Workers, Locked(t)
      PROVE  LockFits'
  <2>1. \A u \in Workers : u # t /\ (lock = {t} \/ lock = {}) => stage[u] \notin Inner /\ work[u].group = {}
    BY DEF LockFits, Inner
  <2>2. stage[t] \in Inner => lock = {t}
    BY DEF LockFits
  <2>3. work[t] \in [group : SUBSET Group, attempt : Nat] BY <1>0
  <2>4. stage[t] \in Inner /\ Fail(t) =>
          /\ lock' = {} /\ stage'[t] \notin Inner /\ work'[t].group = {}
          /\ \A u \in Workers \ {t} : stage'[u] = stage[u] /\ work'[u] = work[u]
    BY <1>0, <2>3 DEF Fail, Move, NoWork, Inner
  <2>5. stage[t] \in Inner /\ Finish(t) =>
          /\ lock' = {} /\ stage'[t] \notin Inner /\ work'[t].group = {}
          /\ \A u \in Workers \ {t} : stage'[u] = stage[u] /\ work'[u] = work[u]
    BY <1>0, <2>3 DEF Finish, Move, Inner
  <2>6. CASE /\ lock' = {} /\ stage'[t] \notin Inner /\ work'[t].group = {}
             /\ \A u \in Workers \ {t} : stage'[u] = stage[u] /\ work'[u] = work[u]
             /\ stage[t] \in Inner
             /\ \A g, h \in stored' : g = h
    BY <2>1, <2>2, <2>6 DEF LockFits, Inner
  <2>7. CASE Lock(t)
    BY <2>1, <2>7, <1>0 DEF Lock, Move, LockFits, Inner
  <2>8. CASE Fetch(t)
    <3>1. stage[t] \in Inner BY <2>8 DEF Fetch, Inner
    <3>2. CASE Fail(t) BY <3>1, <3>2, <2>4, <2>6, <2>8 DEF Fetch, cacheVars, LockFits
    <3>3. CASE work' = [work EXCEPT ![t].group = IF Inside THEN {server} ELSE {}]
               /\ Move(t, "wipe") /\ UNCHANGED lock
      BY <3>1, <3>3, <2>1, <2>2, <2>3, <2>8, <1>0 DEF Fetch, Move, cacheVars, LockFits, Inner
    <3>. QED BY <2>8, <3>2, <3>3 DEF Fetch
  <2>9. CASE Wipe(t)
    BY <2>1, <2>9, <1>0 DEF Wipe, Move, LockFits, Inner
  <2>10. CASE RefillSetting(t)
    BY <2>1, <2>10, <1>0 DEF RefillSetting, Move, LockFits, Inner
  <2>11. CASE Insert(t)
    <3>1. stage[t] \in Inner /\ Finish(t) BY <2>11 DEF Insert, Inner
    <3>2. \A g, h \in stored' : g = h BY <2>11 DEF Insert, LockFits
    <3>. QED BY <3>1, <3>2, <2>5, <2>6
  <2>12. CASE ReadGroup(t)
    <3>1. stage[t] \in Inner BY <2>12 DEF ReadGroup, Inner
    <3>2. CASE Fail(t) BY <3>1, <3>2, <2>4, <2>6, <2>12 DEF ReadGroup, cacheVars, LockFits
    <3>3. ASSUME NEW g \in stored, Move(t, "setting"), UNCHANGED lock,
                 work' = [work EXCEPT ![t].group = {UpdateGroupInfo(g, sent[t].update)}]
          PROVE  LockFits'
      BY <3>1, <3>3, <2>1, <2>2, <2>3, <2>12, <1>0 DEF ReadGroup, Move, cacheVars, LockFits, Inner
    <3>. QED BY <2>12, <3>2, <3>3 DEF ReadGroup
  <2>13. CASE UpdateSetting(t)
    BY <2>1, <2>13, <1>0 DEF UpdateSetting, Move, LockFits, Inner
  <2>14. CASE WriteGroup(t)
    <3>1. stage[t] \in Inner /\ Finish(t) BY <2>14 DEF WriteGroup, Inner
    <3>2. \A g, h \in stored' : g = h BY <2>14 DEF WriteGroup, LockFits
    <3>. QED BY <3>1, <3>2, <2>5, <2>6
  <2>. QED BY <1>4, <2>7, <2>8, <2>9, <2>10, <2>11, <2>12, <2>13, <2>14 DEF Locked
<1>5. CASE UNCHANGED groupVars
  BY <1>5 DEF LockFits, groupVars, cacheVars
<1>. QED BY <1>1, <1>2, <1>3, <1>4, <1>5 DEF GroupNext

\* An update applied to the version it starts from makes the next one.
LEMMA UpdatedIsTrue ==
    ASSUME GroupTypeOK, NotesFit, VersionsFit, NEW n \in DOMAIN sent, sent[n].kind = "update",
           NEW g \in Group, WasTrue(g), ~Mismatched(g, sent[n].update)
    PROVE  LET h == UpdateGroupInfo(g, sent[n].update)
           IN  /\ WasTrue(h)
               /\ h.version >= g.version
               /\ sent[n].update.version <= h.version
               /\ sent[n].update.timer = {} => h.timer = g.timer
<1>. DEFINE u == sent[n].update
            h == UpdateGroupInfo(g, u)
<1>0. u \in Update /\ g.version \in Nat /\ server.version \in Nat
  BY DEF NotesFit, IsNote, Group, GroupTypeOK
<1>1. u.timer = {} => h.timer = g.timer BY DEF UpdateGroupInfo, Group
<1>2. CASE IsVersioned(u)
  <2>1. h.members = UpdateParticipants(g.members, u) /\ h.version = u.version
    BY <1>2 DEF UpdateGroupInfo, Group
  <2>2. /\ u.prev = g.version /\ u.version = u.prev + 1 /\ u.version <= server.version
        /\ history[u.version] = UpdateParticipants(history[u.prev], u)
    BY <1>2 DEF VersionsFit, Mismatched
  <2>. HIDE DEF h, u
  <2>3. WasTrue(h) /\ h.version >= g.version /\ u.version <= h.version
    BY <1>0, <2>1, <2>2 DEF WasTrue
  <2>. QED BY <1>1, <2>3 DEF h, u
<1>3. CASE ~IsVersioned(u)
  <2>1. h.members = g.members /\ h.version = g.version
    BY <1>3 DEF UpdateGroupInfo, Group
  <2>2. u.version = 0 BY <1>3 DEF VersionsFit
  <2>. HIDE DEF h, u
  <2>3. WasTrue(h) /\ h.version >= g.version /\ u.version <= h.version
    BY <1>0, <2>1, <2>2 DEF WasTrue
  <2>. QED BY <1>1, <2>3 DEF h, u
<1>. QED BY <1>2, <1>3

LEMMA AnnounceExtends ==
    ASSUME NotesFit, NEW note, Announce(note)
    PROVE  \E n \in DOMAIN sent' \ DOMAIN sent :
              /\ DOMAIN sent' = DOMAIN sent \cup {n} /\ sent'[n] = note
              /\ \A m \in DOMAIN sent : sent'[m] = sent[m]
<1>1. PICK k \in Numbers : DOMAIN sent = 0 .. k BY DEF NotesFit
<1>2. Cardinality(DOMAIN sent) = k + 1 BY <1>1, NextIs
<1>3. k + 1 \notin DOMAIN sent BY <1>1, GroupCacheAssumption DEF Numbers
<1>. QED BY <1>1, <1>2, <1>3 DEF Announce

LEMMA StepsKeepVersions ==
    ASSUME GroupTypeOK, NotesFit, LockFits, VersionsFit, [GroupNext]_groupVars
    PROVE  VersionsFit'
<1>. USE GroupCacheAssumption
<1>0. /\ stage \in [Workers -> Inner \cup Outer] /\ lock \in SUBSET Workers /\ server \in Group
      /\ work \in [Workers -> [group : SUBSET Group, attempt : Nat]] /\ stored \in SUBSET Group
      /\ history \in [0 .. server.version -> Members] /\ server.version \in Nat
  BY DEF GroupTypeOK, Group
<1>1. CASE ChangeParticipants
  <2>1. PICK c \in Changes :
          /\ server' = [server EXCEPT !.version = server.version + 1,
                                      !.members = UpdateParticipants(server.members, c)]
          /\ history' = [w \in DOMAIN history \cup {server.version + 1} |->
                            IF w = server.version + 1 THEN UpdateParticipants(server.members, c) ELSE history[w]]
          /\ Announce([kind |-> "update",
                       update |-> [c EXCEPT !.prev = server.version, !.version = server.version + 1]])
    BY <1>1 DEF ChangeParticipants
  <2>. DEFINE u == [c EXCEPT !.prev = server.version, !.version = server.version + 1]
              note == [kind |-> "update", update |-> u]
  <2>2. /\ c \in Update /\ IsVersioned(u)
        /\ \A m : UpdateParticipants(m, u) = UpdateParticipants(m, c)
    <3>1. server.version + 1 \in Nat BY <1>0
    <3>. QED BY <3>1, <1>0, ChangesAre
  <2>3. u.prev = server.version /\ u.version = server.version + 1 BY <2>2 DEF Update
  <2>4. server'.version = server.version + 1 /\ server'.members = UpdateParticipants(server.members, c)
    BY <2>1, <1>0 DEF Group
  <2>5. /\ \A v \in 0 .. server.version : history'[v] = history[v]
        /\ history'[server.version + 1] = UpdateParticipants(server.members, c)
    BY <2>1, <1>0
  <2>6. \A g \in Group : WasTrue(g) => WasTrue(g)'
    BY <2>4, <2>5, <1>0 DEF WasTrue, Group
  <2>7. note.kind = "update" /\ note.update = u /\ Announce(note) BY <2>1
  <2>. HIDE DEF u, note
  <2>8. PICK n \in DOMAIN sent' \ DOMAIN sent :
              /\ DOMAIN sent' = DOMAIN sent \cup {n} /\ sent'[n] = note
              /\ \A m \in DOMAIN sent : sent'[m] = sent[m]
    BY <2>7, AnnounceExtends
  <2>9. \A m \in DOMAIN sent : /\ sent[m].kind = "joined" => sent[m].group \in Group
                               /\ sent[m].kind = "update" => sent[m].update \in Update
    BY DEF NotesFit, IsNote
  <2>10. (\A m \in DOMAIN sent : sent[m].kind = "joined" => WasTrue(sent[m].group))'
    BY <2>6, <2>7, <2>8, <2>9 DEF VersionsFit
  <2>11. history'[u.version] = UpdateParticipants(history'[u.prev], u)
    BY <2>2, <2>3, <2>5, <1>0 DEF VersionsFit
  <2>12. ASSUME NEW m \in DOMAIN sent', sent'[m].kind = "update"
         PROVE  LET w == sent'[m].update
                IN  IF IsVersioned(w)
                    THEN /\ w.version = w.prev + 1 /\ w.version <= server'.version
                         /\ history'[w.version] = UpdateParticipants(history'[w.prev], w)
                    ELSE w.version = 0
    <3>1. CASE m = n
      BY <3>1, <2>2, <2>3, <2>4, <2>7, <2>8, <2>11, <1>0
    <3>2. CASE m \in DOMAIN sent
      <4>1. sent'[m] = sent[m] /\ sent[m].update \in Update /\ sent[m].kind = "update" BY <3>2, <2>8, <2>9, <2>12
      <4>. DEFINE w == sent[m].update
      <4>2. CASE IsVersioned(w)
        <5>1. /\ w.version = w.prev + 1 /\ w.version <= server.version
              /\ history[w.version] = UpdateParticipants(history[w.prev], w)
          BY <4>1, <4>2, <3>2 DEF VersionsFit
        <5>2. w.prev \in Nat /\ w.version \in Nat BY <4>1 DEF Update
        <5>. HIDE DEF w
        <5>3. history'[w.version] = UpdateParticipants(history'[w.prev], w)
          BY <5>1, <5>2, <2>5, <1>0
        <5>. QED BY <4>1, <4>2, <5>1, <5>2, <5>3, <2>4, <1>0 DEF w
      <4>3. CASE ~IsVersioned(w)
        BY <4>1, <4>3, <3>2 DEF VersionsFit
      <4>. QED BY <4>2, <4>3
    <3>. QED BY <3>1, <3>2, <2>8
  <2>13. UNCHANGED <<stored, work>> BY <1>1 DEF ChangeParticipants, UNCHANGED_cache, cacheVars
  <2>14. \A g \in stored : WasTrue(g)' BY <2>6, <1>0 DEF VersionsFit
  <2>15. \A t \in Workers : \A g \in work[t].group : WasTrue(g)' BY <2>6, <1>0 DEF VersionsFit
  <2>16. server'.members = history'[server'.version] BY <2>4, <2>5
  <2>. QED BY <2>10, <2>12, <2>13, <2>14, <2>15, <2>16 DEF VersionsFit
<1>2. ASSUME UNCHANGED <<history, stored, work>>, NEW note, Announce(note),
             server'.version = server.version, server'.members = server.members,
             \/ note.kind = "left"
             \/ note.kind = "update" /\ ~IsVersioned(note.update) /\ note.update.version = 0
      PROVE  VersionsFit'
  <2>1. PICK n \in DOMAIN sent' \ DOMAIN sent :
              /\ DOMAIN sent' = DOMAIN sent \cup {n} /\ sent'[n] = note
              /\ \A m \in DOMAIN sent : sent'[m] = sent[m]
    BY <1>2, AnnounceExtends
  <2>. QED BY <1>2, <2>1 DEF VersionsFit, WasTrue
<1>3. CASE ChangeTimer
  <2>1. PICK t \in {0, 1} :
          /\ server' = [server EXCEPT !.timer = t]
          /\ Announce([kind |-> "update", update |-> [NoChange EXCEPT !.timer = {t}]])
    BY <1>3 DEF ChangeTimer
  <2>. DEFINE note == [kind |-> "update", update |-> [NoChange EXCEPT !.timer = {t}]]
  <2>2. note.kind = "update" /\ ~IsVersioned(note.update) /\ note.update.version = 0
    BY DEF NoChange, IsVersioned
  <2>3. Announce(note) /\ UNCHANGED <<history, stored, work>>
    BY <1>3, <2>1 DEF ChangeTimer, UNCHANGED_cache, cacheVars
  <2>4. server'.version = server.version /\ server'.members = server.members BY <2>1, <1>0 DEF Group
  <2>. HIDE DEF note
  <2>. QED BY <2>2, <2>3, <2>4, <1>2
<1>4. CASE RemoveMe
  <2>. DEFINE note == [kind |-> "left"]
  <2>1. note.kind = "left" BY DEF note
  <2>2. Announce(note) /\ UNCHANGED <<history, stored, work>>
    BY <1>4 DEF RemoveMe, UNCHANGED_cache, cacheVars
  <2>3. server'.version = server.version /\ server'.members = server.members BY <1>4, <1>0 DEF Group, RemoveMe
  <2>. HIDE DEF note
  <2>. QED BY <2>1, <2>2, <2>3, <1>2
<1>5. ASSUME UNCHANGED serverVars,
             \A g \in stored' : WasTrue(g),
             \A t \in Workers : \A g \in work'[t].group : WasTrue(g)
      PROVE  VersionsFit'
  BY <1>5 DEF VersionsFit, WasTrue, serverVars
<1>6. /\ \A g \in stored : WasTrue(g)
      /\ \A t \in Workers : \A g \in work[t].group : WasTrue(g)
  BY DEF VersionsFit
<1>7. CASE DayPasses \/ UNCHANGED groupVars
  BY <1>5, <1>6, <1>7 DEF DayPasses, groupVars, cacheVars, serverVars
<1>8. ASSUME NEW n \in Numbers, Handler(n)
      PROVE  VersionsFit'
  <2>1. UNCHANGED serverVars /\ UNCHANGED work
    BY <1>8 DEF Handler, Start, JoinedSetting, JoinedGroup, LeftSetting, LeftGroup, serverVars
  <2>2. CASE JoinedGroup(n)
    <3>1. n \in DOMAIN sent /\ sent[n].kind = "joined"
      BY <2>2 DEF JoinedGroup, NotesFit, IsNote, StagesOf, Inner
    <3>2. WasTrue(sent[n].group) BY <3>1 DEF VersionsFit
    <3>. QED BY <2>1, <2>2, <3>2, <1>5, <1>6 DEF JoinedGroup
  <2>3. CASE ~JoinedGroup(n)
    <3>1. stored' \subseteq stored
      BY <1>8, <2>3 DEF Handler, Start, JoinedSetting, LeftSetting, LeftGroup, cacheVars
    <3>. QED BY <2>1, <3>1, <1>5, <1>6
  <2>. QED BY <2>2, <2>3
<1>9. ASSUME NEW r \in Readers, StartReader(r)
      PROVE  VersionsFit'
  BY <1>5, <1>6, <1>9 DEF StartReader, serverVars, cacheVars
<1>10. ASSUME NEW t \in Workers, Locked(t)
       PROVE  VersionsFit'
  <2>1. UNCHANGED serverVars
    BY <1>10 DEF Locked, Lock, Fetch, Wipe, RefillSetting, Insert, ReadGroup, UpdateSetting, WriteGroup,
                 serverVars
  <2>2. \A g \in stored' : WasTrue(g)
    <3>1. stored' \subseteq stored \cup work[t].group
      BY <1>10 DEF Locked, Lock, Fetch, Wipe, RefillSetting, Insert, ReadGroup, UpdateSetting, WriteGroup, cacheVars
    <3>. QED BY <3>1, <1>6
  <2>3. Fail(t) \/ Finish(t) => \A u \in Workers : work'[u].group \subseteq work[u].group
    BY <1>0 DEF Fail, Finish, NoWork
  <2>4. ASSUME NEW G, \A g \in G : WasTrue(g), work' = [work EXCEPT ![t].group = G]
        PROVE  \A u \in Workers : \A g \in work'[u].group : WasTrue(g)
    BY <2>4, <1>6, <1>0
  <2>5. CASE Fetch(t)
    <3>1. WasTrue(server) BY <1>0 DEF WasTrue, VersionsFit
    <3>2. CASE Fail(t) BY <2>1, <2>2, <2>3, <3>2, <1>5, <1>6
    <3>3. CASE work' = [work EXCEPT ![t].group = IF Inside THEN {server} ELSE {}]
      BY <2>1, <2>2, <2>4, <3>1, <3>3, <1>5
    <3>. QED BY <2>5, <3>2, <3>3 DEF Fetch
  <2>6. CASE ReadGroup(t)
    <3>1. CASE Fail(t) BY <2>1, <2>2, <2>3, <3>1, <1>5, <1>6
    <3>2. ASSUME NEW g \in stored, ~Mismatched(g, sent[t].update),
                 work' = [work EXCEPT ![t].group = {UpdateGroupInfo(g, sent[t].update)}]
          PROVE  VersionsFit'
      <4>1. t \in DOMAIN sent /\ sent[t].kind = "update"
        BY <2>6 DEF ReadGroup, NotesFit, IsNote, StagesOf, Workers
      <4>2. WasTrue(UpdateGroupInfo(g, sent[t].update)) BY <4>1, <3>2, <1>0, <1>6, UpdatedIsTrue
      <4>. QED BY <2>1, <2>2, <2>4, <3>2, <4>2, <1>5
    <3>. QED BY <2>6, <3>1, <3>2 DEF ReadGroup
  <2>7. CASE ~Fetch(t) /\ ~ReadGroup(t)
    <3>1. UNCHANGED work \/ Finish(t)
      BY <1>10, <2>7 DEF Locked, Lock, Wipe, RefillSetting, Insert, UpdateSetting, WriteGroup
    <3>. QED BY <2>1, <2>2, <2>3, <3>1, <1>5, <1>6
  <2>. QED BY <2>5, <2>6, <2>7
<1>. QED BY <1>1, <1>3, <1>4, <1>7, <1>8, <1>9, <1>10 DEF GroupNext

LEMMA NotesStay ==
    ASSUME NotesFit, ChangeParticipants \/ ChangeTimer \/ RemoveMe
    PROVE  /\ UNCHANGED <<stored, setting, raced, lock, stage, work>>
           /\ \E n \in DOMAIN sent' \ DOMAIN sent :
                 /\ DOMAIN sent' = DOMAIN sent \cup {n}
                 /\ sent'[n].kind \in {"update", "left"}
           /\ \A m \in DOMAIN sent : sent'[m] = sent[m]
<1>1. UNCHANGED <<stored, setting, raced, lock, stage, work>>
  BY DEF ChangeParticipants, ChangeTimer, RemoveMe, UNCHANGED_cache, cacheVars
<1>2. \E note : Announce(note) /\ note.kind \in {"update", "left"}
  <2>1. CASE ChangeParticipants
    <3>1. PICK c \in Changes : Announce([kind |-> "update",
                       update |-> [c EXCEPT !.prev = server.version, !.version = server.version + 1]])
      BY <2>1 DEF ChangeParticipants
    <3>. DEFINE note == [kind |-> "update",
                         update |-> [c EXCEPT !.prev = server.version, !.version = server.version + 1]]
    <3>2. Announce(note) /\ note.kind = "update" BY <3>1
    <3>. HIDE DEF note
    <3>. QED BY <3>2
  <2>2. CASE ChangeTimer BY <2>2 DEF ChangeTimer
  <2>3. CASE RemoveMe BY <2>3 DEF RemoveMe
  <2>. QED BY <2>1, <2>2, <2>3
<1>3. PICK note : Announce(note) /\ note.kind \in {"update", "left"} BY <1>2
<1>4. \E n \in DOMAIN sent' \ DOMAIN sent :
              /\ DOMAIN sent' = DOMAIN sent \cup {n} /\ sent'[n] = note
              /\ \A m \in DOMAIN sent : sent'[m] = sent[m]
  BY <1>3, AnnounceExtends
<1>. QED BY <1>1, <1>3, <1>4

\* A step with the lock, or one that takes it, disturbs no other handler.
LEMMA AtWork ==
    ASSUME GroupTypeOK, NotesFit, LockFits, NEW t \in Workers, Locked(t)
    PROVE  /\ UNCHANGED <<server, history, sent>>
           /\ raced => raced'
           /\ t # 0 /\ 0 \in Workers /\ stage'[0] = stage[0]
           /\ \A m \in Workers \ {t} : stage'[m] = stage[m] /\ work'[m] = work[m]
           /\ t \in Numbers => t \in DOMAIN sent /\ sent[t].kind = "update"
           /\ stage[t] \in Inner \cup {"lock", "force"}
           /\ stage'[t] \notin {"joined", "left"}
           /\ Between' <=> Between
           /\ ~Lock(t) => lock = {t}
           /\ lock' \subseteq {t}
<1>. USE GroupCacheAssumption
<1>0. /\ stage \in [Workers -> Inner \cup Outer] /\ lock \in SUBSET Workers
      /\ work \in [Workers -> [group : SUBSET Group, attempt : Nat]]
  BY DEF GroupTypeOK
<1>1. UNCHANGED <<server, history, sent>>
  BY DEF Locked, Lock, Fetch, Wipe, RefillSetting, Insert, ReadGroup, UpdateSetting, WriteGroup, serverVars
<1>2. raced => raced'
  BY DEF Locked, Lock, Fetch, Wipe, RefillSetting, Insert, ReadGroup, UpdateSetting, WriteGroup, cacheVars
<1>3. stage[t] \in Inner \cup {"lock", "force"}
  BY DEF Locked, Lock, Fetch, Wipe, RefillSetting, Insert, ReadGroup, UpdateSetting, WriteGroup, Inner
<1>4. t \in Numbers => t \in DOMAIN sent /\ sent[t].kind = "update"
  BY <1>3 DEF NotesFit, IsNote, StagesOf, Inner
<1>5. t # 0 /\ 0 \in Workers BY <1>4 DEF NotesFit, IsNote, Workers, Numbers
<1>6. \E l : Move(t, l) /\ l \notin {"joined", "left"}
  <2>1. Fail(t) \/ Finish(t) => \E l : Move(t, l) /\ l \notin {"joined", "left"} BY DEF Fail, Finish
  <2>2. CASE Lock(t) BY <2>2 DEF Lock
  <2>3. CASE Fetch(t) BY <2>1, <2>3 DEF Fetch
  <2>4. CASE Wipe(t) BY <2>4 DEF Wipe
  <2>5. CASE RefillSetting(t) BY <2>5 DEF RefillSetting
  <2>6. CASE Insert(t) BY <2>1, <2>6 DEF Insert
  <2>7. CASE ReadGroup(t) BY <2>1, <2>7 DEF ReadGroup
  <2>8. CASE UpdateSetting(t) BY <2>8 DEF UpdateSetting
  <2>9. CASE WriteGroup(t) BY <2>1, <2>9 DEF WriteGroup
  <2>. QED BY <2>2, <2>3, <2>4, <2>5, <2>6, <2>7, <2>8, <2>9 DEF Locked
<1>7. (\A m \in Workers \ {t} : stage'[m] = stage[m]) /\ stage'[t] \notin {"joined", "left"}
  BY <1>6, <1>0 DEF Move
<1>8. \A m \in Workers \ {t} : work'[m] = work[m]
  <2>1. Fail(t) \/ Finish(t) => \A m \in Workers \ {t} : work'[m] = work[m] BY <1>0 DEF Fail, Finish
  <2>. QED BY <2>1, <1>0 DEF Locked, Lock, Fetch, Wipe, RefillSetting, Insert, ReadGroup, UpdateSetting, WriteGroup
<1>9. Between' <=> Between BY <1>3, <1>7 DEF Between, Workers, Inner
<1>10. ~Lock(t) => lock = {t}
  <2>1. ~Lock(t) => stage[t] \in Inner
    BY DEF Locked, Fetch, Wipe, RefillSetting, Insert, ReadGroup, UpdateSetting, WriteGroup, Inner
  <2>. QED BY <2>1, <1>0 DEF LockFits
<1>11. lock' \subseteq {t}
  BY <1>10 DEF Locked, Lock, Fetch, Wipe, RefillSetting, Insert, ReadGroup, UpdateSetting, WriteGroup, Fail, Finish
<1>. QED BY <1>1, <1>2, <1>3, <1>4, <1>5, <1>7, <1>8, <1>9, <1>10, <1>11

\* The setting: a join or a leave that meets a copy has raced, and is out of the
\* claim.
LEMMA StepsKeepSetting ==
    ASSUME GroupTypeOK, NotesFit, LockFits, CatchesUp, SettingFits, [GroupNext]_groupVars, ~raced'
    PROVE  SettingFits'
<1>. USE GroupCacheAssumption
<1>0. /\ stage \in [Workers -> Inner \cup Outer] /\ lock \in SUBSET Workers
      /\ work \in [Workers -> [group : SUBSET Group, attempt : Nat]] /\ stored \in SUBSET Group
      /\ 0 \in Numbers /\ Numbers \subseteq Workers
  BY DEF GroupTypeOK, Numbers, Workers
<1>00. /\ 0 \in DOMAIN sent
       /\ \A t \in lock \cap Numbers : t \in DOMAIN sent /\ sent[t].kind = "update"
  <2>1. 0 \in DOMAIN sent BY DEF NotesFit, Numbers
  <2>2. ASSUME NEW t \in lock \cap Numbers PROVE t \in DOMAIN sent /\ sent[t].kind = "update"
    <3>1. stage[t] \in Inner BY <1>0 DEF LockFits
    <3>. QED BY <3>1 DEF NotesFit, IsNote, StagesOf, Inner
  <2>. QED BY <2>1, <2>2
<1>1. CASE ChangeParticipants \/ ChangeTimer \/ RemoveMe
  <2>1. /\ UNCHANGED <<stored, setting, raced, lock, stage, work>>
        /\ \A m \in DOMAIN sent : sent'[m] = sent[m]
    BY <1>1, NotesStay
  <2>2. \A t \in lock : stage[t] = "setting" => t \in DOMAIN sent
    BY <1>0, <1>00 DEF Workers, NotesFit
  <2>. QED BY <2>1, <2>2, <1>00 DEF SettingFits, LeftAfterJoined, RestFits, WorkFits, JoinFits, Between
<1>2. CASE DayPasses \/ UNCHANGED groupVars
  BY <1>2 DEF DayPasses, groupVars, cacheVars, SettingFits, LeftAfterJoined, RestFits, WorkFits, JoinFits, Between
<1>3. ASSUME NEW r \in Readers, StartReader(r)
      PROVE  SettingFits'
  <2>1. /\ UNCHANGED <<server, history, sent, stored, setting, raced, lock, work>>
        /\ stage'[r] \in {"lock", "force"} /\ r \notin Numbers /\ r \in Workers
        /\ \A m \in Workers \ {r} : stage'[m] = stage[m]
    BY <1>3, <1>0 DEF StartReader, Move, cacheVars, serverVars, Workers, Numbers
  <2>2. r \notin lock BY <1>3, <2>1 DEF StartReader, LockFits, Inner
  <2>. QED BY <2>1, <2>2, <1>0 DEF SettingFits, LeftAfterJoined, RestFits, WorkFits, JoinFits, Between
<1>4. ASSUME NEW n \in Numbers, Handler(n)
      PROVE  SettingFits'
  <2>0. n \in Workers BY DEF Workers
  <2>1. /\ UNCHANGED <<server, history, sent, lock, work>> /\ ~raced
        /\ n \notin lock
        /\ \A m \in Workers \ {n} : stage'[m] = stage[m]
    <3>1. UNCHANGED <<server, history, sent, lock, work>>
      BY <1>4 DEF Handler, Start, JoinedSetting, JoinedGroup, LeftSetting, LeftGroup, serverVars
    <3>2. ~raced
      BY <1>4 DEF Handler, Start, JoinedSetting, JoinedGroup, LeftSetting, LeftGroup, cacheVars
    <3>3. stage[n] \notin Inner
      BY <1>4 DEF Handler, Start, JoinedSetting, JoinedGroup, LeftSetting, LeftGroup, Inner
    <3>4. \A m \in Workers \ {n} : stage'[m] = stage[m]
      BY <1>4, <1>0 DEF Handler, Start, JoinedSetting, JoinedGroup, LeftSetting, LeftGroup, Move
    <3>. QED BY <3>1, <3>2, <3>3, <3>4, <2>0 DEF LockFits
  <2>2. n \in DOMAIN sent /\ (sent[n].kind = "joined" <=> n = 0)
    BY <1>4 DEF Handler, Start, JoinedSetting, JoinedGroup, LeftSetting, LeftGroup, NotesFit, IsNote
  <2>3. CASE Start(n)
    <3>1. stage'[n] \in {"join", "leave", "lock"} /\ stage[n] = "idle" BY <2>3, <2>0, <1>0 DEF Start, Move
    <3>2. Between' <=> Between BY <3>1, <2>1, <1>0 DEF Between
    <3>3. UNCHANGED <<stored, setting>> BY <2>3 DEF Start, cacheVars
    <3>. QED BY <3>1, <3>2, <3>3, <2>1, <1>0 DEF SettingFits, LeftAfterJoined, RestFits, WorkFits, JoinFits
  <2>4. CASE JoinedSetting(n)
    <3>1. n = 0 /\ stage'[0] = "joined" /\ stage[0] = "join"
      BY <2>0, <2>2, <2>4, <1>0 DEF JoinedSetting, NotesFit, StagesOf, IsNote, Inner, Move
    <3>2. stored = {} /\ stored' = {} /\ \A t \in lock : stage[t] \in {"fetch", "read"}
      BY <2>4 DEF JoinedSetting, CopyIsOut
    <3>3. setting' = sent[0].group.timer BY <2>4, <3>1 DEF JoinedSetting
    <3>4. Between' BY <3>1, <1>0 DEF Between
    <3>5. \A t \in lock : stage'[t] = stage[t] BY <2>1, <1>0
    <3>. QED BY <3>1, <3>2, <3>3, <3>4, <3>5, <2>1, <1>0
             DEF SettingFits, LeftAfterJoined, RestFits, WorkFits, JoinFits
  <2>5. CASE JoinedGroup(n)
    <3>1. n = 0 /\ stage'[0] = "done" /\ stage[0] = "joined"
      BY <2>0, <2>2, <2>5, <1>0 DEF JoinedGroup, NotesFit, StagesOf, IsNote, Inner, Move
    <3>2. stored = {} /\ stored' = {sent[0].group} /\ \A t \in lock : stage[t] \in {"fetch", "read"}
      BY <2>5, <3>1 DEF JoinedGroup, CopyIsOut
    <3>3. \A t \in lock : work[t].group = {} BY <3>2, <1>0 DEF LockFits
    <3>4. setting' = sent[0].group.timer
      BY <2>5, <3>1, <3>2, <3>3 DEF JoinedGroup, SettingFits, JoinFits
    <3>5. \A t \in lock : stage'[t] = stage[t] BY <2>1, <1>0
    <3>. QED BY <3>1, <3>2, <3>3, <3>4, <3>5, <2>1, <1>0
             DEF SettingFits, LeftAfterJoined, RestFits, WorkFits
  <2>6. CASE LeftSetting(n)
    <3>1. n # 0 /\ stage'[n] = "left" /\ stage[n] = "leave"
      BY <2>0, <2>2, <2>6, <1>0 DEF LeftSetting, NotesFit, StagesOf, IsNote, Inner, Move
    <3>2. stored' = stored /\ stage'[0] = "done" /\ \A t \in lock : stage[t] \in {"fetch", "read"}
      BY <2>1, <2>6, <3>1, <1>0 DEF LeftSetting, CopyIsOut
    <3>4. Between' BY <3>1, <1>0 DEF Between
    <3>5. \A t \in lock : stage'[t] = stage[t] BY <2>1, <1>0
    <3>. QED BY <3>1, <3>2, <3>4, <3>5, <2>1, <1>0
             DEF SettingFits, LeftAfterJoined, RestFits, WorkFits
  <2>7. CASE LeftGroup(n)
    <3>1. n # 0 /\ stage'[n] = "done" /\ stage[n] = "left"
      BY <2>0, <2>2, <2>7, <1>0 DEF LeftGroup, NotesFit, StagesOf, IsNote, Inner, Move
    <3>2. stored' = {} /\ stage'[0] = "done" /\ \A t \in lock : stage[t] \in {"fetch", "read"}
      BY <2>1, <2>7, <3>1, <1>0 DEF LeftGroup, CopyIsOut
    <3>5. \A t \in lock : stage'[t] = stage[t] BY <2>1, <1>0
    <3>. QED BY <3>1, <3>2, <3>5, <2>1, <1>0
             DEF SettingFits, LeftAfterJoined, RestFits, WorkFits
  <2>. QED BY <1>4, <2>3, <2>4, <2>5, <2>6, <2>7 DEF Handler
<1>5. ASSUME NEW t \in Workers, Locked(t)
      PROVE  SettingFits'
  <2>1. /\ UNCHANGED <<server, history, sent>> /\ ~raced
        /\ stage'[0] = stage[0]
        /\ \A m \in Workers \ {t} : stage'[m] = stage[m] /\ work'[m] = work[m]
        /\ stage'[t] \notin {"joined", "left"}
        /\ Between' <=> Between
        /\ ~Lock(t) => lock = {t}
        /\ lock' \subseteq {t}
    BY <1>5, AtWork
  <2>2. LeftAfterJoined' BY <2>1, <1>0 DEF SettingFits, LeftAfterJoined
  <2>3. stage[0] = "joined" => Between BY <1>0 DEF Between
  <2>4. ASSUME RestFits',
               t \in lock' => WorkFits(t)',
               stage[0] = "joined" => /\ lock' = {} /\ stored' = {} => setting' = sent[0].group.timer
                                      /\ t \in lock' => JoinFits(t)'
        PROVE  SettingFits'
    BY <2>1, <2>2, <2>4 DEF SettingFits
  <2>5. stage[t] \in Inner /\ (Fail(t) \/ Finish(t)) => lock' = {} BY DEF Fail, Finish
  <2>6. CASE Lock(t)
    <3>1. ~Between BY <2>1, <2>6 DEF Lock, Between
    <3>2. lock = {} /\ UNCHANGED <<stored, setting>> BY <2>6 DEF Lock
    <3>3. lock' = {} \/ (lock' = {t} /\ stage'[t] \in {"fetch", "read"})
      BY <2>6, <1>0 DEF Lock, Move
    <3>. QED BY <3>1, <3>2, <3>3, <2>1, <2>3, <2>4 DEF RestFits, WorkFits, SettingFits
  <2>7. CASE ~Lock(t)
    <3>0. lock = {t} /\ WorkFits(t) /\ (stage[0] = "joined" => JoinFits(t)) BY <2>1, <2>7 DEF SettingFits
    <3>1. CASE Fetch(t)
      <4>1. stage[t] = "fetch" /\ UNCHANGED <<stored, setting>> /\ work[t].group = {}
        BY <3>1 DEF Fetch, cacheVars, LockFits
      <4>2. CASE Fail(t)
        BY <4>1, <4>2, <3>0, <2>1, <2>4, <2>5 DEF Inner, RestFits, SettingFits, JoinFits
      <4>3. CASE Move(t, "wipe") /\ UNCHANGED lock
        BY <4>1, <4>3, <3>0, <2>1, <2>4, <1>0 DEF Move, RestFits, WorkFits, JoinFits
      <4>. QED BY <3>1, <4>2, <4>3 DEF Fetch
    <3>2. CASE Wipe(t)
      <4>1. stage[t] = "wipe" /\ stage'[t] = "refill" /\ UNCHANGED <<setting, lock, work>> /\ stored' = {}
        BY <3>2, <1>0 DEF Wipe, Move
      <4>. QED BY <4>1, <3>0, <2>1, <2>4 DEF RestFits, WorkFits, JoinFits
    <3>3. CASE RefillSetting(t)
      <4>1. stage[t] = "refill" /\ stage'[t] = "insert" /\ UNCHANGED <<stored, lock, work>>
        BY <3>3, <1>0 DEF RefillSetting, Move
      <4>2. (\A g \in work[t].group : setting' = g.timer) /\ (work[t].group = {} => setting' = setting)
        BY <3>3 DEF RefillSetting
      <4>. QED BY <4>1, <4>2, <3>0, <2>1, <2>4 DEF RestFits, WorkFits, JoinFits
    <3>4. CASE Insert(t)
      <4>1. stage[t] = "insert" /\ UNCHANGED setting /\ lock' = {}
        BY <3>4 DEF Insert, Finish
      <4>2. stored' = IF work[t].group = {} THEN stored ELSE work[t].group BY <3>4 DEF Insert
      <4>. QED BY <4>1, <4>2, <3>0, <2>1, <2>4 DEF RestFits, WorkFits, JoinFits
    <3>5. CASE ReadGroup(t)
      <4>1. stage[t] = "read" /\ UNCHANGED <<stored, setting>> /\ work[t].group = {}
        BY <3>5 DEF ReadGroup, cacheVars, LockFits
      <4>2. CASE Fail(t)
        BY <4>1, <4>2, <3>0, <2>1, <2>4, <2>5 DEF Inner, RestFits, SettingFits, JoinFits
      <4>3. ASSUME NEW g \in stored, Move(t, "setting"), UNCHANGED lock,
                   work' = [work EXCEPT ![t].group = {UpdateGroupInfo(g, sent[t].update)}]
            PROVE  SettingFits'
        <5>1. stage'[t] = "setting" /\ work'[t].group = {UpdateGroupInfo(g, sent[t].update)}
          BY <4>3, <1>0 DEF Move
        <5>2. sent[t].update.timer = {} => UpdateGroupInfo(g, sent[t].update).timer = g.timer
          BY <4>3, <1>0 DEF UpdateGroupInfo, Group
        <5>3. ~Between => setting = g.timer BY <4>1, <3>0 DEF SettingFits, RestFits
        <5>4. stage[0] # "joined" BY <4>1, <3>0 DEF JoinFits
        <5>. QED BY <5>1, <5>2, <5>3, <5>4, <4>1, <4>3, <3>0, <2>1, <2>4 DEF RestFits, WorkFits
      <4>. QED BY <3>5, <4>2, <4>3 DEF ReadGroup
    <3>6. CASE UpdateSetting(t)
      <4>1. stage[t] = "setting" /\ stage'[t] = "write" /\ UNCHANGED <<stored, lock, work>>
        BY <3>6, <1>0 DEF UpdateSetting, Move
      <4>2. setting' = IF sent[t].update.timer = {} THEN setting ELSE (CHOOSE g \in work[t].group : TRUE).timer
        BY <3>6 DEF UpdateSetting
      <4>3. \A g \in work[t].group : g = CHOOSE h \in work[t].group : TRUE BY DEF LockFits
      <4>4. stage[0] # "joined" BY <4>1, <3>0 DEF JoinFits
      <4>. QED BY <4>1, <4>2, <4>3, <4>4, <3>0, <2>1, <2>4 DEF RestFits, WorkFits
    <3>7. CASE WriteGroup(t)
      <4>1. stage[t] = "write" /\ UNCHANGED setting /\ lock' = {} /\ stored' = work[t].group
        BY <3>7 DEF WriteGroup, Finish
      <4>. QED BY <4>1, <3>0, <2>1, <2>4 DEF RestFits, WorkFits, JoinFits
    <3>. QED BY <1>5, <2>7, <3>1, <3>2, <3>3, <3>4, <3>5, <3>6, <3>7 DEF Locked
  <2>. QED BY <2>6, <2>7
<1>. QED BY <1>1, <1>2, <1>3, <1>4, <1>5 DEF GroupNext

LEMMA StepsAnnounce ==
    ASSUME GroupTypeOK, NotesFit, LockFits, VersionAnnounced, LeavingAnnounced, [GroupNext]_groupVars
    PROVE  VersionAnnounced' /\ LeavingAnnounced'
<1>. USE DEF Inside
<1>1. CASE ChangeParticipants
  <2>1. PICK c \in Changes :
          /\ server' = [server EXCEPT !.version = server.version + 1,
                                      !.members = UpdateParticipants(server.members, c)]
          /\ Announce([kind |-> "update",
                       update |-> [c EXCEPT !.prev = server.version, !.version = server.version + 1]])
    BY <1>1 DEF ChangeParticipants
  <2>2. c \in Update BY ChangesAre DEF GroupTypeOK
  <2>. DEFINE note == [kind |-> "update",
                       update |-> [c EXCEPT !.prev = server.version, !.version = server.version + 1]]
  <2>3. note.kind = "update" /\ note.update.version = server.version + 1 /\ Announce(note)
    BY <2>1, <2>2 DEF Update
  <2>4. server'.version = server.version + 1 /\ server'.mine = server.mine /\ server.mine
    BY <1>1, <2>1 DEF GroupTypeOK, Group, ChangeParticipants, CanChange
  <2>. HIDE DEF note
  <2>5. \E n \in DOMAIN sent' : sent'[n] = note BY <2>3, AnnounceExtends
  <2>. QED BY <2>3, <2>4, <2>5 DEF VersionAnnounced, LeavingAnnounced
<1>2. CASE ChangeTimer
  <2>1. server'.version = server.version /\ server'.mine = server.mine
    BY <1>2 DEF ChangeTimer, GroupTypeOK, Group
  <2>2. \A m \in DOMAIN sent : m \in DOMAIN sent' /\ sent'[m] = sent[m] BY <1>2, NotesStay
  <2>. QED BY <2>1, <2>2 DEF VersionAnnounced, LeavingAnnounced
<1>3. CASE RemoveMe
  <2>1. server'.version = server.version BY <1>3 DEF RemoveMe, GroupTypeOK, Group
  <2>2. \A m \in DOMAIN sent : m \in DOMAIN sent' /\ sent'[m] = sent[m] BY <1>3, NotesStay
  <2>3. \E n \in DOMAIN sent' : sent'[n] = [kind |-> "left"] BY <1>3, AnnounceExtends DEF RemoveMe
  <2>. QED BY <2>1, <2>2, <2>3 DEF VersionAnnounced, LeavingAnnounced
<1>4. ASSUME UNCHANGED <<server, sent>>
      PROVE  VersionAnnounced' /\ LeavingAnnounced'
  BY <1>4 DEF VersionAnnounced, LeavingAnnounced
<1>5. CASE DayPasses \/ UNCHANGED groupVars BY <1>4, <1>5 DEF DayPasses, groupVars
<1>6. ASSUME NEW n \in Numbers, Handler(n) PROVE UNCHANGED <<server, sent>>
  BY <1>6 DEF Handler, Start, JoinedSetting, JoinedGroup, LeftSetting, LeftGroup, serverVars
<1>7. ASSUME NEW r \in Readers, StartReader(r) PROVE UNCHANGED <<server, sent>>
  BY <1>7 DEF StartReader, serverVars
<1>8. ASSUME NEW t \in Workers, Locked(t) PROVE UNCHANGED <<server, sent>>
  BY <1>8, AtWork
<1>. QED BY <1>1, <1>2, <1>3, <1>4, <1>5, <1>6, <1>7, <1>8 DEF GroupNext

\* A step may end a handler only with what it handled in the table.
LEMMA StepsCatchUp ==
    ASSUME GroupTypeOK, NotesFit, LockFits, VersionsFit, ~raced => SettingFits, CatchesUp,
           [GroupNext]_groupVars
    PROVE  CatchesUp'
<1>. USE GroupCacheAssumption DEF Inside
<1>0. /\ stage \in [Workers -> Inner \cup Outer] /\ lock \in SUBSET Workers /\ server \in Group
      /\ work \in [Workers -> [group : SUBSET Group, attempt : Nat]] /\ stored \in SUBSET Group
      /\ 0 \in Numbers /\ Numbers \subseteq Workers /\ DOMAIN sent \subseteq Numbers
      /\ 0 \in DOMAIN sent
  BY DEF GroupTypeOK, Numbers, Workers, NotesFit
<1>00. VersionAnnounced' /\ LeavingAnnounced' BY StepsAnnounce DEF CatchesUp
<1>1. CASE ChangeParticipants \/ ChangeTimer \/ RemoveMe
  <2>1. UNCHANGED <<stored, setting, raced, lock, stage, work>> /\ \A m \in DOMAIN sent : sent'[m] = sent[m]
    BY <1>1, NotesStay
  <2>2. PICK n \in DOMAIN sent' \ DOMAIN sent : DOMAIN sent' = DOMAIN sent \cup {n}
    BY <1>1, NotesStay
  <2>3. server.mine /\ (server'.mine => server.mine)
    BY <1>1 DEF ChangeParticipants, ChangeTimer, RemoveMe, CanChange
  <2>4. n \in Numbers => stage[n] = "idle" BY <2>2 DEF NotesFit
  <2>5. n \in Numbers BY StepsKeepNotes, <2>2 DEF NotesFit, Numbers
  <2>6. \A t \in lock \cap Numbers : t \in DOMAIN sent
    BY <1>0 DEF NotesFit, LockFits, Inner
  <2>7. FetchedGroup' /\ StoredOnceHandled' BY <2>1, <2>2, <2>3, <2>4, <2>5 DEF CatchesUp, FetchedGroup, StoredOnceHandled
  <2>8. ~raced => HandledUpdatesSettle'
    BY <2>1, <2>2, <2>3, <2>4, <2>5, <2>6 DEF CatchesUp, HandledUpdatesSettle, Settles
  <2>9. ~raced => LeftIsEmpty'
    BY <2>1, <2>2, <2>3, <2>4, <2>5 DEF CatchesUp, LeftIsEmpty
  <2>. QED BY <1>00, <2>1, <2>7, <2>8, <2>9 DEF CatchesUp
<1>2. CASE DayPasses \/ UNCHANGED groupVars
  <2>1. UNCHANGED <<server, sent, stored, raced, lock, stage, work>>
    BY <1>2 DEF DayPasses, groupVars, cacheVars
  <2>. QED BY <1>00, <2>1 DEF CatchesUp, FetchedGroup, StoredOnceHandled, HandledUpdatesSettle, Settles, LeftIsEmpty
<1>3. ASSUME NEW r \in Readers, StartReader(r)
      PROVE  CatchesUp'
  <2>1. /\ UNCHANGED <<server, history, sent, stored, raced, lock, work>>
        /\ stage'[r] \in {"lock", "force"} /\ r \notin Numbers /\ r \in Workers
        /\ \A m \in Workers \ {r} : stage'[m] = stage[m]
    BY <1>3, <1>0 DEF StartReader, Move, cacheVars, serverVars, Workers, Numbers
  <2>2. r \notin lock BY <1>3, <2>1 DEF StartReader, LockFits, Inner
  <2>3. \A n \in DOMAIN sent : stage'[n] = stage[n] BY <2>1, <1>0
  <2>. QED BY <1>00, <2>1, <2>2, <2>3, <1>0
           DEF CatchesUp, FetchedGroup, StoredOnceHandled, HandledUpdatesSettle, Settles, LeftIsEmpty
<1>4. ASSUME NEW n \in Numbers, Handler(n)
      PROVE  CatchesUp'
  <2>0. n \in Workers BY DEF Workers
  <2>1. /\ UNCHANGED <<server, history, sent, lock, work>> /\ (raced => raced')
        /\ n \notin lock /\ stage'[n] \notin Inner
        /\ \A m \in Workers \ {n} : stage'[m] = stage[m]
        /\ n \in DOMAIN sent /\ (sent[n].kind = "joined" <=> n = 0)
    <3>1. UNCHANGED <<server, history, sent, lock, work>>
      BY <1>4 DEF Handler, Start, JoinedSetting, JoinedGroup, LeftSetting, LeftGroup, serverVars
    <3>2. raced => raced'
      BY <1>4 DEF Handler, Start, JoinedSetting, JoinedGroup, LeftSetting, LeftGroup, cacheVars
    <3>3. stage[n] \notin Inner
      BY <1>4 DEF Handler, Start, JoinedSetting, JoinedGroup, LeftSetting, LeftGroup, Inner
    <3>4. /\ \A m \in Workers \ {n} : stage'[m] = stage[m]
          /\ stage'[n] \notin Inner
      BY <1>4, <1>0, <2>0 DEF Handler, Start, JoinedSetting, JoinedGroup, LeftSetting, LeftGroup, Move, Inner
    <3>5. n \in DOMAIN sent /\ (sent[n].kind = "joined" <=> n = 0)
      BY <1>4 DEF Handler, Start, JoinedSetting, JoinedGroup, LeftSetting, LeftGroup, NotesFit, IsNote
    <3>. QED BY <3>1, <3>2, <3>3, <3>4, <3>5, <2>0 DEF LockFits
  <2>2. FetchedGroup'
    BY <2>1, <2>0 DEF CatchesUp, FetchedGroup, Inner
  <2>3. \A t \in lock : stage'[t] = stage[t] BY <2>1, <1>0
  <2>4. CASE Start(n) \/ JoinedSetting(n) \/ LeftSetting(n)
    <3>1. stage[n] # "done" /\ stage'[n] # "done" /\ UNCHANGED stored /\ (stage[0] = "done" => n # 0)
      BY <2>4, <2>0, <1>0 DEF Start, JoinedSetting, LeftSetting, Move, cacheVars
    <3>2. StoredOnceHandled'
      BY <2>1, <2>3, <3>1, <1>0 DEF CatchesUp, StoredOnceHandled
    <3>3. ~raced => HandledUpdatesSettle'
      BY <2>1, <2>3, <3>1, <1>0 DEF CatchesUp, HandledUpdatesSettle, Settles
    <3>4. ~raced => LeftIsEmpty'
      BY <2>1, <2>3, <3>1, <1>0 DEF CatchesUp, LeftIsEmpty
    <3>. QED BY <1>00, <2>1, <2>2, <3>2, <3>3, <3>4 DEF CatchesUp
  <2>5. CASE JoinedGroup(n)
    <3>1. n = 0 /\ stage'[0] = "done" /\ stage[0] = "joined" /\ stored' = {sent[0].group}
      BY <2>0, <2>1, <2>5, <1>0 DEF JoinedGroup, NotesFit, StagesOf, IsNote, Inner, Move
    <3>2. ~raced' => stored = {} /\ \A t \in lock : stage[t] \in {"fetch", "read"}
      BY <2>5 DEF JoinedGroup, CopyIsOut
    <3>3. StoredOnceHandled' BY <3>1 DEF StoredOnceHandled
    <3>4. ASSUME ~raced' PROVE HandledUpdatesSettle' /\ LeftIsEmpty'
      <4>1. Inside => \A m \in DOMAIN sent : stage[m] # "done"
        BY <3>2, <3>4 DEF CatchesUp, StoredOnceHandled
      <4>2. \A t \in lock : work[t].group = {} BY <3>2, <3>4, <1>0 DEF LockFits
      <4>3. HandledUpdatesSettle'
        BY <4>1, <4>2, <3>1, <2>1, <1>0 DEF HandledUpdatesSettle, Settles
      <4>4. ~\E m \in DOMAIN sent : sent[m].kind = "left" /\ stage[m] = "done"
        BY <2>1, <3>1, <3>4 DEF CatchesUp, LeftIsEmpty
      <4>5. LeftIsEmpty' BY <4>4, <3>1, <2>1, <1>0 DEF LeftIsEmpty
      <4>. QED BY <4>3, <4>5
    <3>. QED BY <1>00, <2>2, <3>3, <3>4 DEF CatchesUp
  <2>6. CASE LeftGroup(n)
    <3>1. n # 0 /\ stage'[n] = "done" /\ stored' = {} /\ sent[n].kind = "left" /\ stage[n] = "left"
      BY <2>0, <2>1, <2>6, <1>0 DEF LeftGroup, NotesFit, StagesOf, IsNote, Inner, Move
    <3>2. ~Inside BY <3>1, <2>1 DEF NotesFit, IsNote
    <3>3. ASSUME ~raced' PROVE LeftIsEmpty'
      <4>1. stage'[0] = "done" /\ \A t \in lock : stage[t] \in {"fetch", "read"}
        BY <2>1, <2>6, <3>1, <3>3, <1>0 DEF LeftGroup, CopyIsOut
      <4>2. \A t \in lock : work[t].group = {} BY <4>1, <1>0 DEF LockFits
      <4>. QED BY <4>1, <4>2, <3>1, <2>1 DEF LeftIsEmpty
    <3>. QED BY <1>00, <2>1, <2>2, <3>2, <3>3 DEF CatchesUp, StoredOnceHandled, HandledUpdatesSettle
  <2>. QED BY <1>4, <2>4, <2>5, <2>6 DEF Handler
<1>5. ASSUME NEW t \in Workers, Locked(t)
      PROVE  CatchesUp'
  <2>1. /\ UNCHANGED <<server, history, sent>> /\ (raced => raced')
        /\ t # 0 /\ stage'[0] = stage[0]
        /\ \A m \in Workers \ {t} : stage'[m] = stage[m] /\ work'[m] = work[m]
        /\ t \in Numbers => t \in DOMAIN sent /\ sent[t].kind = "update"
        /\ stage[t] \in Inner \cup {"lock", "force"}
        /\ ~Lock(t) => lock = {t}
        /\ lock' \subseteq {t}
    BY <1>5, AtWork
  <2>2. t \in Numbers => sent[t].update \in Update /\ sent[t].update.version <= server.version
    BY <2>1, <1>0 DEF NotesFit, IsNote, VersionsFit, Group
  <2>3. \A m \in DOMAIN sent \ {t} : stage'[m] = stage[m] BY <2>1, <1>0
  <2>4. ASSUME Inside /\ stage'[t] \in {"wipe", "refill", "insert"} => work'[t].group # {},
               Inside /\ (stored # {} \/ stage[t] \in {"refill", "insert"} \/ (stage'[t] = "done" /\ t \in Numbers)) =>
                  stored' # {} \/ (t \in lock' /\ stage'[t] \in {"refill", "insert"}),
               \/ stored' = stored \/ stored' = {}
               \/ stage[t] \in {"insert", "write"} /\ stored' = work[t].group /\ lock' = {},
               t \in Numbers /\ stage'[t] = "done" =>
                  stage[t] \in {"insert", "write"} /\ lock' = {} /\ (Inside => stored' = work[t].group),
               t \in lock' =>
                  \/ work'[t].group = {} \/ work'[t] = work[t]
                  \/ Inside /\ work'[t].group = {server}
                  \/ \E g \in stored : t \in Numbers /\ ~Mismatched(g, sent[t].update)
                                       /\ work'[t].group = {UpdateGroupInfo(g, sent[t].update)},
               Lock(t) => UNCHANGED stored /\ work' = work
        PROVE  CatchesUp'
    <3>0. stage[t] # "done" /\ t # 0 BY <2>1 DEF Inner
    <3>1. FetchedGroup' BY <2>1, <2>4 DEF CatchesUp, FetchedGroup
    <3>2. StoredOnceHandled'
      <4>1. SUFFICES ASSUME Inside, NEW m \in DOMAIN sent, stage'[m] = "done"
                     PROVE  stored' # {} \/ (t \in lock' /\ stage'[t] \in {"refill", "insert"})
        BY <2>1, <4>1 DEF StoredOnceHandled
      <4>2. CASE m # t
        <5>1. stage[m] = "done" BY <4>1, <4>2, <2>3
        <5>2. stored # {} \/ \E u \in lock : stage[u] \in {"refill", "insert"}
          BY <4>1, <5>1 DEF CatchesUp, StoredOnceHandled
        <5>3. lock = {t} \/ lock = {} BY <2>1 DEF Lock
        <5>. QED BY <5>2, <5>3, <4>1, <2>4
      <4>3. CASE m = t BY <4>1, <4>3, <2>4, <1>0
      <4>. QED BY <4>2, <4>3
    <3>3. ASSUME ~raced', Inside PROVE HandledUpdatesSettle'
      <4>1. HandledUpdatesSettle BY <3>3, <2>1 DEF CatchesUp
      <4>2. ASSUME NEW g, Settles(g), ~(t \in Numbers /\ stage'[t] = "done")
            PROVE  Settles(g)'
        BY <4>2, <2>1, <2>3, <1>0 DEF Settles
      <4>3. ASSUME NEW g \in stored' PROVE Settles(g)'
        <5>1. CASE t \in Numbers /\ stage'[t] = "done"
          <6>1. t \in lock /\ g \in work[t].group BY <5>1, <4>3, <3>3, <2>4, <2>1, <1>0 DEF LockFits, Inner
          <6>2. Settles(g) /\ sent[t].update.version <= g.version
            BY <6>1, <5>1, <4>1, <3>3 DEF HandledUpdatesSettle
          <6>. QED BY <6>2, <2>1, <2>3, <1>0 DEF Settles
        <5>2. CASE ~(t \in Numbers /\ stage'[t] = "done")
          <6>1. Settles(g)
            <7>1. g \in stored \/ (t \in lock /\ g \in work[t].group)
              BY <4>3, <2>4, <2>1, <1>0 DEF LockFits, Inner
            <7>. QED BY <7>1, <4>1, <3>3 DEF HandledUpdatesSettle
          <6>. QED BY <6>1, <5>2, <4>2
        <5>. QED BY <5>1, <5>2
      <4>4. ASSUME t \in lock', NEW g \in work'[t].group
            PROVE  Settles(g)' /\ (t \in Numbers => sent[t].update.version <= g.version)
        <5>0. ~(t \in Numbers /\ stage'[t] = "done") BY <4>4, <2>4
        <5>1. CASE work'[t] = work[t]
          <6>1. lock = {t}
            <7>1. CASE Lock(t)
              <8>1. work[t].group = {} BY <7>1, <1>0 DEF Lock, LockFits
              <8>. QED BY <8>1, <5>1, <4>4
            <7>. QED BY <7>1, <2>1
          <6>. QED BY <6>1, <5>0, <5>1, <4>1, <4>2, <4>4, <3>3 DEF HandledUpdatesSettle
        <5>2. CASE work'[t].group = {server}
          <6>1. g = server BY <5>2, <4>4
          <6>2. Settles(server)
            BY <1>0 DEF Settles, VersionsFit, NotesFit, IsNote, Group
          <6>. QED BY <6>1, <6>2, <5>0, <4>2, <2>2
        <5>3. ASSUME NEW h \in stored, t \in Numbers, ~Mismatched(h, sent[t].update),
                     work'[t].group = {UpdateGroupInfo(h, sent[t].update)}
              PROVE  Settles(g)' /\ (t \in Numbers => sent[t].update.version <= g.version)
          <6>1. g = UpdateGroupInfo(h, sent[t].update) BY <5>3, <4>4
          <6>2. WasTrue(h) /\ h \in Group BY <1>0 DEF VersionsFit
          <6>3. g.version >= h.version /\ sent[t].update.version <= g.version
            BY <6>1, <6>2, <5>3, <2>1, UpdatedIsTrue
          <6>4. g \in Group BY <6>1, <6>2, <2>2, <5>3, UpdateKeepsGroup
          <6>5. Settles(h) BY <4>1, <3>3 DEF HandledUpdatesSettle
          <6>6. Settles(g)
            <7>1. SUFFICES ASSUME NEW m \in DOMAIN sent, sent[m].kind = "update", stage[m] = "done"
                           PROVE  sent[m].update.version <= g.version
              BY DEF Settles
            <7>2. sent[m].update.version <= h.version BY <7>1, <6>5 DEF Settles
            <7>3. sent[m].update.version \in Nat BY <7>1 DEF NotesFit, IsNote, Update
            <7>4. g.version \in Nat /\ h.version \in Nat BY <6>2, <6>4 DEF Group
            <7>. QED BY <7>2, <7>3, <7>4, <6>3
          <6>. QED BY <6>3, <6>6, <5>0, <4>2
        <5>. QED BY <5>1, <5>2, <5>3, <4>4, <2>4
      <4>. QED BY <4>3, <4>4, <2>1 DEF HandledUpdatesSettle
    <3>4. ASSUME ~raced' PROVE LeftIsEmpty'
      <4>1. SUFFICES ASSUME NEW m \in DOMAIN sent, sent[m].kind = "left", stage'[m] = "done"
                     PROVE  stage'[0] = "done" /\ stored' = {} /\ \A u \in lock' : work'[u].group = {}
        BY <2>1, <4>1 DEF LeftIsEmpty
      <4>2. m # t BY <4>1, <2>1, <1>0
      <4>3. stage[0] = "done" /\ stored = {} /\ \A u \in lock : work[u].group = {}
        BY <4>1, <4>2, <2>1, <2>3, <3>4 DEF CatchesUp, LeftIsEmpty
      <4>4. ~Inside BY <4>1 DEF NotesFit, IsNote
      <4>5. stored' = {}
        BY <4>3, <2>4, <2>1, <1>0 DEF LockFits, Inner
      <4>6. work[t].group = {}
        <5>1. CASE Lock(t) BY <5>1, <1>0 DEF Lock, LockFits
        <5>. QED BY <5>1, <4>3, <2>1
      <4>7. t \in lock' => work'[t].group = {} BY <4>3, <4>4, <4>6, <2>4
      <4>. QED BY <4>3, <4>5, <4>7, <2>1
    <3>5. Inside' <=> Inside BY <2>1
    <3>6. ~Inside => HandledUpdatesSettle' BY <3>5 DEF HandledUpdatesSettle
    <3>. QED BY <1>00, <2>1, <3>1, <3>2, <3>3, <3>4, <3>6 DEF CatchesUp
  <2>5. stage[t] \in Inner /\ (Fail(t) \/ Finish(t)) => lock' = {} /\ stage'[t] \in Outer
    BY <1>0 DEF Fail, Finish, Move, Outer
  <2>6. CASE Lock(t)
    <3>1. /\ UNCHANGED <<stored, work>> /\ stage[t] \in {"lock", "force"}
          /\ stage'[t] \in {"fetch", "read", "done"} /\ (t \in Numbers => stage'[t] # "done")
      BY <2>6, <1>0, GroupCacheAssumption DEF Lock, Move, Numbers
    <3>. QED BY <3>1, <2>4
  <2>7. CASE Fetch(t)
    <3>1. stage[t] = "fetch" /\ UNCHANGED stored BY <2>7 DEF Fetch, cacheVars
    <3>2. CASE Fail(t)
      <4>1. lock' = {} /\ stage'[t] \in {"lock", "done", "gave_up"} /\ (t \in Numbers => stage'[t] # "done")
        BY <3>2, <1>0, GroupCacheAssumption DEF Fail, Move, Numbers
      <4>. QED BY <3>1, <4>1, <2>4, <2>6
    <3>3. CASE work' = [work EXCEPT ![t].group = IF Inside THEN {server} ELSE {}] /\ Move(t, "wipe")
      <4>1. stage'[t] = "wipe" /\ work'[t].group = (IF Inside THEN {server} ELSE {})
        BY <3>3, <1>0 DEF Move
      <4>. QED BY <3>1, <4>1, <2>4, <2>6
    <3>. QED BY <2>7, <3>2, <3>3 DEF Fetch
  <2>8. CASE Wipe(t)
    <3>1. stage[t] = "wipe" /\ stage'[t] = "refill" /\ UNCHANGED <<lock, work>> /\ stored' = {}
      BY <2>8, <1>0 DEF Wipe, Move
    <3>2. t \in lock BY <3>1, <1>0 DEF LockFits, Inner
    <3>3. Inside => work[t].group # {} BY <3>1 DEF CatchesUp, FetchedGroup
    <3>. QED BY <3>1, <3>2, <3>3, <2>4, <2>6
  <2>9. CASE RefillSetting(t)
    <3>1. stage[t] = "refill" /\ stage'[t] = "insert" /\ UNCHANGED <<stored, lock, work>>
      BY <2>9, <1>0 DEF RefillSetting, Move
    <3>2. t \in lock BY <3>1, <1>0 DEF LockFits, Inner
    <3>3. Inside => work[t].group # {} BY <3>1 DEF CatchesUp, FetchedGroup
    <3>. QED BY <3>1, <3>2, <3>3, <2>4, <2>6
  <2>10. CASE Insert(t)
    <3>1. stage[t] = "insert" /\ stage'[t] = "done" /\ lock' = {}
      BY <2>10, <1>0 DEF Insert, Finish, Move
    <3>2. stored' = IF work[t].group = {} THEN stored ELSE work[t].group BY <2>10 DEF Insert
    <3>3. Inside => work[t].group # {} BY <3>1 DEF CatchesUp, FetchedGroup
    <3>. QED BY <3>1, <3>2, <3>3, <2>4, <2>6
  <2>11. CASE ReadGroup(t)
    <3>1. stage[t] = "read" /\ UNCHANGED stored BY <2>11 DEF ReadGroup, cacheVars
    <3>2. t \in Numbers BY <3>1 DEF NotesFit, Workers
    <3>3. CASE Fail(t)
      <4>1. lock' = {} /\ stage'[t] \in {"lock", "gave_up"}
        BY <3>2, <3>3, <1>0, GroupCacheAssumption DEF Fail, Move, Numbers
      <4>. QED BY <3>1, <4>1, <2>4, <2>6
    <3>4. ASSUME NEW g \in stored, ~Mismatched(g, sent[t].update), Move(t, "setting"),
                 work' = [work EXCEPT ![t].group = {UpdateGroupInfo(g, sent[t].update)}]
          PROVE  CatchesUp'
      <4>1. stage'[t] = "setting" /\ work'[t].group = {UpdateGroupInfo(g, sent[t].update)}
        BY <3>4, <1>0 DEF Move
      <4>. QED BY <3>1, <3>2, <3>4, <4>1, <2>4, <2>6
    <3>. QED BY <2>11, <3>3, <3>4 DEF ReadGroup
  <2>12. CASE UpdateSetting(t)
    <3>1. stage[t] = "setting" /\ stage'[t] = "write" /\ UNCHANGED <<stored, lock, work>>
      BY <2>12, <1>0 DEF UpdateSetting, Move
    <3>. QED BY <3>1, <2>4, <2>6
  <2>13. CASE WriteGroup(t)
    <3>1. stage[t] = "write" /\ stage'[t] = "done" /\ lock' = {} /\ stored' = work[t].group
      BY <2>13, <1>0 DEF WriteGroup, Finish, Move
    <3>2. work[t].group # {} BY <3>1 DEF LockFits
    <3>. QED BY <3>1, <3>2, <2>4, <2>6
  <2>. QED BY <1>5, <2>6, <2>7, <2>8, <2>9, <2>10, <2>11, <2>12, <2>13 DEF Locked
<1>. QED BY <1>1, <1>2, <1>3, <1>4, <1>5 DEF GroupNext

LEMMA GroupStarts ==
    ASSUME GroupInit
    PROVE  GroupIInv
<1>. USE GroupCacheAssumption
<1>1. [p \in {} |-> "member"] \in Members BY MembersAre
<1>2. 0 \in Numbers /\ \A t \in Workers : stage[t] = "idle" /\ work[t] = NoWork
  BY DEF GroupInit, Numbers
<1>. HIDE DEF Members
<1>3. GroupTypeOK
  <2>1. server \in Group /\ server.version = 0 BY <1>1 DEF GroupInit, Group
  <2>2. 0 .. 0 = {0} OBVIOUS
  <2>3. history \in [0 .. server.version -> Members] BY <1>1, <2>1, <2>2 DEF GroupInit
  <2>4. work \in [Workers -> [group : SUBSET Group, attempt : Nat]] BY DEF GroupInit, NoWork
  <2>. QED BY <2>1, <2>3, <2>4 DEF GroupInit, GroupTypeOK, Outer
<1>4. DOMAIN sent = {0} /\ sent[0].kind = "joined" /\ sent[0].group = server BY DEF GroupInit
<1>5. NotesFit
  <2>1. DOMAIN sent = 0 .. 0 BY <1>4
  <2>2. server \in Group BY <1>3 DEF GroupTypeOK
  <2>3. \A n \in DOMAIN sent : IsNote(n) BY <1>4, <2>2 DEF IsNote
  <2>. QED BY <2>1, <2>3, <1>2 DEF NotesFit, Workers
<1>6. LockFits
  BY <1>2 DEF GroupInit, LockFits, NoWork, Inner
<1>7. WasTrue(server) /\ server.members = history[server.version] /\ server.version = 0
  BY DEF GroupInit, WasTrue
<1>8. VersionsFit
  BY <1>2, <1>4, <1>7 DEF GroupInit, VersionsFit, NoWork
<1>9. SettingFits
  BY <1>2 DEF GroupInit, SettingFits, LeftAfterJoined, RestFits, Workers
<1>10. CatchesUp
  <2>1. Inside /\ stored = {} /\ lock = {} BY DEF GroupInit, Inside
  <2>2. \A n \in DOMAIN sent : stage[n] = "idle" BY <1>2, <1>4 DEF Workers
  <2>. QED BY <2>1, <2>2, <1>2, <1>7
           DEF CatchesUp, VersionAnnounced, LeavingAnnounced, FetchedGroup, StoredOnceHandled,
               HandledUpdatesSettle, LeftIsEmpty
<1>. QED BY <1>3, <1>5, <1>6, <1>8, <1>9, <1>10 DEF GroupIInv

LEMMA StepsKeepGroup == GroupIInv /\ [GroupNext]_groupVars => GroupIInv'
<1>. SUFFICES ASSUME GroupIInv, [GroupNext]_groupVars
              PROVE  GroupIInv'
  OBVIOUS
<1>1. GroupTypeOK /\ NotesFit /\ LockFits /\ VersionsFit /\ (~raced => SettingFits) /\ CatchesUp
  BY DEF GroupIInv
<1>2. GroupTypeOK' BY <1>1, StepsKeepTypes
<1>3. NotesFit' BY <1>1, StepsKeepNotes
<1>4. LockFits' BY <1>1, StepsKeepLocks
<1>5. VersionsFit' BY <1>1, StepsKeepVersions
<1>6. CatchesUp' BY <1>1, StepsCatchUp
<1>7. raced => raced'
  <2>1. CASE ChangeParticipants \/ ChangeTimer \/ RemoveMe BY <2>1, <1>1, NotesStay
  <2>2. CASE DayPasses \/ UNCHANGED groupVars BY <2>2 DEF DayPasses, groupVars, cacheVars
  <2>3. ASSUME NEW n \in Numbers, Handler(n) PROVE raced => raced'
    BY <2>3 DEF Handler, Start, JoinedSetting, JoinedGroup, LeftSetting, LeftGroup, cacheVars
  <2>4. ASSUME NEW r \in Readers, StartReader(r) PROVE raced => raced' BY <2>4 DEF StartReader, cacheVars
  <2>5. ASSUME NEW t \in Workers, Locked(t) PROVE raced => raced' BY <2>5, <1>1, AtWork
  <2>. QED BY <2>1, <2>2, <2>3, <2>4, <2>5 DEF GroupNext
<1>8. ASSUME ~raced' PROVE SettingFits' BY <1>1, <1>7, <1>8, StepsKeepSetting
<1>. QED BY <1>2, <1>3, <1>4, <1>5, <1>6, <1>8 DEF GroupIInv

\* Whatever order notifications, refreshes, failures and retries come in.
LEMMA GroupInvariant == GroupSpec => []GroupIInv
BY GroupStarts, StepsKeepGroup, PTL DEF GroupSpec

\* The stored participants are those of the stored version: an update is applied
\* only to the version it starts from, however often it is tried and whatever a
\* refresh has stored meanwhile.
THEOREM StoredVersionIsTrue == GroupSpec => []VersionMatchesMembers
<1>1. GroupIInv => VersionMatchesMembers BY DEF GroupIInv, VersionsFit, WasTrue, VersionMatchesMembers
<1>. QED BY <1>1, GroupInvariant, PTL

\* The two tables agree whenever nobody is at work on them, unless an unlocked
\* write has met a locked one.
THEOREM SettingIsOfGroup == GroupSpec => []SettingFollowsGroup
<1>1. GroupIInv => SettingFollowsGroup
  BY DEF GroupIInv, SettingFits, RestFits, Between, SettingFollowsGroup
<1>. QED BY <1>1, GroupInvariant, PTL

\* Once all notifications are handled, in any order, the copy is the server's:
\* every update at work or stored is at least as new as those that are done, and
\* a done notification leaves a group stored, or a refill of the table on its
\* way.
THEOREM CopyCatchesUp == GroupSpec => []CaughtUp
<1>1. ASSUME GroupIInv, Quiet, lock = {}, ~raced
      PROVE  IF Inside
             THEN NoneGaveUp => stored # {} /\ \A g \in stored : g.version = server.version
             ELSE stored = {}
  <2>. USE <1>1
  <2>0. GroupTypeOK /\ NotesFit /\ VersionsFit /\ CatchesUp BY DEF GroupIInv
  <2>1. CASE Inside
    <3>1. SUFFICES ASSUME NoneGaveUp
                   PROVE  stored # {} /\ \A g \in stored : g.version = server.version
      BY <2>1
    <3>2. \A n \in DOMAIN sent : stage[n] = "done" BY <3>1 DEF Quiet, NoneGaveUp
    <3>3. 0 \in DOMAIN sent BY <2>0 DEF NotesFit, Numbers
    <3>4. stored # {} BY <2>0, <2>1, <3>2, <3>3 DEF CatchesUp, StoredOnceHandled
    <3>5. ASSUME NEW g \in stored PROVE g.version = server.version
      <4>1. Settles(g) BY <2>0, <2>1 DEF CatchesUp, HandledUpdatesSettle
      <4>2. g.version <= server.version BY <2>0 DEF VersionsFit, WasTrue
      <4>3. g.version \in Nat /\ server.version \in Nat BY <2>0 DEF GroupTypeOK, Group
      <4>4. server.version > 0 => server.version <= g.version
        BY <2>0, <3>2, <4>1 DEF CatchesUp, VersionAnnounced, Settles
      <4>. QED BY <4>2, <4>3, <4>4
    <3>. QED BY <3>4, <3>5
  <2>2. CASE ~Inside
    <3>1. PICK n \in DOMAIN sent : sent[n].kind = "left" BY <2>0, <2>2 DEF CatchesUp, LeavingAnnounced
    <3>2. stage[n] = "done"
      <4>1. n \in Numbers BY <2>0, GroupCacheAssumption DEF NotesFit, Numbers
      <4>2. stage[n] \in StagesOf("left") BY <2>0, <3>1, <4>1 DEF Quiet, NotesFit
      <4>. QED BY <4>2 DEF Quiet, StagesOf
    <3>. QED BY <2>0, <2>2, <3>1, <3>2 DEF CatchesUp, LeftIsEmpty
  <2>. QED BY <2>1, <2>2
<1>2. GroupIInv => CaughtUp BY <1>1 DEF CaughtUp
<1>. QED BY <1>2, GroupInvariant, PTL

\* The group, its notifications and the work on them keep their types.
THEOREM GroupTypeCorrect == GroupSpec => []GroupTypeOK
<1>1. GroupIInv => GroupTypeOK BY DEF GroupIInv
<1>. QED BY <1>1, GroupInvariant, PTL

-----------------------------------------------------------------------------
(* MessageStore.                                                           *)

\* A row as Stored makes it, and the locals of a handler.
Named == UNION {NamedChats(e) : e \in events}
IsRow(row) ==
    /\ row = [id |-> row.id, chat |-> row.chat, ts |-> row.ts, fromMe |-> row.fromMe,
              real |-> row.real, status |-> row.status]
    /\ row.status \in Nat
    /\ row.ts \in 0 .. Forever
    /\ row.chat \in Named
IsEntry(x) ==
    /\ x = [jid |-> x.jid, real |-> x.real, data |-> x.data]
    /\ IsRow(x.data)
    /\ x.jid \in Named
IsLocal(l) ==
    /\ l = [row |-> l.row, n |-> l.n, attempt |-> l.attempt, setting |-> l.setting, before |-> l.before]
    /\ l.n \in Nat \ {0} /\ l.attempt \in Nat

\* What a handler can be at depends on its event.
PlacesOf(e) ==
    {"idle", "done"} \cup
    CASE e.kind = "message" -> {"save", "react", "set", "look", "reset"}
      [] e.kind = "receipt" -> IF e.type \in {"delivered", "read", "played"} THEN {"get", "put"} ELSE {}
      [] e.kind = "history" -> {"sync", "set"}
      [] e.kind = "delete"  -> {"clear", "look", "reset"}
      [] e.kind = "label"   -> {"edit"}
      [] e.kind = "assoc"   -> {"await", "associate", "unlabel"}
      [] e.kind = "contact" -> {"map"}

HandlersFit ==
    /\ events \in Scenarios
    /\ pc = [e \in events |-> pc[e]] /\ local = [e \in events |-> local[e]]
    /\ \A e \in events : pc[e] \in PlacesOf(e) /\ IsLocal(local[e])

\* A receipt that is to be written has read a lower status.
RowsFit ==
    /\ \A i \in DOMAIN table : IsEntry(table[i])
    /\ \A e \in events : pc[e] = "put" => \A row \in local[e].row : IsRow(row) /\ row.status < StatusOf(e)

LabelGone(l) ==
    \E e \in events : pc[e] = "done" /\ e.kind = "label" /\ e.label = l /\ e.deleted

\* An association waits for its label as long as it may; one that is made has its
\* label, or waited in vain, or the label was deleted.
LabelsFit ==
    /\ \A e \in events : pc[e] \in {"idle", "await"} => local[e].attempt < Attempts
    /\ \A e \in events : pc[e] = "associate" =>
          e.label \in labels \/ LabelGone(e.label) \/ local[e].attempt = Attempts
    /\ \A a \in assocs :
          /\ a[2] # "null"
          /\ \/ a[2] \in labels \/ LabelGone(a[2])
             \/ \E e \in events : /\ pc[e] = "done" /\ e.kind = "assoc" /\ e.label = a[2]
                                  /\ e.chat = a[1] /\ local[e].attempt = Attempts

\* The map of LIDs names phone numbers of contacts.
LidsFit == \A u \in DOMAIN lids : \E f \in events : HasPhone(f) /\ lids[u] = PhoneOf(f)

StoreIInv == HandlersFit /\ RowsFit /\ LabelsFit /\ LidsFit

LEMMA KindOf ==
    ASSUME HandlersFit, NEW e \in events
    PROVE  /\ e.kind \in EventKinds
           /\ pc[e] \in {"save", "react"} => e.kind = "message"
           /\ pc[e] \in {"get", "put"} => e.kind = "receipt" /\ e.type \in {"delivered", "read", "played"}
           /\ pc[e] = "sync" => e.kind = "history"
           /\ pc[e] = "clear" => e.kind = "delete"
           /\ pc[e] = "edit" => e.kind = "label"
           /\ pc[e] \in {"await", "associate", "unlabel"} => e.kind = "assoc"
           /\ pc[e] = "map" => e.kind = "contact"
BY StoreAssumption DEF HandlersFit, PlacesOf, EventKinds

LEMMA StatusIsNat ==
    ASSUME NEW e, e.type \in {"delivered", "read", "played"}
    PROVE  StatusOf(e) \in Nat
BY DEF StatusOf, DeliveryAck, Read, Played

LEMMA NoLocalFrom ==
    ASSUME NEW k
    PROVE  [NoLocal EXCEPT !.n = k] =
             [row |-> {}, n |-> k, attempt |-> 0, setting |-> {}, before |-> Forever]
<1>1. NoLocal = [row |-> {}, n |-> 1, attempt |-> 0, setting |-> {}, before |-> Forever] BY DEF NoLocal
<1>. QED BY <1>1

\* A handler moves alone.
LEMMA StepKeepsHandlers ==
    ASSUME HandlersFit, NEW e \in events, Step(e)
    PROVE  /\ HandlersFit' /\ UNCHANGED events
           /\ \A f \in events \ {e} : pc'[f] = pc[f] /\ local'[f] = local[f]
<1>. USE DEF HandlersFit
<1>1. IsLocal(local[e]) OBVIOUS
<1>. DEFINE l == local[e]
<1>2. ASSUME UNCHANGED events, NEW q \in PlacesOf(e), Goto(e, q),
             NEW m, IsLocal(m), local' = [local EXCEPT ![e] = m]
      PROVE  /\ HandlersFit' /\ UNCHANGED events
             /\ \A f \in events \ {e} : pc'[f] = pc[f] /\ local'[f] = local[f]
  <2>1. /\ pc' = [f \in events |-> IF f = e THEN q ELSE pc[f]]
        /\ local' = [f \in events |-> IF f = e THEN m ELSE local[f]]
    BY <1>2 DEF Goto
  <2>. QED BY <1>2, <2>1 DEF PlacesOf
<1>3. ASSUME UNCHANGED <<events, local>>, NEW q \in PlacesOf(e), Goto(e, q)
      PROVE  /\ HandlersFit' /\ UNCHANGED events
             /\ \A f \in events \ {e} : pc'[f] = pc[f] /\ local'[f] = local[f]
  <2>1. local' = [local EXCEPT ![e] = local[e]] BY <1>3
  <2>. QED BY <1>1, <1>2, <1>3, <2>1
<1>4. "done" \in PlacesOf(e) BY DEF PlacesOf
<1>5. \A x : /\ IsLocal([l EXCEPT !.setting = x]) /\ IsLocal([l EXCEPT !.row = x])
             /\ IsLocal([l EXCEPT !.before = x])
  BY <1>1 DEF IsLocal
<1>6. \A n \in Nat \ {0} : IsLocal([l EXCEPT !.n = n]) /\ IsLocal([NoLocal EXCEPT !.n = n])
  <2>. SUFFICES ASSUME NEW n \in Nat \ {0}
                PROVE  IsLocal([l EXCEPT !.n = n]) /\ IsLocal([NoLocal EXCEPT !.n = n])
    OBVIOUS
  <2>1. IsLocal([l EXCEPT !.n = n]) BY <1>1 DEF IsLocal
  <2>2. [NoLocal EXCEPT !.n = n] =
          [row |-> {}, n |-> n, attempt |-> 0, setting |-> {}, before |-> Forever]
    BY NoLocalFrom
  <2>3. IsLocal([NoLocal EXCEPT !.n = n]) BY <2>2 DEF IsLocal
  <2>. QED BY <2>1, <2>3
<1>7. \A n \in Nat : IsLocal([l EXCEPT !.attempt = n])
  BY <1>1 DEF IsLocal
<1>8. l.n + 1 \in Nat \ {0} /\ l.attempt + 1 \in Nat BY <1>1 DEF IsLocal
<1>9. e.kind \in EventKinds BY KindOf
<1>10. UNCHANGED pc => Goto(e, pc[e]) BY DEF Goto
<1>11. UNCHANGED events
  BY DEF Step, HandleEvent, HandleSaveMessage, HandleMessageEvent, SetEphemeral, LookEphemeral, ResetEphemeral,
         HandleDeleteChat, SaveHistory, GetMessage, PutStatus, HandleLabelEdit, AwaitLabel, AddAssociation,
         RemoveAssociation, HandleContact
<1>. DEFINE Moved == /\ HandlersFit' /\ UNCHANGED events
                     /\ \A f \in events \ {e} : pc'[f] = pc[f] /\ local'[f] = local[f]
<1>12. Done(e) => Moved BY <1>3, <1>4, <1>11 DEF Done
<1>13. NextId(e) /\ pc[e] \in {"get", "put"} => Moved
  <2>. SUFFICES ASSUME NextId(e), pc[e] \in {"get", "put"} PROVE Moved
    OBVIOUS
  <2>1. PICK q \in {"done", "get"} : Goto(e, q) BY DEF NextId
  <2>2. q \in PlacesOf(e) BY KindOf, <2>1 DEF PlacesOf
  <2>3. local' = [local EXCEPT ![e] = [NoLocal EXCEPT !.n = l.n + 1]] BY DEF NextId
  <2>. HIDE DEF l
  <2>. QED BY <2>1, <2>2, <2>3, <1>2, <1>6, <1>8, <1>11
<1>14. CASE HandleEvent(e)
  <2>1. First(e) \in PlacesOf(e) BY <1>9 DEF First, PlacesOf, EventKinds
  <2>. QED BY <2>1, <1>3, <1>4, <1>14 DEF HandleEvent, tables
<1>15. CASE HandleSaveMessage(e)
  <2>1. "react" \in PlacesOf(e) BY <1>15, KindOf DEF HandleSaveMessage, PlacesOf
  <2>. QED BY <2>1, <1>3, <1>15 DEF HandleSaveMessage
<1>16. CASE HandleMessageEvent(e)
  <2>1. CASE Done(e) BY <2>1, <1>12
  <2>2. ASSUME NEW s \in SettingOf(e), local' = [local EXCEPT ![e].setting = {s}],
               Goto(e, IF s.expiration > 0 THEN "set" ELSE "look")
        PROVE  Moved
    <3>1. {"set", "look"} \subseteq PlacesOf(e) BY <1>16, KindOf DEF HandleMessageEvent, PlacesOf
    <3>2. PICK q \in {"set", "look"} : Goto(e, q) BY <2>2
    <3>3. local' = [local EXCEPT ![e] = [l EXCEPT !.setting = {s}]] BY <2>2
    <3>4. IsLocal([l EXCEPT !.setting = {s}]) BY <1>5
    <3>. HIDE DEF l
    <3>. QED BY <3>1, <3>2, <3>3, <3>4, <1>2, <1>11
  <2>. QED BY <2>1, <2>2, <1>16 DEF HandleMessageEvent
<1>17. CASE SetEphemeral(e) \/ ResetEphemeral(e) \/ HandleLabelEdit(e) \/ AddAssociation(e) \/ RemoveAssociation(e)
            \/ HandleContact(e)
  BY <1>12, <1>17 DEF SetEphemeral, ResetEphemeral, HandleLabelEdit, AddAssociation, RemoveAssociation, HandleContact
<1>18. CASE LookEphemeral(e)
  <2>1. pc[e] = "look" => "reset" \in PlacesOf(e) BY <1>9 DEF PlacesOf, EventKinds
  <2>. QED BY <2>1, <1>3, <1>12, <1>18 DEF LookEphemeral, tables
<1>19. CASE HandleDeleteChat(e)
  <2>1. "look" \in PlacesOf(e) BY <1>19, KindOf DEF HandleDeleteChat, PlacesOf
  <2>2. Goto(e, "look") /\ local' = [local EXCEPT ![e] = [l EXCEPT !.before = e.ts]]
    BY <1>19 DEF HandleDeleteChat
  <2>3. IsLocal([l EXCEPT !.before = e.ts]) BY <1>5
  <2>. HIDE DEF l
  <2>. QED BY <2>1, <2>2, <2>3, <1>2, <1>11
<1>20. CASE SaveHistory(e)
  <2>1. {"set", "sync"} \subseteq PlacesOf(e) /\ pc[e] = "sync" BY <1>20, KindOf DEF SaveHistory, PlacesOf
  <2>2. CASE Done(e) BY <2>2, <1>12
  <2>3. CASE UNCHANGED pc /\ local' = [local EXCEPT ![e].n = @ + 1]
    <3>1. local' = [local EXCEPT ![e] = [l EXCEPT !.n = l.n + 1]] BY <2>3
    <3>2. IsLocal([l EXCEPT !.n = l.n + 1]) BY <1>6, <1>8
    <3>. HIDE DEF l
    <3>. QED BY <2>1, <2>3, <3>1, <3>2, <1>2, <1>10, <1>11
  <2>4. CASE /\ local' = [local EXCEPT ![e].setting = {[ts |-> e.settingTs, expiration |-> 0]}]
             /\ Goto(e, "set")
    <3>. DEFINE s == {[ts |-> e.settingTs, expiration |-> 0]}
    <3>1. local' = [local EXCEPT ![e] = [l EXCEPT !.setting = s]] BY <2>4
    <3>2. IsLocal([l EXCEPT !.setting = s]) BY <1>5
    <3>. HIDE DEF l, s
    <3>. QED BY <2>1, <2>4, <3>1, <3>2, <1>2, <1>11
  <2>. QED BY <1>20, <2>2, <2>3, <2>4 DEF SaveHistory
<1>21. CASE GetMessage(e)
  <2>1. {"put", "get"} \subseteq PlacesOf(e) /\ pc[e] = "get" BY <1>21, KindOf DEF GetMessage, PlacesOf
  <2>2. CASE NextId(e) BY <2>1, <2>2, <1>13
  <2>3. CASE Goto(e, "put") /\ local' = [local EXCEPT ![e].row = {table[Id(e)].data}]
    <3>. DEFINE r == {table[Id(e)].data}
    <3>1. local' = [local EXCEPT ![e] = [l EXCEPT !.row = r]] BY <2>3
    <3>2. IsLocal([l EXCEPT !.row = r]) BY <1>5
    <3>. HIDE DEF l, r
    <3>. QED BY <2>1, <2>3, <3>1, <3>2, <1>2, <1>11
  <2>4. CASE UNCHANGED pc /\ local' = [local EXCEPT ![e].attempt = @ + 1]
    <3>1. local' = [local EXCEPT ![e] = [l EXCEPT !.attempt = l.attempt + 1]] BY <2>4
    <3>2. IsLocal([l EXCEPT !.attempt = l.attempt + 1]) BY <1>7, <1>8
    <3>. HIDE DEF l
    <3>. QED BY <2>1, <2>4, <3>1, <3>2, <1>2, <1>10, <1>11
  <2>. QED BY <1>21, <2>2, <2>3, <2>4 DEF GetMessage
<1>22. CASE PutStatus(e)
  BY <1>13, <1>22 DEF PutStatus
<1>23. CASE AwaitLabel(e)
  <2>1. {"await", "associate"} \subseteq PlacesOf(e) BY <1>23, KindOf DEF AwaitLabel, PlacesOf
  <2>2. CASE Goto(e, "associate") /\ UNCHANGED local BY <2>1, <2>2, <1>3, <1>11
  <2>3. CASE /\ local' = [local EXCEPT ![e].attempt = @ + 1]
             /\ UNCHANGED pc \/ Goto(e, "associate")
    <3>1. local' = [local EXCEPT ![e] = [l EXCEPT !.attempt = l.attempt + 1]] BY <2>3
    <3>2. IsLocal([l EXCEPT !.attempt = l.attempt + 1]) BY <1>7, <1>8
    <3>3. \E q \in {"await", "associate"} : Goto(e, q) BY <2>3, <1>10, <1>23 DEF AwaitLabel
    <3>. HIDE DEF l
    <3>. QED BY <2>1, <3>1, <3>2, <3>3, <1>2, <1>11
  <2>. QED BY <1>23, <2>2, <2>3 DEF AwaitLabel
<1>. QED BY <1>14, <1>15, <1>16, <1>17, <1>18, <1>19, <1>20, <1>21, <1>22, <1>23 DEF Step

LEMMA UpsertFits ==
    ASSUME NEW T, \A i \in DOMAIN T : IsEntry(T[i]), NEW m, IsRow(m)
    PROVE  /\ DOMAIN Upsert(T, m) = DOMAIN T \cup {m.id}
           /\ \A i \in DOMAIN Upsert(T, m) :
                 /\ IsEntry(Upsert(T, m)[i])
                 /\ i # m.id => Upsert(T, m)[i] = T[i]
                 /\ i = m.id => Upsert(T, m)[i].data = m
<1>1. \A i \in DOMAIN T : LET x == [T[i] EXCEPT !.data = m] IN IsEntry(x) /\ x.data = m
  BY DEF IsEntry
<1>2. LET x == [jid |-> m.chat, real |-> m.real, data |-> m] IN IsEntry(x) /\ x.data = m
  BY DEF IsEntry, IsRow
<1>3. \A i \in DOMAIN T \cup {m.id} :
         Upsert(T, m)[i] = IF i # m.id THEN T[i]
                           ELSE IF i \in DOMAIN T THEN [T[i] EXCEPT !.data = m]
                           ELSE [jid |-> m.chat, real |-> m.real, data |-> m]
  BY DEF Upsert
<1>4. DOMAIN Upsert(T, m) = DOMAIN T \cup {m.id} BY DEF Upsert
<1>. QED
  <2>1. ASSUME NEW i \in DOMAIN T \cup {m.id}
        PROVE  /\ IsEntry(Upsert(T, m)[i])
               /\ i # m.id => Upsert(T, m)[i] = T[i]
               /\ i = m.id => Upsert(T, m)[i].data = m
    <3>1. CASE i # m.id
      BY <1>3, <3>1, Zenon
    <3>2. CASE i = m.id /\ i \in DOMAIN T
      BY <1>1, <1>3, <3>2, Zenon
    <3>3. CASE i = m.id /\ i \notin DOMAIN T
      BY <1>2, <1>3, <3>3, Zenon
    <3> QED BY <3>1, <3>2, <3>3, Zenon
  <2> QED BY <1>4, <2>1, Zenon

LEMMA StoredIsRow ==
    ASSUME NEW e, NEW status \in Nat, e.ts \in 0 .. Forever, e.chat \in Named
    PROVE  IsRow(Stored(e, status))
BY DEF IsRow, Stored

\* What a step does to the table.
LEMMA TableSteps ==
    ASSUME HandlersFit, RowsFit, NEW e \in events, Step(e)
    PROVE  \/ /\ DOMAIN table' \subseteq DOMAIN table
              /\ \A i \in DOMAIN table' : table'[i] = table[i]
           \/ HandleSaveMessage(e) /\ \E m : IsRow(m) /\ table' = Upsert(table, m)
           \/ SaveHistory(e) /\ \E m : IsRow(m) /\ table' = Upsert(table, m)
           \/ /\ PutStatus(e)
              /\ \E row \in local[e].row : \E m :
                    /\ IsRow(m) /\ table' = Upsert(table, m)
                    /\ m.status = StatusOf(e) /\ row.status < StatusOf(e)
<1>. DEFINE Shrinks == DOMAIN table' \subseteq DOMAIN table /\ \A i \in DOMAIN table' : table'[i] = table[i]
<1>0. e \in events /\ events \in Scenarios BY DEF HandlersFit
<1>1. UNCHANGED table => Shrinks OBVIOUS
<1>2. \A ids : table' = DeleteIds(table, ids) => Shrinks BY DEF DeleteIds
<1>3. CASE HandleSaveMessage(e)
  <2>1. e.kind = "message" BY <1>3, KindOf DEF HandleSaveMessage
  <2>2. e.ts \in 0 .. Forever /\ e.chat \in Named BY <2>1, <1>0, StoreAssumption DEF Named, NamedChats
  <2>. DEFINE m == Stored(e, IF e.fromMe THEN ServerAck ELSE DeliveryAck)
  <2>3. IsRow(m) BY <2>2, StoredIsRow DEF ServerAck, DeliveryAck
  <2>4. table' = Upsert(table, m) BY <1>3 DEF HandleSaveMessage
  <2>. QED BY <1>3, <2>3, <2>4
<1>4. CASE SaveHistory(e)
  <2>1. e.kind = "history" BY <1>4, KindOf DEF SaveHistory
  <2>2. CASE UNCHANGED table BY <2>2, <1>1
  <2>3. CASE local[e].n <= Len(e.messages)
    <3>. DEFINE h == e.messages[local[e].n]
                m == Stored(h, h.status)
    <3>1. table' = Upsert(table, m) BY <1>4, <2>3 DEF SaveHistory
    <3>2. local[e].n \in 1 .. Len(e.messages)
      <4>1. local[e].n \in Nat \ {0} BY DEF HandlersFit, IsLocal
      <4>2. local[e].n >= 1 BY <4>1
      <4>. QED BY <4>1, <4>2, <2>3
    <3>3. h.ts \in 0 .. Forever /\ h.status \in Nat BY <3>2, <2>1, <1>0, StoreAssumption
    <3>4. h.chat \in NamedChats(e) BY <3>2, <2>1 DEF NamedChats
    <3>5. h.chat \in Named BY <3>4 DEF Named
    <3>. HIDE DEF h
    <3>6. IsRow(m) BY <3>3, <3>5, StoredIsRow
    <3>. QED BY <1>4, <3>1, <3>6
  <2>. QED BY <1>4, <2>2, <2>3 DEF SaveHistory
<1>5. CASE PutStatus(e)
  <2>1. StatusOf(e) \in Nat BY <1>5, KindOf, StatusIsNat DEF PutStatus
  <2>2. PICK row \in local[e].row : table' = Upsert(table, [row EXCEPT !.status = StatusOf(e)])
    BY <1>5 DEF PutStatus
  <2>3. IsRow(row) /\ row.status < StatusOf(e) BY <1>5 DEF PutStatus, RowsFit
  <2>. DEFINE m == [row EXCEPT !.status = StatusOf(e)]
  <2>4. IsRow(m) /\ m.status = StatusOf(e) BY <2>1, <2>3 DEF IsRow
  <2>5. table' = Upsert(table, m) BY <2>2
  <2>. HIDE DEF m
  <2>. QED BY <1>5, <2>3, <2>4, <2>5
<1>6. CASE HandleMessageEvent(e) BY <1>1, <1>2, <1>6 DEF HandleMessageEvent
<1>7. CASE HandleDeleteChat(e) BY <1>2, <1>7 DEF HandleDeleteChat, DeleteChatMessages
<1>8. CASE \/ HandleEvent(e) \/ SetEphemeral(e) \/ LookEphemeral(e) \/ ResetEphemeral(e) \/ GetMessage(e)
           \/ HandleLabelEdit(e) \/ AwaitLabel(e) \/ AddAssociation(e) \/ RemoveAssociation(e) \/ HandleContact(e)
  BY <1>1, <1>8 DEF HandleEvent, SetEphemeral, LookEphemeral, ResetEphemeral, GetMessage, HandleLabelEdit,
     AwaitLabel, AddAssociation, RemoveAssociation, HandleContact, tables
<1>. QED BY <1>3, <1>4, <1>5, <1>6, <1>7, <1>8 DEF Step

LEMMA StepsKeepRows ==
    ASSUME HandlersFit, RowsFit, NEW e \in events, Step(e)
    PROVE  RowsFit'
<1>1. /\ HandlersFit' /\ UNCHANGED events
      /\ \A f \in events \ {e} : pc'[f] = pc[f] /\ local'[f] = local[f]
  BY StepKeepsHandlers
<1>2. \A m : IsRow(m) <=> IsRow(m)' BY <1>1 DEF IsRow, Named
<1>3. \A x : IsEntry(x) <=> IsEntry(x)' BY <1>1, <1>2 DEF IsEntry, Named
<1>4. \A i \in DOMAIN table' : IsEntry(table'[i])
  <2>0. \A i \in DOMAIN table : IsEntry(table[i]) BY DEF RowsFit
  <2>1. ASSUME NEW m, IsRow(m), table' = Upsert(table, m)
        PROVE  \A i \in DOMAIN table' : IsEntry(table'[i])
    BY <2>0, <2>1, UpsertFits
  <2>. QED BY <2>0, <2>1, TableSteps
<1>5. ASSUME NEW f \in events, pc'[f] = "put"
      PROVE  \A row \in local'[f].row : IsRow(row) /\ row.status < StatusOf(f)
  <2>1. CASE f # e BY <1>1, <1>5, <2>1 DEF RowsFit
  <2>2. CASE f = e
    <3>1. /\ pc = [g \in events |-> pc[g]] /\ local = [g \in events |-> local[g]] /\ IsLocal(local[e])
      BY DEF HandlersFit
    <3>2. GetMessage(e)
      <4>1. \A q : Goto(e, q) => pc'[e] = q BY <3>1 DEF Goto
      <4>2. Done(e) \/ NextId(e) => pc'[e] # "put" BY <4>1 DEF Done, NextId
      <4>3. First(e) # "put" BY KindOf DEF First, EventKinds
      <4>. QED BY <4>1, <4>2, <4>3, <1>5, <2>2
           DEF Step, HandleEvent, HandleSaveMessage, HandleMessageEvent, SetEphemeral, LookEphemeral,
               ResetEphemeral, HandleDeleteChat, SaveHistory, PutStatus, HandleLabelEdit, AwaitLabel,
               AddAssociation, RemoveAssociation, HandleContact
    <3>3. ~NextId(e) /\ pc[e] # "put" BY <3>1, <3>2, <1>5, <2>2 DEF NextId, Goto, GetMessage
    <3>4. /\ Id(e) \in DOMAIN table /\ ~(table[Id(e)].data.status >= StatusOf(e))
          /\ local' = [local EXCEPT ![e].row = {table[Id(e)].data}]
      BY <3>1, <3>2, <3>3, <1>5, <2>2 DEF GetMessage
    <3>5. local'[e].row = {table[Id(e)].data} BY <3>1, <3>4 DEF IsLocal
    <3>6. IsRow(table[Id(e)].data) BY <3>4 DEF RowsFit, IsEntry
    <3>7. StatusOf(e) \in Nat BY <3>2, KindOf, StatusIsNat DEF GetMessage
    <3>. QED BY <2>2, <3>4, <3>5, <3>6, <3>7 DEF IsRow
  <2>. QED BY <2>1, <2>2
<1>. QED BY <1>1, <1>2, <1>3, <1>4, <1>5 DEF RowsFit, StatusOf

LEMMA FallsOnlyByRace ==
    ASSUME HandlersFit, RowsFit, NEW e \in events, Step(e),
           NEW i \in DOMAIN table \cap DOMAIN table', table'[i].data.status < table[i].data.status
    PROVE  \/ HandleSaveMessage(e) \/ SaveHistory(e)
           \/ PutStatus(e) /\ local[e].row # {table[i].data}
<1>1. \A j \in DOMAIN table : IsEntry(table[j]) BY DEF RowsFit
<1>2. table[i].data.status \in Nat BY <1>1 DEF IsEntry, IsRow
<1>3. table'[i] # table[i] BY <1>2
<1>4. SUFFICES ASSUME ~HandleSaveMessage(e), ~SaveHistory(e)
               PROVE  PutStatus(e) /\ local[e].row # {table[i].data}
  OBVIOUS
<1>5. PutStatus(e) BY <1>3, <1>4, TableSteps
<1>6a. PICK row \in local[e].row : \E m : /\ IsRow(m) /\ table' = Upsert(table, m)
                                           /\ m.status = StatusOf(e) /\ row.status < StatusOf(e)
  BY <1>3, <1>4, TableSteps
<1>6. PICK m : /\ IsRow(m) /\ table' = Upsert(table, m)
               /\ m.status = StatusOf(e) /\ row.status < StatusOf(e)
  BY <1>6a
<1>7. i = m.id /\ table'[i].data = m
  <2>1. IsRow(m) BY <1>6
  <2>2. /\ DOMAIN Upsert(table, m) = DOMAIN table \cup {m.id}
        /\ \A j \in DOMAIN Upsert(table, m) :
              /\ IsEntry(Upsert(table, m)[j])
              /\ j # m.id => Upsert(table, m)[j] = table[j]
              /\ j = m.id => Upsert(table, m)[j].data = m
    BY ONLY <1>1, <2>1, UpsertFits
  <2>. QED BY <1>3, <1>6, <2>2
<1>8. ASSUME local[e].row = {table[i].data} PROVE FALSE
  <2>1. row = table[i].data BY <1>6a, <1>8
  <2>2. StatusOf(e) \in Nat BY <1>6 DEF IsRow
  <2>. QED BY <1>2, <1>6, <1>7, <2>1, <2>2
<1>. QED BY <1>5, <1>8

LEMMA StepsKeepLabels ==
    ASSUME HandlersFit, LabelsFit, NEW e \in events, Step(e)
    PROVE  LabelsFit'
<1>. DEFINE Waited(a) == \E f \in events : /\ pc[f] = "done" /\ f.kind = "assoc" /\ f.label = a[2]
                                           /\ f.chat = a[1] /\ local[f].attempt = Attempts
<1>0. /\ events \in Scenarios /\ pc = [f \in events |-> pc[f]] /\ local = [f \in events |-> local[f]]
      /\ IsLocal(local[e]) /\ e.kind \in EventKinds
  BY KindOf DEF HandlersFit
<1>1. /\ UNCHANGED events
      /\ \A f \in events \ {e} : pc'[f] = pc[f] /\ local'[f] = local[f]
  BY StepKeepsHandlers
<1>2. pc[e] # "done"
  BY DEF Step, HandleEvent, HandleSaveMessage, HandleMessageEvent, SetEphemeral, LookEphemeral, ResetEphemeral,
         HandleDeleteChat, SaveHistory, GetMessage, PutStatus, HandleLabelEdit, AwaitLabel, AddAssociation,
         RemoveAssociation, HandleContact
<1>3. \A l : LabelGone(l) => LabelGone(l)' BY <1>1, <1>2 DEF LabelGone
<1>4. \A a : Waited(a) => Waited(a)' BY <1>1, <1>2
<1>5. \A l \in labels : l \in labels' \/ LabelGone(l)'
  <2>1. CASE HandleLabelEdit(e)
    <3>1. pc'[e] = "done" /\ e.kind = "label"
      BY <1>0, <2>1, KindOf DEF HandleLabelEdit, Done, Goto
    <3>2. e.deleted => LabelGone(e.label)' BY <3>1, <1>1 DEF LabelGone
    <3>. QED BY <2>1, <3>2 DEF HandleLabelEdit
  <2>2. CASE ~HandleLabelEdit(e)
    <3>1. UNCHANGED labels
      BY <2>2 DEF Step, HandleEvent, HandleSaveMessage, HandleMessageEvent, SetEphemeral, LookEphemeral,
         ResetEphemeral, HandleDeleteChat, SaveHistory, GetMessage, PutStatus, AwaitLabel, AddAssociation,
         RemoveAssociation, HandleContact, tables
    <3>. QED BY <3>1
  <2>. QED BY <2>1, <2>2
<1>6. \A a \in assocs : a[2] # "null" /\ (a[2] \in labels \/ LabelGone(a[2]) \/ Waited(a)) BY DEF LabelsFit
<1>7. \A q : Goto(e, q) => pc'[e] = q BY <1>0 DEF Goto
<1>8. Done(e) \/ NextId(e) => pc'[e] \notin {"idle", "await", "associate"} BY <1>7 DEF Done, NextId
<1>9. Attempts \in Nat \ {0} BY StoreAssumption
<1>10. ASSUME ~AwaitLabel(e), ~AddAssociation(e), ~HandleEvent(e)
       PROVE  pc'[e] \notin {"idle", "await", "associate"} /\ assocs' \subseteq assocs
  <2>1. pc'[e] \notin {"idle", "await", "associate"}
    <3>1. CASE UNCHANGED pc
      BY <1>0, <1>10, <3>1 DEF Step, HandleSaveMessage, HandleMessageEvent, SetEphemeral,
         LookEphemeral, ResetEphemeral, HandleDeleteChat, SaveHistory, GetMessage, PutStatus, HandleLabelEdit,
         RemoveAssociation, HandleContact
    <3>2. CASE ~UNCHANGED pc
      BY <1>7, <1>8, <1>10, <3>2 DEF Step, HandleSaveMessage, HandleMessageEvent, SetEphemeral,
         LookEphemeral, ResetEphemeral, HandleDeleteChat, SaveHistory, GetMessage, PutStatus, HandleLabelEdit,
         RemoveAssociation, HandleContact
    <3>. QED BY <3>1, <3>2
  <2>2. assocs' \subseteq assocs
    BY <1>10 DEF Step, HandleSaveMessage, HandleMessageEvent, SetEphemeral,
         LookEphemeral, ResetEphemeral, HandleDeleteChat, SaveHistory, GetMessage, PutStatus, HandleLabelEdit,
         RemoveAssociation, HandleContact, tables
  <2>. QED BY <2>1, <2>2
<1>11. (\A f \in events : pc[f] \in {"idle", "await"} => local[f].attempt < Attempts)'
  <2>1. SUFFICES ASSUME pc'[e] \in {"idle", "await"} PROVE local'[e].attempt < Attempts
    BY <1>1 DEF LabelsFit
  <2>2. CASE HandleEvent(e)
    <3>1. UNCHANGED local /\ pc[e] = "idle" BY <2>2 DEF HandleEvent
    <3>. QED BY <3>1 DEF LabelsFit
  <2>3. CASE AwaitLabel(e)
    <3>1. CASE e.label \in labels BY <1>7, <2>1, <2>3, <3>1 DEF AwaitLabel
    <3>2. CASE e.label \notin labels
      <4>1. local[e].attempt + 1 < Attempts BY <1>7, <2>1, <2>3, <3>2 DEF AwaitLabel
      <4>2. local'[e].attempt = local[e].attempt + 1
        BY <1>0, <2>3, <3>2 DEF AwaitLabel, IsLocal
      <4>. QED BY <4>1, <4>2
    <3>. QED BY <3>1, <3>2
  <2>4. CASE AddAssociation(e) BY <2>1, <2>4, <1>8 DEF AddAssociation
  <2>. QED BY <2>1, <2>2, <2>3, <2>4, <1>10
<1>12. (\A f \in events : pc[f] = "associate" => f.label \in labels \/ LabelGone(f.label) \/ local[f].attempt = Attempts)'
  <2>1. SUFFICES ASSUME pc'[e] = "associate"
                 PROVE  e.label \in labels' \/ LabelGone(e.label)' \/ local'[e].attempt = Attempts
    BY <1>1, <1>3, <1>5 DEF LabelsFit
  <2>2. CASE HandleEvent(e)
    <3>1. First(e) # "associate" BY <1>0 DEF First, EventKinds
    <3>. QED BY <3>1, <1>7, <2>1, <2>2 DEF HandleEvent
  <2>3. CASE AwaitLabel(e)
    <3>1. CASE e.label \in labels BY <1>5, <3>1
    <3>2. CASE e.label \notin labels
      <4>1. local'[e].attempt = local[e].attempt + 1
        BY <1>0, <2>3, <3>2 DEF AwaitLabel, IsLocal
      <4>2. ~UNCHANGED pc BY <2>1, <2>3 DEF AwaitLabel
      <4>3. ~(local[e].attempt + 1 < Attempts) BY <2>3, <3>2, <4>2 DEF AwaitLabel
      <4>4. local[e].attempt < Attempts /\ local[e].attempt \in Nat BY <1>0, <2>3 DEF LabelsFit, AwaitLabel, IsLocal
      <4>. QED BY <1>9, <4>1, <4>3, <4>4
    <3>. QED BY <3>1, <3>2
  <2>4. CASE AddAssociation(e) BY <2>1, <2>4, <1>8 DEF AddAssociation
  <2>. QED BY <2>1, <2>2, <2>3, <2>4, <1>10
<1>13. \A a \in assocs' : a[2] # "null" /\ (a[2] \in labels' \/ LabelGone(a[2])' \/ Waited(a)')
  <2>1. \A a \in assocs : a[2] # "null" /\ (a[2] \in labels' \/ LabelGone(a[2])' \/ Waited(a)')
    BY <1>3, <1>4, <1>5, <1>6
  <2>2. CASE AddAssociation(e)
    <3>1. /\ pc[e] = "associate" /\ pc'[e] = "done" /\ UNCHANGED local
          /\ assocs' = assocs \cup {<<e.chat, e.label>>}
      BY <2>2, <1>7 DEF AddAssociation, Done
    <3>2. e.kind = "assoc" BY <3>1, KindOf
    <3>3. e.label # "null" BY <3>2, <1>0, StoreAssumption
    <3>4. e.label \in labels \/ LabelGone(e.label) \/ local[e].attempt = Attempts BY <3>1 DEF LabelsFit
    <3>. DEFINE a == <<e.chat, e.label>>
    <3>5. a[1] = e.chat /\ a[2] = e.label OBVIOUS
    <3>6. local[e].attempt = Attempts => Waited(a)' BY <3>1, <3>2, <3>5, <1>1
    <3>. HIDE DEF a
    <3>7. a[2] \in labels' \/ LabelGone(a[2])' \/ Waited(a)' BY <3>4, <3>5, <3>6, <1>3, <1>5
    <3>. HIDE DEF Waited
    <3>8. a = <<e.chat, e.label>> BY DEF a
    <3>. QED BY <2>1, <3>1, <3>3, <3>5, <3>7, <3>8
  <2>3. CASE AwaitLabel(e) \/ HandleEvent(e)
    BY <2>1, <2>3 DEF AwaitLabel, HandleEvent, tables
  <2>. QED BY <2>1, <2>2, <2>3, <1>10
<1>. QED BY <1>11, <1>12, <1>13 DEF LabelsFit

LEMMA StepsKeepLids ==
    ASSUME HandlersFit, LidsFit, NEW e \in events, Step(e)
    PROVE  LidsFit'
<1>1. UNCHANGED events BY StepKeepsHandlers
<1>2. ASSUME UNCHANGED lids PROVE LidsFit' BY <1>1, <1>2 DEF LidsFit
<1>3. CASE HandleContact(e)
  <2>. DEFINE l == IF IsLid(e.chat) THEN e.chat.user ELSE e.other
              p == IF IsLid(e.chat) THEN e.other ELSE e.chat.user
  <2>1. CASE lids' = [u \in {l} \cup {v \in DOMAIN lids : lids[v] # p} |-> IF u = l THEN p ELSE lids[u]]
             /\ e.chat.server \in {"s.whatsapp.net", "lid"}
    <3>1. HasPhone(e) /\ p = PhoneOf(e) BY <1>3, <2>1, KindOf DEF HandleContact, HasPhone, PhoneOf
    <3>. HIDE DEF p, l
    <3>2. \A u \in DOMAIN lids' : lids'[u] = p \/ (u \in DOMAIN lids /\ lids'[u] = lids[u]) BY <2>1
    <3>. QED BY <1>1, <3>1, <3>2 DEF LidsFit
  <2>. QED BY <1>2, <1>3, <2>1 DEF HandleContact
<1>4. CASE ~HandleContact(e)
  BY <1>2, <1>4 DEF Step, HandleEvent, HandleSaveMessage, HandleMessageEvent, SetEphemeral, LookEphemeral,
         ResetEphemeral, HandleDeleteChat, SaveHistory, GetMessage, PutStatus, HandleLabelEdit, AwaitLabel,
         AddAssociation, RemoveAssociation, tables
<1>. QED BY <1>3, <1>4

LEMMA StoreStarts ==
    ASSUME StoreInit
    PROVE  StoreIInv
<1>1. PICK S \in Scenarios : events = S BY DEF StoreInit
<1>2. HandlersFit
  <2>1. IsLocal(NoLocal)
    <3>1. NoLocal = [row |-> {}, n |-> 1, attempt |-> 0, setting |-> {}, before |-> Forever] BY DEF NoLocal
    <3>. QED BY <3>1 DEF IsLocal
  <2>2. \A e \in events : pc[e] = "idle" /\ local[e] = NoLocal BY DEF StoreInit
  <2>. QED BY <1>1, <2>1, <2>2 DEF StoreInit, HandlersFit, PlacesOf
<1>3. RowsFit BY DEF StoreInit, RowsFit
<1>4. LabelsFit
  <2>1. \A e \in events : pc[e] = "idle" /\ local[e].attempt = 0 BY DEF StoreInit, NoLocal
  <2>. QED BY <2>1, StoreAssumption DEF StoreInit, LabelsFit
<1>5. LidsFit BY DEF StoreInit, LidsFit
<1>. QED BY <1>2, <1>3, <1>4, <1>5 DEF StoreIInv

LEMMA StepsKeepStore == StoreIInv /\ [StoreNext]_storeVars => StoreIInv'
<1>. SUFFICES ASSUME StoreIInv, [StoreNext]_storeVars PROVE StoreIInv'
  OBVIOUS
<1>1. CASE StoreNext
  BY <1>1, StepKeepsHandlers, StepsKeepRows, StepsKeepLabels, StepsKeepLids DEF StoreNext, StoreIInv
<1>2. CASE UNCHANGED storeVars
  BY <1>2 DEF StoreIInv, storeVars, tables, HandlersFit, RowsFit, LabelsFit, LabelGone, LidsFit, IsEntry, IsRow,
                  Named
<1>. QED BY <1>1, <1>2

LEMMA StoreInvariant == StoreSpec => []StoreIInv
BY StoreStarts, StepsKeepStore, PTL DEF StoreSpec

-----------------------------------------------------------------------------
(* The merged list of chats.                                               *)

LEMMA LatestExists ==
    ASSUME NEW n \in Nat, NEW T \in SUBSET (0 .. n), T # {}
    PROVE  \E x \in T : \A y \in T : y <= x
<1>. DEFINE U == {n - y : y \in T}
<1>0. ASSUME NEW y \in T
      PROVE  n - y \in Nat /\ n - y \in U
  <2>1. n - y \in U BY Zenon
  <2>2. y \in 0 .. n OBVIOUS
  <2>. QED BY <2>1, <2>2
<1>1. U \in SUBSET Nat /\ U # {} BY <1>0
<1>2. PICK u \in U : \A v \in U : ~(<<v, u>> \in OpToRel(<, Nat))
  <2>. HIDE DEF U
  <2>. QED BY <1>1, WFMin, NatLessThanWellFounded
<1>3. PICK x \in T : u = n - x OBVIOUS
<1>4. ASSUME NEW y \in T PROVE y <= x
  <2>1. n - y \in U /\ n - y \in Nat /\ n - x \in Nat BY <1>3
  <2>2. <<n - y, u>> \in Nat \X Nat /\ <<n - y, u>>[1] = n - y /\ <<n - y, u>>[2] = n - x BY <1>3, <2>1
  <2>3. ~(n - y < n - x) BY <1>2, <2>1, <2>2 DEF OpToRel
  <2>. QED BY <2>3
<1>. QED BY <1>4

\* What the tables give the queries.
Rows == DistinctLatestByJID(table, Real(table))
Person(i) == Canonical(lids, table[i].jid)
Time(i) == table[i].data.ts
Wins(i, j) ==
    IF IsLid(table[i].jid) /\ ~IsLid(table[j].jid) THEN Time(i) > Time(j) ELSE Time(i) >= Time(j)
Winners(R) == {i \in R : \A j \in R : Person(j) = Person(i) /\ j # i => Wins(i, j)}

\* The user part of a phone number is that of no other chat.
LEMMA NamedAre ==
    ASSUME StoreIInv, NEW c \in Named
    PROVE  /\ c = [server |-> c.server, user |-> c.user]
           /\ c.server # "s.whatsapp.net" => \A u \in DOMAIN lids : lids[u] # c.user
<1>1. PICK e \in events : c \in NamedChats(e) BY DEF Named
<1>2. events \in Scenarios BY DEF StoreIInv, HandlersFit
<1>3. /\ c = [server |-> c.server, user |-> c.user]
      /\ \A f \in events : HasPhone(f) /\ c.server # "s.whatsapp.net" => c.user # PhoneOf(f)
  BY <1>1, <1>2, StoreAssumption
<1>. QED BY <1>3 DEF StoreIInv, LidsFit

LEMMA EntriesAre ==
    ASSUME StoreIInv, NEW i \in DOMAIN table
    PROVE  table[i].jid \in Named /\ Time(i) \in 0 .. Forever
BY DEF StoreIInv, RowsFit, IsEntry, IsRow, Time

\* Every chat with a message has a latest row.
LEMMA RowsAre ==
    ASSUME StoreIInv
    PROVE  /\ Rows \subseteq Real(table) /\ Real(table) \subseteq DOMAIN table
           /\ \A i \in Real(table) : \E r \in Rows : table[r].jid = table[i].jid /\ Time(i) <= Time(r)
<1>1. Rows \subseteq Real(table) /\ Real(table) \subseteq DOMAIN table BY DEF Rows, Real, DistinctLatestByJID
<1>2. ASSUME NEW i \in Real(table)
      PROVE  \E r \in Rows : table[r].jid = table[i].jid /\ Time(i) <= Time(r)
  <2>. DEFINE S == {j \in Real(table) : table[j].jid = table[i].jid}
              T == {Time(j) : j \in S}
  <2>1. T \subseteq 0 .. Forever /\ T # {} BY <1>1, <1>2, EntriesAre
  <2>2. PICK x \in T : \A y \in T : y <= x
    <3>. HIDE DEF T
    <3>1. Forever \in Nat BY DEF Forever
    <3>. QED BY <2>1, <3>1, LatestExists
  <2>3. PICK r \in S : x = Time(r) OBVIOUS
  <2>4. \A j \in S : Time(j) <= Time(r) BY <2>2, <2>3
  <2>5. r \in Rows BY <2>3, <2>4 DEF Rows, DistinctLatestByJID, Time
  <2>. QED BY <1>2, <2>3, <2>4, <2>5
<1>. QED BY <1>1, <1>2

\* Both keys of the merge, and the name a row is shown under, are its person.
LEMMA PersonIsShown ==
    ASSUME StoreIInv, Settled, NEW i \in DOMAIN table
    PROVE  /\ IsLid(table[i].jid) => Canonical(lids, table[i].data.chat) = Person(i)
           /\ ~IsLid(table[i].jid) => table[i].data.chat = Person(i)
           /\ ShownChat(table, lids, i) = Person(i)
BY DEF Settled, Person, Canonical, ShownChat

\* The merge keeps the rows that win against all others of their person.
LEMMA MergeIs ==
    ASSUME StoreIInv, Settled, NEW R \in SUBSET DOMAIN table
    PROVE  MergeLastMessages(table, lids, {i \in R : ~IsLid(table[i].jid)}, {i \in R : IsLid(table[i].jid)})
             = Winners(R)
<1>. DEFINE P == {i \in R : ~IsLid(table[i].jid)}
            Q == {i \in R : IsLid(table[i].jid)}
            Key(i) == IF i \in Q THEN Canonical(lids, table[i].data.chat) ELSE table[i].data.chat
<1>1. P \cup Q = R OBVIOUS
<1>2. \A i \in R : Key(i) = Person(i) BY PersonIsShown
<1>3. \A i \in R : (i \in Q <=> IsLid(table[i].jid)) /\ (i \in P <=> ~IsLid(table[i].jid)) OBVIOUS
<1>4. MergeLastMessages(table, lids, P, Q) =
        {i \in P \cup Q : \A j \in {k \in P \cup Q : Key(k) = Key(i)} \ {i} :
            IF i \in Q /\ j \in P THEN table[i].data.ts > table[j].data.ts
            ELSE table[i].data.ts >= table[j].data.ts}
  BY DEF MergeLastMessages
<1>. HIDE DEF P, Q, Key
<1>5. MergeLastMessages(table, lids, P, Q) = Winners(R)
  BY <1>1, <1>2, <1>3, <1>4 DEF Winners, Wins, Time
<1>. QED BY <1>5 DEF P, Q

LEMMA WholeListIs ==
    ASSUME StoreIInv, Settled
    PROVE  LastMessagesMerged(table, lids, {}) = Winners(Rows)
<1>1. LastMessagesMerged(table, lids, {}) =
        MergeLastMessages(table, lids, {i \in Rows : ~IsLid(table[i].jid)}, {i \in Rows : IsLid(table[i].jid)})
  BY DEF LastMessagesMerged, Rows
<1>2. Rows \in SUBSET DOMAIN table BY RowsAre
<1>. QED BY <1>1, <1>2, MergeIs

\* The last row of a person, that of the phone number if two are as late, wins.
LEMMA SomeoneWins ==
    ASSUME StoreIInv, NEW i \in Rows
    PROVE  \E k \in Winners(Rows) : Person(k) = Person(i)
<1>. DEFINE S == {j \in Rows : Person(j) = Person(i)}
            T == {Time(j) : j \in S}
<1>0. Rows \subseteq DOMAIN table BY RowsAre
<1>1. T \subseteq 0 .. Forever /\ T # {} BY <1>0, EntriesAre
<1>2. PICK x \in T : \A y \in T : y <= x
  <2>. HIDE DEF T
  <2>1. Forever \in Nat BY DEF Forever
  <2>. QED BY <1>1, <2>1, LatestExists
<1>3. \A j \in S : Time(j) <= x /\ Time(j) \in Nat /\ x \in Nat BY <1>0, <1>2, EntriesAre
<1>4. CASE \E k \in S : Time(k) = x /\ ~IsLid(table[k].jid)
  <2>1. PICK k \in S : Time(k) = x /\ ~IsLid(table[k].jid) BY <1>4
  <2>2. \A j \in S : Wins(k, j) BY <1>3, <2>1 DEF Wins
  <2>. QED BY <2>1, <2>2 DEF Winners
<1>5. CASE ~\E k \in S : Time(k) = x /\ ~IsLid(table[k].jid)
  <2>1. PICK k \in S : Time(k) = x BY <1>2
  <2>2. \A j \in S : Wins(k, j) BY <1>3, <1>5, <2>1 DEF Wins
  <2>. QED BY <2>1, <2>2 DEF Winners
<1>. QED BY <1>4, <1>5

\* A chat is asked for by all the names of its person.
LEMMA AskedIsPerson ==
    ASSUME StoreIInv, NEW i \in DOMAIN table, NEW k \in DOMAIN table,
           table[i].jid \in Variants(lids, Person(k))
    PROVE  Person(i) = Person(k)
<1>1. table[i].jid \in Named /\ table[k].jid \in Named BY EntriesAre
<1>. DEFINE c == Person(k)
<1>2. Canonical(lids, c) = c BY DEF Person, Canonical, IsLid, Phone
<1>3. CASE table[i].jid = c BY <1>2, <1>3 DEF Person
<1>4. CASE table[i].jid \in LidsOf(lids, c.user)
  <2>1. PICK u \in DOMAIN lids : lids[u] = c.user /\ table[i].jid = Lid(u) BY <1>4 DEF LidsOf
  <2>2. Person(i) = Phone(c.user) BY <2>1 DEF Person, Canonical, IsLid, Lid
  <2>3. c.server = "s.whatsapp.net" /\ c = Phone(c.user)
    <3>1. CASE c = table[k].jid BY <1>1, <2>1, <3>1, NamedAre DEF Phone
    <3>2. CASE c # table[k].jid BY <3>2 DEF Person, Canonical, Phone
    <3>. QED BY <3>1, <3>2
  <2>. QED BY <2>2, <2>3
<1>. QED BY <1>2, <1>3, <1>4 DEF Variants

\* A filter asks for whole persons, so it takes no rival from anybody.
LEMMA FilteredListIs ==
    ASSUME StoreIInv, Settled, NEW J \in SUBSET Chats, J # {},
           \A j \in J : IsLid(j) => j.user \in DOMAIN lids
    PROVE  LastMessagesMerged(table, lids, J) = Winners({i \in Rows : Person(i) \in {Canonical(lids, j) : j \in J}})
<1>. DEFINE phones == {Canonical(lids, j) : j \in J}
            ofLids == UNION {LidsOf(lids, c.user) : c \in phones}
            R == {i \in Rows : Person(i) \in phones}
            P == {i \in Rows : ~IsLid(table[i].jid) /\ (phones = {} \/ table[i].jid \in phones)}
            Q == IF J # {} /\ ofLids = {} THEN {}
                 ELSE {i \in Rows : IsLid(table[i].jid) /\ (ofLids = {} \/ table[i].jid \in ofLids)}
<1>1. LastMessagesMerged(table, lids, J) = MergeLastMessages(table, lids, P, Q)
  BY DEF LastMessagesMerged, Rows
<1>2. phones # {} /\ Q = {i \in Rows : IsLid(table[i].jid) /\ table[i].jid \in ofLids} OBVIOUS
<1>3. Rows \subseteq DOMAIN table /\ \A i \in Rows : table[i].jid \in Named BY RowsAre, EntriesAre
<1>4. Chats \subseteq Named BY DEF Chats, Named, NamedChats
<1>5. \A c \in phones : c.server # "lid" /\ (c.server = "s.whatsapp.net" => c = Phone(c.user))
                        /\ (c.server # "s.whatsapp.net" => \A u \in DOMAIN lids : lids[u] # c.user)
  <2>. SUFFICES ASSUME NEW j \in J
                PROVE  LET c == Canonical(lids, j)
                       IN  /\ c.server # "lid" /\ (c.server = "s.whatsapp.net" => c = Phone(c.user))
                           /\ c.server # "s.whatsapp.net" => \A u \in DOMAIN lids : lids[u] # c.user
    OBVIOUS
  <2>1. CASE IsLid(j) BY <2>1 DEF Canonical, Phone
  <2>2. CASE ~IsLid(j)
    <3>1. j \in Named BY <1>4
    <3>2. j = [server |-> j.server, user |-> j.user] BY <3>1, NamedAre
    <3>3. j.server # "s.whatsapp.net" => \A u \in DOMAIN lids : lids[u] # j.user BY <3>1, NamedAre
    <3>. QED BY <2>2, <3>2, <3>3 DEF Canonical, Phone, IsLid
  <2>. QED BY <2>1, <2>2
<1>6. P = {i \in R : ~IsLid(table[i].jid)} BY <1>2 DEF Person, Canonical
<1>7. ASSUME NEW i \in Rows, IsLid(table[i].jid)
      PROVE  table[i].jid \in ofLids <=> Person(i) \in phones
  <2>. DEFINE jid == table[i].jid
  <2>1. jid = [server |-> jid.server, user |-> jid.user] BY <1>3, NamedAre
  <2>2. jid = Lid(jid.user) BY <1>7, <2>1 DEF IsLid, Lid
  <2>3. ASSUME jid \in ofLids PROVE Person(i) \in phones
    <3>1. PICK c \in phones : jid \in LidsOf(lids, c.user) BY <2>3
    <3>2. PICK u \in DOMAIN lids : lids[u] = c.user /\ jid = Lid(u) BY <3>1 DEF LidsOf
    <3>3. Person(i) = Phone(c.user) BY <3>2 DEF Person, Canonical, IsLid, Lid
    <3>4. c = Phone(c.user) BY <1>5, <3>2
    <3>. QED BY <3>3, <3>4
  <2>4. ASSUME Person(i) \in phones PROVE jid \in ofLids
    <3>1. jid.user \in DOMAIN lids BY <1>5, <1>7, <2>4 DEF Person, Canonical, IsLid
    <3>2. Person(i) = Phone(lids[jid.user]) BY <1>7, <3>1 DEF Person, Canonical
    <3>3. Person(i).user = lids[jid.user] BY <3>2 DEF Phone
    <3>4. jid \in LidsOf(lids, Person(i).user) BY <2>2, <3>1, <3>3 DEF LidsOf
    <3>. QED BY <2>4, <3>4
  <2>. QED BY <2>3, <2>4
<1>8. Q = {i \in R : IsLid(table[i].jid)} BY <1>2, <1>7
<1>9. R \in SUBSET DOMAIN table BY <1>3
<1>. HIDE DEF P, Q, R
<1>10. LastMessagesMerged(table, lids, J) = Winners(R) BY <1>1, <1>6, <1>8, <1>9, MergeIs
<1>. QED BY <1>10 DEF R

LEMMA FilterAgrees ==
    ASSUME StoreIInv, Settled, NEW J \in SUBSET Chats, J # {},
           \A j \in J : IsLid(j) => j.user \in DOMAIN lids
    PROVE  FilterAgreesFor(J)
<1>. DEFINE phones == {Canonical(lids, j) : j \in J}
<1>1. LastMessagesMerged(table, lids, J) = Winners({i \in Rows : Person(i) \in phones}) BY FilteredListIs
<1>2. LastMessagesMerged(table, lids, {}) = Winners(Rows) BY WholeListIs
<1>3. Winners(Rows) \subseteq DOMAIN table BY RowsAre DEF Winners
<1>4. \A i \in Winners(Rows) : ShownChat(table, lids, i) = Person(i) BY <1>3, PersonIsShown
<1>. HIDE DEF phones
<1>5. Winners({i \in Rows : Person(i) \in phones}) = {i \in Winners(Rows) : Person(i) \in phones}
  BY DEF Winners
<1>6. LastMessagesMerged(table, lids, J)
        = {i \in LastMessagesMerged(table, lids, {}) : ShownChat(table, lids, i) \in phones}
  BY <1>1, <1>2, <1>4, <1>5
<1>. QED BY <1>6 DEF FilterAgreesFor, phones

\* Two queries and a merge in memory give what one query with all the names of a
\* chat gives, of any table and any map of LIDs that the handlers make.
THEOREM ChatListAgrees == StoreSpec => []ViewsAgree
<1>1. ASSUME StoreIInv, Settled, NEW i \in LastMessages(table, {})
      PROVE  \E k \in LastMessagesMerged(table, lids, {}) :
                ShownChat(table, lids, k) = Canonical(lids, table[i].jid)
  <2>1. i \in Rows BY <1>1 DEF LastMessages, Rows
  <2>2. PICK k \in Winners(Rows) : Person(k) = Person(i) BY <1>1, <2>1, SomeoneWins
  <2>3. k \in DOMAIN table BY <1>1, RowsAre DEF Winners
  <2>4. ShownChat(table, lids, k) = Person(k) BY <1>1, <2>3, PersonIsShown
  <2>5. k \in LastMessagesMerged(table, lids, {}) BY <1>1, WholeListIs
  <2>. QED BY <2>2, <2>4, <2>5 DEF Person
<1>2. ASSUME StoreIInv, Settled, NEW k \in LastMessagesMerged(table, lids, {}),
             NEW i \in GetChatMessages(table, lids, ShownChat(table, lids, k), TRUE)
      PROVE  table[i].data.ts <= table[k].data.ts
  <2>1. k \in Winners(Rows) BY <1>2, WholeListIs
  <2>2. k \in Rows /\ k \in DOMAIN table BY <1>2, <2>1, RowsAre DEF Winners
  <2>3. ShownChat(table, lids, k) = Person(k) BY <1>2, <2>2, PersonIsShown
  <2>4. i \in Real(table) /\ table[i].jid \in Variants(lids, Person(k))
    <3>1. i \in GetChatMessages(table, lids, Person(k), TRUE) BY <1>2, <2>3
    <3>. HIDE DEF Person
    <3>. QED BY <3>1 DEF GetChatMessages, GetAllMessages, NoFilter
  <2>5. i \in DOMAIN table BY <1>2, <2>4, RowsAre
  <2>6. Person(i) = Person(k) BY <1>2, <2>2, <2>4, <2>5, AskedIsPerson
  <2>7. PICK r \in Rows : table[r].jid = table[i].jid /\ Time(i) <= Time(r) BY <1>2, <2>4, RowsAre
  <2>8. Person(r) = Person(k) BY <2>6, <2>7 DEF Person
  <2>9. Time(r) <= Time(k)
    <3>1. r \in DOMAIN table BY <1>2, <2>7, RowsAre
    <3>2. Time(r) \in Nat /\ Time(k) \in Nat BY <1>2, <3>1, <2>2, EntriesAre
    <3>3. r # k => Wins(k, r) BY <2>1, <2>7, <2>8 DEF Winners
    <3>. QED BY <3>2, <3>3 DEF Wins
  <2>10. Time(i) \in Nat /\ Time(r) \in Nat /\ Time(k) \in Nat
    BY <1>2, <2>2, <2>5, <2>7, RowsAre, EntriesAre
  <2>11. Time(i) <= Time(k) BY <2>7, <2>9, <2>10
  <2>. QED BY <2>11 DEF Time
<1>3. ASSUME StoreIInv, Settled, NEW j \in {c \in Chats : IsLid(c) => c.user \in DOMAIN lids},
             NEW k \in {c \in Chats : IsLid(c) => c.user \in DOMAIN lids}
      PROVE  FilterAgreesFor({j, k})
  BY <1>3, FilterAgrees
<1>4. StoreIInv => ViewsAgree BY <1>1, <1>2, <1>3 DEF ViewsAgree
<1>. QED BY <1>4, StoreInvariant, PTL

\* A receipt is written only over the row it has read, and only if its status is
\* higher: without a row that is stored again, or changed in between, no status
\* falls, for any receipts in any order.
THEOREM StatusFalls == StoreSpec => StatusFallsOnlyByRace
<1>1. StoreIInv /\ [StoreNext]_storeVars =>
        [\A i \in DOMAIN table \cap DOMAIN table' :
           table'[i].data.status < table[i].data.status =>
             \E e \in events :
                \/ HandleSaveMessage(e) \/ SaveHistory(e)
                \/ PutStatus(e) /\ local[e].row # {table[i].data}]_storeVars
  BY FallsOnlyByRace DEF StoreNext, StoreIInv
<1>. QED BY <1>1, StoreInvariant, PTL DEF StoreSpec, StatusFallsOnlyByRace

\* An association whose label is missing has waited for that label in vain, or
\* outlived it.
THEOREM NullIsExplained == StoreSpec => []NullLabelIsExplained
<1>1. ASSUME StoreIInv, NEW a \in assocs, LabelOf(a) = "null"
      PROVE  \E e \in events : pc[e] = "done" /\ e.label = a[2] /\
                \/ e.kind = "label" /\ e.deleted
                \/ e.kind = "assoc" /\ e.chat = a[1] /\ local[e].attempt = Attempts
  <2>1. a[2] \notin labels BY <1>1 DEF LabelOf, StoreIInv, LabelsFit
  <2>. QED BY <1>1, <2>1 DEF StoreIInv, LabelsFit, LabelGone
<1>2. StoreIInv => NullLabelIsExplained BY <1>1 DEF NullLabelIsExplained
<1>. QED BY <1>2, StoreInvariant, PTL

-----------------------------------------------------------------------------
(* MediaRetry.                                                             *)

\* The inductive invariant: the registered call is the one that sends and
\* waits, and what a handler holds is an answer.
RetryIInv ==
    /\ TypeOK
    /\ WaiterIsSender
    /\ \A h \in Handlers : handling[h].step # "idle" => handling[h].answer # NoAnswer

\* Nobody has called, and nobody is registered.
LEMMA RetryStarts == RetryInit => RetryIInv
BY MediaRetryAssumption DEF RetryInit, RetryIInv, TypeOK, WaiterIsSender, Answers, NoAnswer, Labels,
   Handling, NoHandling

\* The steps of a call that leave the map of waiters alone stay on their side
\* of the registration.
LEMMA CallsOutsideTheMap ==
  ASSUME RetryIInv, NEW t \in Threads,
         \/ Download(t) \/ Lookup(t) \/ Poll(t) \/ PollTimesOut(t) \/ SendReceipt(t)
         \/ ReceiveAnswer(t) \/ WaitTimesOut(t) \/ Result(t)
  PROVE  RetryIInv'
<1> USE MediaRetryAssumption DEF RetryIInv, TypeOK, Answers, NoAnswer, Labels
<1>1. TypeOK'
  BY DEF Download, Lookup, Poll, PollTimesOut, SendReceipt, ReceiveAnswer, WaitTimesOut, Result,
     Proceed, Carry, EndDownload
<1>2. UNCHANGED <<waiter, handling>>
  BY DEF Download, Lookup, Poll, PollTimesOut, SendReceipt, ReceiveAnswer, WaitTimesOut, Result
<1>3. \A u \in Threads : u # t => phase'[u] = phase[u]
  BY DEF Download, Lookup, Poll, PollTimesOut, SendReceipt, ReceiveAnswer, WaitTimesOut, Result,
     Proceed, Carry, EndDownload
<1>4. phase'[t] \in {"send", "wait", "unregister"} <=> phase[t] \in {"send", "wait", "unregister"}
  BY DEF Download, Lookup, Poll, PollTimesOut, SendReceipt, ReceiveAnswer, WaitTimesOut, Result,
     Proceed, Carry, EndDownload
<1>5. WaiterIsSender'
  BY <1>2, <1>3, <1>4 DEF WaiterIsSender
<1> QED
  BY <1>1, <1>2, <1>5

\* LoadOrStore registers a call only where there is none.
LEMMA Registers ==
  ASSUME RetryIInv, NEW t \in Threads, Register(t)
  PROVE  RetryIInv'
<1> USE MediaRetryAssumption DEF RetryIInv, TypeOK, Answers, NoAnswer, Labels, Register, Proceed
<1>1. TypeOK'
  OBVIOUS
<1>2. WaiterIsSender'
  <2>1. CASE waiter = None
    BY <2>1 DEF WaiterIsSender
  <2>2. CASE waiter # None
    BY <2>2 DEF WaiterIsSender
  <2> QED
    BY <2>1, <2>2
<1> QED
  BY <1>1, <1>2

\* The deferred Delete, by the message, removes the call's own entry: nobody
\* else can have registered while it was there.
LEMMA Unregisters ==
  ASSUME RetryIInv, NEW t \in Threads, Unregister(t)
  PROVE  RetryIInv'
<1> USE MediaRetryAssumption DEF RetryIInv, TypeOK, Answers, NoAnswer, Labels, Unregister, Proceed,
        EndDownload
<1>1. TypeOK'
  OBVIOUS
<1>2. waiter = t
  BY DEF WaiterIsSender
<1>3. phase'[t] \in {"idle", "result"} /\ \A u \in Threads : u # t => phase'[u] = phase[u]
  OBVIOUS
<1>4. WaiterIsSender'
  BY <1>2, <1>3 DEF WaiterIsSender
<1> QED
  BY <1>1, <1>4

\* The phone, the handlers and the eviction register nobody.
LEMMA EventsOutsideTheMap ==
  RetryIInv /\ ((\E h \in Handlers : PhoneAnswers(h) \/ Set(h) \/ Notify(h)) \/ Silence \/ Evict) => RetryIInv'
<1> SUFFICES ASSUME RetryIInv,
                    (\E h \in Handlers : PhoneAnswers(h) \/ Set(h) \/ Notify(h)) \/ Silence \/ Evict
             PROVE  RetryIInv'
  OBVIOUS
<1> USE MediaRetryAssumption DEF RetryIInv, TypeOK, Answers, NoAnswer, Handling, NoHandling
<1>1. CASE \E h \in Handlers : PhoneAnswers(h)
  <2> PICK h \in Handlers : PhoneAnswers(h)
    BY <1>1
  <2>1. receipts' \in 0 .. MaxReceipts
    BY DEF PhoneAnswers
  <2>2. PICK answer \in Answers :
          handling' = [handling EXCEPT ![h] = [step |-> "set", answer |-> answer]]
    BY DEF PhoneAnswers
  <2>3. handling' \in [Handlers -> Handling]
    BY <2>2
  <2> QED
    BY <2>1, <2>2, <2>3 DEF PhoneAnswers, WaiterIsSender
<1>2. CASE \E h \in Handlers : Set(h)
  <2> PICK h \in Handlers : Set(h)
    BY <1>2
  <2>1. handling[h] \in Handling /\ handling[h].answer \in Answers
    BY DEF Set
  <2>2. handling' \in [Handlers -> Handling]
    BY <2>1 DEF Set
  <2>3. \A k \in Handlers : handling'[k].answer = handling[k].answer
    BY <2>1 DEF Set
  <2>4. \A k \in Handlers : handling'[k].step # "idle" => handling'[k].answer # NoAnswer
    BY <2>1, <2>3 DEF Set
  <2> QED
    BY <2>1, <2>2, <2>4 DEF Set, WaiterIsSender
<1>3. CASE \E h \in Handlers : Notify(h)
  <2> PICK h \in Handlers : Notify(h)
    BY <1>3
  <2>1. chan' \in [Threads -> Answers \cup {NoAnswer}]
    BY DEF Notify
  <2>2. handling' \in [Handlers -> Handling]
    BY DEF Notify
  <2> QED
    BY <2>1, <2>2 DEF Notify, WaiterIsSender
<1>4. CASE Silence \/ Evict
  BY <1>4 DEF Silence, Evict, WaiterIsSender
<1> QED
  BY <1>1, <1>2, <1>3, <1>4

\* The invariant is inductive.
THEOREM RetryInvariant == RetrySpec => []RetryIInv
<1>1. RetryIInv /\ [RetryNext]_retryVars => RetryIInv'
  <2> SUFFICES ASSUME RetryIInv, [RetryNext]_retryVars PROVE RetryIInv'
    OBVIOUS
  <2>1. CASE UNCHANGED retryVars
    BY <2>1 DEF retryVars, RetryIInv, TypeOK, WaiterIsSender
  <2>2. CASE RetryNext
    BY <2>2, CallsOutsideTheMap, Registers, Unregisters, EventsOutsideTheMap DEF RetryNext, DownloadStep
  <2> QED
    BY <2>1, <2>2
<1> QED
  BY <1>1, RetryStarts, PTL DEF RetrySpec

\* Type correctness of the cache, the channels and the calls.
THEOREM RetryTypeCorrect == RetrySpec => []TypeOK
<1>1. RetryIInv => TypeOK
  BY DEF RetryIInv
<1> QED
  BY <1>1, RetryInvariant, PTL

\* Of any number of racing calls the registered one, and no other, sends a
\* receipt and waits for its answer.
THEOREM OneSender == RetrySpec => []WaiterIsSender
<1>1. RetryIInv => WaiterIsSender
  BY DEF RetryIInv
<1> QED
  BY <1>1, RetryInvariant, PTL
================================================================================
