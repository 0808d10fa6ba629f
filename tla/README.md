# TLA+ models of prawago

prawago is a Go gateway to WhatsApp: a gRPC server that keeps one client
(`GoWS`, around the whatsmeow library) per named session, stores what the
client receives, and places and answers voice and video calls. Nearly all of it
runs in goroutines that nobody waits for: every event of the client starts
three, every state of a call starts one more, every request has its own, and
relays, timers and browsers call back when they like. Under the calls lies a
stack of formats, from stanzas to the bits of a speech codec, in which two ends
must agree on what neither says. This directory models both, checks them with
TLC on small instances, and proves nearly all their invariants with TLAPS for
instances of any size; the entropy coder and the symbols of a frame alone are only
model-checked.

| file | what it is |
|---|---|
| `CallState.tla` | the life cycle of one call: the abstract specification |
| `CallManager.tla` | the handlers and the media of one call; implements `CallState` |
| `CallController.tla` | the calls of one session, their goroutines, files and bridges |
| `SctpRelay.tla` | the relay connections of one call |
| `Signaling.tla` | how two ends come to the same keys, streams and relays |
| `Wire.tla` | what a relay is sent and answers, byte by byte; RTP packets |
| `AudioPath.tla` | sequence numbers, SRTP indexes and playing time from end to end |
| `H264.tla`, `VideoPath.tla` | NAL units in RTP payloads; access units from end to end |
| `MlowPayload.tla` | payloads, containers and redundancy of the MLow codec |
| `SmplFrame.tla`, `RangeCoder.tla` | the symbols of a frame and their tables; the entropy coder |
| `Sessions.tla` | starting and stopping a session, its event channel and reader |
| `EventStreams.tla` | how events reach the clients that stream them |
| `MessageStore.tla`, `StoreQueries.tla` | the handlers of stored events; the tables and their queries |
| `GroupCache.tla` | the stored copy of a group and its timer |
| `MediaRetry.tla` | re-upload requests for media whose download gave a 403 |
| `Outgoing.tla` | the requests that send messages |
| `Account.tla` | the requests that change groups, labels, newsletters, profile, presence, read marks |
| `CallStateProofs.tla`, `CallManagerProofs.tla`, `CallControllerProofs.tla`, `SessionsProofs.tla` | theorems about the module each is named after |
| `RelayProofs.tla` | theorems about `SctpRelay`, `Wire` |
| `ServerProofs.tla` | theorems about `Account`, `EventStreams`, `Outgoing` |
| `StorageProofs.tla` | theorems about `MessageStore`, `GroupCache`, `MediaRetry` |
| `MediaProofs.tla` | theorems about `AudioPath`, `VideoPath`, `MlowPayload`, `Signaling` |
| `MC*.tla`, `MC*.cfg` | instances for TLC, one `.cfg` per run (`MCOutgoing` has the requests that `MCServer` uses) |
| `PROJECT.json` | components, runs, mutants, source map, findings, hazards, theorems |

Source paths below are relative to `src/src/`.

## 1. The system

### 1.1 How the parts interact

    gRPC services --> session server --> SessionManager --> GoWS (one per session)
       ^   StreamEvents |  subscribes                        |  whatsmeow events
       +----------------+--<-- events channel (10) <--------+--> reissueEvent
                                                            +--> StorageEventHandler --> SQL storage
                                                            +--> Controller.HandleEvent
    Controller --> CallManager (one per call) --> SctpRelay --> relays (STUN, SCTP)
        ^  OnStateChange/OnEnded  |                  | OnOpen/OnClose/timeout
        +-------------------------+------------------+
        +--> Bridge (WebRTC to a browser), audio files
    CallManager --> RTP/SRTP --> MLow codec, H264 pipeline

`GoWS.handleEvent` (`gows/gows.go:100`) starts three goroutines for every event,
so handlers of one call, one message or one group run at once and in any order.
The manager of a call and the controller each have one mutex and release it
around network calls; the controller's callback `OnStateChange` runs inside the
manager's lock and therefore starts a goroutine for what it has to do, `OnEnded`
and `OnIncoming` run outside it. The storage has no transactions: a handler that
reads a row and writes it back meets others in between. These seams are what the
models of the first kind are about; those of the second kind put two ends, each
running this code, on either side of a channel.

### 1.2 Inventory

**Call life cycle** (`voip/call/callstate.go`). *State*: `CallInfo`, with its
state, time stamps, duration, end reason. *Operations*: `NewOutgoingCall`,
`NewIncomingCall`, `ApplyTransition`. *Hard*: late and repeated transitions,
duration through hold and resume. *Correct when*: the first end is final, stamps
agree with the state and are ordered, media connects once and after an accept,
the duration is the connected time. **Modelled** (`CallState`).

**Call manager** (`voip/call/callmanager*.go`). *State*: the current call, its
key and relay data, codec, SRTP session, send loop, playing time. *Operations*:
`StartCall`, `AcceptCall`, `EndCall`,
`HandleCallOffer/Accept/Transport/Ack/Terminate`, `onRelayConnected`,
`cleanupMedia`, `onRelayData`. *Hard*: handlers leave the lock between steps and
interleave with each other, with relay callbacks and with the cleanup; an accept
races the opening of a relay; ack and accept come in either order. *Correct when*:
an accepted call with an open relay gets promoted, has keys that the other end
has too, and leaves nothing running when it ended; the last report to the
application is the truth. **Modelled in part** (`CallManager`, `Signaling`,
`AudioPath`): `RejectCall`, `Hold`, `Resume` and mute, which nothing in the program
calls on a manager, are left out.

**Call controller** (`voip/callctl`). *State*: the map of calls under a limit;
per call the audio files, a bridge and `started`. *Operations*: create, accept,
end, WebRTC, `onActive`, `cleanup`, `Shutdown`, event dispatch. *Hard*: limit and
insertion are two critical sections; clean-ups and audio starts are goroutines
that find the call again by its id, which another call may have by then.
*Correct when*: the limit holds within the number of racing creators, one
clean-up releases a call, an ended call leaves the map, no peer connection is
orphaned. **Modelled in part** (`CallController`): PCM frames and the WebRTC
negotiation are left out.

**Relay transport** (`voip/transport/sctprelay.go`). *State*: connections by
relay id, each with a state, a data channel, timers. *Operations*:
`ConfigureRelays`, `connectToRelay`, `OnOpen`, `OnClose`, the 20 s timeout,
`failConnection`, `closeConnection`, `Cleanup`, registration and pings. *Hard*: test
and listing of a relay are apart, deletions go by id, `conn.state` is written
outside the lock. *Correct when*: what is listed is alive, what is listed as open
is open, nothing stays listed that died. **Modelled in part** (`SctpRelay`, and
`Wire` for what it sends): the rewriting of the SDP is left out.

**STUN and relay subscriptions** (`voip/transport/stun.go`, `subscriptions.go`).
Messages with padded attributes under two checksums, lists of streams in
protobuf. *Correct when*: what is built comes apart into what it was built of and
asks for the streams of the call. **Modelled** (`Wire`).

**RTP and SRTP** (`voip/media/rtp.go`, `srtp.go`). Sequence numbers, time stamps,
roll-over counter. *Hard*: wraps under loss and reordering, two connections on one
context without a lock. *Correct when*: both ends count the same packets.
**Modelled in part** (`AudioPath`, `Wire`): the ciphers are the index and key they
are used with.

**H264 packetisation** (`voip/transport/h264_packet.go`,
`voip/call/video/pipeline.go`). Fragments, aggregates, access units; one
depacketizer for all connections. *Correct when*: a unit that comes undisturbed is
delivered whole after whatever was lost before. **Modelled in part** (`H264`,
`VideoPath`).

**Range coder and MLow frames** (`voip/media/mlow`). An entropy coder with carry,
a tail cut short and raw bits from the back; frames whose every symbol selects the
tables of the next, with predictors over packets. *Correct when*: the decoder
reads what the encoder wrote. **Modelled in part** (`RangeCoder`, `SmplFrame`,
`MlowPayload`). The signal processing is floating-point arithmetic on sample
buffers, out of TLC's reach and not modelled.

**Signaling** (`voip/signaling`, `voip/call/helpers.go`). Offer, accept, ack: who
gets the call key, under which JID each end derives its keys, which streams it
asks for, which relays it uses. *Hard*: JIDs with and without devices, lists that
may lack either end, answers from any device, ack after accept. *Correct when*:
each end opens what the other seals. **Modelled** (`Signaling`); the **WhatsApp
socket** in part, as queries that fail or time out.

**Sessions** (`gows/manager.go`, `gows/gows.go`, `server/session.go`). *State*: the
maps of sessions and of subscriptions, the client, the event channel, the
context. *Operations*: `StartSession`, `StopSession`, `Build`, `Start`, `Stop`,
`emitEvent`, the reader. *Hard*: start and stop take two locks in turn, `Stop` sends
to the channel it is about to close, senders wait on a bounded channel. *Correct
when*: a mapped instance is live and stopped once, no reader or sender is left
behind, a started session has a reader, stop returns. **Modelled in part**
(`Sessions`): QR login, proxy and device store are left out.

**Event streams** (`server/events.go`). *State*: the listeners of each session,
a channel of 1,000 events each. *Correct when*: no event is sent into a closed
channel, a slow client loses its own events and nobody else's. **Modelled**
(`EventStreams`).

**Media retry** (`gows/media.go`). *State*: cache of answers, map of waiters.
*Operations*: lookup, register, poll, send, wait; `reissueEvent` stores and
notifies. *Hard*: racing downloads, early, late and missing answers. *Correct
when*: one download asks, no registration outlives its call, an answer ends the
wait. **Modelled** (`MediaRetry`).

**Storage event handler** (`gows/storage_event_handler.go`). *State*: the tables
of messages, timers, labels, associations and LIDs. *Hard*: read-modify-writes
without a lock or transaction, in goroutines; reads that are retried because
their row may be on its way. *Correct when*: the status of a message does not
fall, a label that was there is shown. **Modelled** (`MessageStore`). **SQL
storage** (`storage/sqlstorage`): one statement is atomic; lists of chats are
merged in memory. *Correct when*: two queries of one fact agree. **Modelled in
part** (`StoreQueries`): the statements on messages and LIDs; not the generation of
SQL, pages and orders, mapping, migrations.

**Group cache** (`gows/storage_groups_cache.go`, `storage/helpers`). *State*: stored
groups, their timers, the time of the last refresh. *Hard*: updates under the
lock, joins and departures without it; notifications in any order; a refresh
deletes before it inserts. *Correct when*: the copy is a state the group had, and
in the end the one it has. **Modelled** (`GroupCache`).

**Labels and chats** (`server/labels.go`, `gows/ephemeral.go`,
`server/actions.go`). Associations, timers, read marks. **Modelled in part**
(`MessageStore`, `Outgoing`, `Account`).

**Message builders and gRPC services** (`gows/build.go`, `status.go`,
`newsletter.go`, `ephemeral.go`; `server/*.go`). *Hard*: what is read before a call
and stale when it is used; batches of which some fail; a deadline that passes
while the work goes on. *Correct when*: an answer is what was done. **Modelled in
part** (`Outgoing`, `Account`): the handlers that send or change something.

**Process, logging and link previews**: start-up and pure I/O, not modelled.

`PROJECT.json` lists each of these under `components`, and under `hazards` what
can go wrong in each, at its line, with the property that would see it.

## 2. The models

Conventions. One step is one critical section of the mutex named in the module,
one statement of SQL, one channel operation, or one call that leaves the process;
whatever a handler does between two of them is a step of its own, so that
goroutines interleave where Go lets them and nowhere else. A goroutine is an
element of `Threads`, or an event, a request, a connection; `pc` (`stage`, `phase`,
`at`, `linkPc`) is where it is and `local` (`work`, `known`) the variables it
carries over a step. Identifiers, payloads and sound are left out or are model
values, except where a module is about their bytes. Definitions commented
`Mutant:` are not used by the specification: they are wrong versions of the
definition below them, kept to show that a property notices them. Variables
commented `history:` are written and never read by an action.

### 2.1 CallState

`call` is the `CallInfo`, `clock` is `time.Now()` in seconds. `ApplyTransition`
is an operator on the record, with `Sources` and `Target` the table of the Go
`switch`. The specification lets anybody attempt any transition at any time; that
is all the Go type promises, and it is what `CallManager` refines.

### 2.2 CallManager

One manager over the life of one call. `StartCall` and `HandleCallOffer` are
called once, on a fresh manager, by the controller; every other handler begins
with `Fetch`, which takes the manager from the controller's map, so a handler may
reach the manager after the call ended and left the map. Their critical sections:

| code | actions |
|---|---|
| `StartCall` | `StartCall`, `OfferFails` or `OfferAnswered` |
| `HandleCallAck` | `HandleCallAck`, `ConnectRelays` |
| `HandleCallOffer` | `HandleCallOffer`, `OfferNotify`, `OfferReport`, `OfferEmit` |
| `AcceptCall` | `AcceptCall`, `SetupIncomingMedia`, `AcceptConnect` |
| `EndCall`, `HandleCallTerminate` | the action of that name, `OnEnded`, `CleanupMedia`, `CleanupRelay` |
| `HandleCallAccept` | `HandleCallAccept`, `RemoteAccept`, then `AcceptedPromotes` or `AcceptedConnects` |
| `HandleCallTransport` (attribute-form endpoints, never `Usable`) | `HandleCallTransport`, `StoreEndpoints`, `ConnectRelays` |
| `onRelayConnected` | `RelayOpens` (the transport), `OnRelayConnected` |
| the controller's `go c.cleanup` | `Detach` |

`AcceptConnect` and `AcceptedConnects` read `call.RelayData` without the lock
while another handler may be storing it: the endpoints they use are either the
earlier or the present ones. The relays are abstract here (absent, connecting,
open, and they may fail at any moment); `SctpRelay` has the detail. Time is
frozen at 1, so a stamp says whether and not when; `CallState` covers when.

### 2.3 CallController

`calls` is the map. An activeCall has an id, the state of its manager's call,
`started`, whether it has audio files (`audio`, `sink`), and the bridge it holds;
`open` are the bridges whose peer connection is not closed. `pending` counts the
goroutines that callbacks have started and that have not run: `cleanup` and
`on_active` from `OnStateChange` and `OnEnded`, `end` from a bridge whose ICE
failed. `Take` lets a thread become one of them; like the code, it finds the call
by its id. `Shutdown` takes its snapshot and then runs `EndCall` and `cleanup` for
each id; requests and offers that began before it go on beside it.

### 2.4 SctpRelay

`connections` is the list by relay id. `dialing` counts the `connectToRelay`
goroutines that have passed the test of `ConfigureRelays` and not yet listed
their connection, so two of them may. `opening`, `closing`, `timer` and `tearing`
hold the callbacks, timeouts and tear-downs that have yet to run. `FailConnection`
and `OnClose` delete by id, whichever connection is listed there by then.

### 2.5 Signaling

Two ends, each the part of a `CallManager` that keys and streams depend on
(`side`), and the stanzas between them (`mail`). `StartCall` encrypts the call key
for the devices it was told of, the server hands each its own (`Fanout`), a device
decrypts the node it finds (`FindEncNode`), an accept passes for the first who
answers, and the ack comes before, after or, when the query has timed out, as late
as it likes. A JID is a user and a device; that `types.JID` writes no device 0,
that `ensureDeviceJid` adds one and that `CleanJID` removes it is kept, for the
keys depend on it. What an HKDF or an SSRC is made of stands for its value.
`ParseRelays` is `ParseRelayFromAck` over the children in their order.

### 2.6 Wire

Packets are sequences of numbers below 256. `Register` is one `send` of
`sendStunRegistration`: up to two bindings under a user name, one without, and an
`Allocate` with the list of streams, from any relay info. A key is `<<>>` for nil or
`<<key>>`, because an empty key is none to a binding and a key to an allocation.
`SendPing`, `SendRtp` and the relay's `Answer` and `Pong` build the other packets.
Integers have their widths, 16 or 32 bits, cut off by `Field16` and `Field32`. Only
the checksums and the random bytes are abstract: a digest is a sum in which every
byte counts. The exclusive or of a byte is written out bit by bit, and the loops of
`encodeVarint`, `ParseStunResponse` and a protobuf reader are functions of the
number of steps, so that the module can be proved about. `streams` of a message is
history: the SSRCs it was built to ask for. `ReadFields` is the relay's side, a
protobuf reader.

### 2.7 AudioPath

The sender's `RtpSession` and `SrtpContext`, the packets under way on each
connection, the receiver's context and its time line. A connection's goroutine is
`Receive`, which ends with the comparison of `updateRoc`, `ReadRoc` and `RaiseRoc`
when that sees a wrap, `StoreSeq`, `Decode`, which takes the index, and `Align`. The
context is shared and guarded by no lock (`handleAudioRelayData` releases the
manager's before `Unprotect`), so each of its reads and writes is a step of its own
and two connections may count one wrap twice. A frame decrypted with the right index
has `Frame` samples; with another it is noise, whose first octet says how many
(`NoiseLengths`), for the codec refuses nothing. Arithmetic wraps at `SeqSpace` and
`TsSpace`. A packet is its number, so that "the right index" can be said.

### 2.8 H264 and VideoPath

`H264` has the packetisation as functions: a unit is a name and a length, its
bytes numbered, a payload whole units or a range of bytes with the start and end
bits. `VideoPath` sends access units over the connections (`Packed`: the payloads of
one, each with the marker if it is the last) and collects them with
one depacketizer that goroutines use outside the pipeline's lock (`HandleRelayData`)
and one frame buffer under it (`Collect`); `Reset` may come at any time.

### 2.9 RangeCoder, SmplFrame, MlowPayload

`RangeCoder` is `rangecoder.go` function by function, with `SymBits`, `CodeBits`
and `WindowSize` in place of 8, 32 and 32: an encoder record, a decoder record, and
an encoder that is given any sequence of symbols by any of its methods.
`SmplFrame` is one level up: a frame's parameters become a sequence of symbols,
each with the name of its table, and the decoder must ask for each symbol with the
same table. A table is named by what selects it, so a predictor out of step shows
as another name. `MlowPayload` is one level further up: which bytes of a payload
are frames, and which of them are decoded, concealed or silent.

### 2.10 Sessions and EventStreams

One session name; others share only the maps. Instances are the `GoWS` objects
built for it in turn. `StartSession` is `Build`, `Subscribe`, `ManagerStart`,
`AddHandler`, `Connect`; `StopSession` is `StopSession`, `CancelSub`,
`ManagerStop`, `RemoveHandler`, `Shutdown` with `EndEmits` for the two events each
live call sends, `Disconnect`, `CloseEvents`, `ForgetEvents`, `CancelContext`.
`Event` starts the goroutine that `Send`s to the channel or `Drop`s. A reader
reads the field `events` once, when it starts, and is deaf if `Stop` has set it
to nil by then.

`EventStreams` goes on from there: a forwarder (the reader, of which an earlier
start may have left another) takes the read lock and hands its event to every
listener, or counts it as missed where the channel is full; a stream adds its
listener, sends what it takes, and on the end of its client removes the listener
and closes the channel under the write lock.

### 2.11 MessageStore and StoreQueries

`StoreQueries` has the table of messages as a function and its statements as
operators: the upsert that leaves the chat of a row alone, deletions, and the
queries with and without the merge of phone numbers and LIDs. `MessageStore` has
one goroutine per event of a set drawn at the start; its actions are the
statements of `handleSaveMessage`, `handleMessageEvent`, `handleReceipt`,
`saveHistoryForOneChat`, `handleDeleteChat`, `handleLabelEdit`,
`handleLabelAssociationChat` and `handleContact`, with the retries of the two that
wait for a row. No stored event is lost: the library delivers each once.

### 2.12 GroupCache

`server` is the group as WhatsApp has it, `sent` its notifications, `stored` and
`setting` the two rows of the cache. A handler of an update takes the lock, perhaps
refreshes, reads the row, applies the update if it is made from that version, and
writes; a mismatch fails and is retried. That I joined or left is written without
the lock. `raced` remembers that such a write met somebody's copy.

### 2.13 MediaRetry

One message. A download that met a 403 looks in the cache, registers as the
waiter or polls, sends the receipt, waits, unregisters, and uses the answer. A
handler of `events.MediaRetry` stores the answer and then notifies the waiter,
in two steps. The phone may answer late or never, and the cache evicts.

### 2.14 Outgoing and Account

A request is a record of what the client asked, with the parts that are bad
(`bad`). `Outgoing` follows it through `Begin` (session, chat, timer), `Quote`,
`LookUp`, `Prepare`, `SendBatch` and `Answer`; WhatsApp takes a batch, refuses it,
or takes it and the answer is lost; `Expire` is the deadline of the interceptor,
which does not stop the handler. `StoreOwn` is what the storage handler does with
the event of the session's own message, and thus closes the circle of a chat's
timer: setting, context of the next message, setting again. `Account` has each
request as the operator on the account that WhatsApp applies, with the reads
before it (`ReadTopic`, `ReadLast`) as steps of their own, and the votes of
newsletters with their waiters, cancellation and lost connection.

### 2.15 How they compose

`CallManager` instantiates `CallState` (`CS == INSTANCE CallState WITH ...`) and
uses its `ApplyTransition`, so there is one definition of a transition; `Lifecycle`
is the abstract specification seen through that instance. The other seams are
cut by abstraction: each side is modelled with everything the other may do.

| seam | what one side assumes of the other |
|---|---|
| manager / relays | `CallManager` lets a connection open or fail at any time, its callback following; `SctpRelay` gives `ListedOpenIsReal` and `ListedIsAlive`, which is what `HasConnection` relies on |
| manager / controller | `CallManager` has `attached`, `detaching`; `CallController` reduces the manager to none, live, active, ended, with the reports each step makes |
| controller / session | `Sessions` counts live calls and the two events of each end; `CallController` takes `Shutdown` at any time |
| manager / peer | `CallManager` takes keys and endpoints as there or not; `Signaling` says when they are the same at both ends |
| audio / wire, frames | `AudioPath` numbers packets; `Wire` shows that a packet gives back its number, `MlowPayload` and `SmplFrame` what becomes of its payload; `VideoPath` takes packets as decrypted |
| frames / entropy coder | `SmplFrame` compares tables; `RangeCoder` shows that a symbol comes back if it is read with the table it was written with |
| session / streams | `Sessions` lets its reader always go on; `EventStreams` shows that it does (`SlowClientHoldsUpNobody`) |
| requests / storage | `Outgoing` has the two rows a request reads and its own message writes; `MessageStore` has them under every other event |

The instances for TLC of modules that share nothing but values are joined in one
run, in which a behaviour has one of them (`part`, `service` in `MCStorage`,
`MCMedia`, `MCServer`).

## 3. What the runs check

`expect` is *violation* where a document, comment or test of the repository says
something that the code does not do; the run then gives the counterexample.

| run | instance | shows |
|---|---|---|
| `call_state` | 2 reasons, clock to 4, symmetry; 1 396 states | `EndedIsFinal`: no sequence of transitions changes an ended call |
| `call_manager` | 2 goroutines, a usable endpoint and one without a token; 440 260 states | `NoLostPromotion`, `EndedReleasesMedia`, `LastReportIsTrue`; the refinement `Lifecycle`; `EndedIsForgotten`, `OutgoingReachesActive` under fairness |
| `controller` | 2 ids, 2 calls, limit 1, 2 threads; two calls without bridges or one with two; 2.8 million states | `OvershootIsBounded`, `OneCleanupReleases`, `EndedIsCleanedUp`, `NoOrphanBridge`, with a second offer of one id and `Shutdown` at any point |
| `relay` | 1 relay, 2 connections; 101 038 states | `ListedIsAlive`, `ListedOpenIsReal`; `DialSettles` under fairness |
| `sessions` | 1 instance, 2 subscriptions, 2 RPCs, 1 sender, channel of 1; 60 351 states | `MappedIsLive`; `EventsFlow` under fairness |
| `storage` | seven sets of three to seven events; a group with 2 changes; 2 downloads; 271 000 states | `StatusFallsOnlyByRace`, `ViewsAgree`, `NullLabelIsExplained`; `VersionMatchesMembers`, `CaughtUp`, `SettingFollowsGroup`; `AnswerEndsWait` under fairness |
| `media` | seven parts, see 3.1; 3.6 million states | `KeysCross`, `SubscribedToPeer`, `RelaysAreComplete`; `PacketsReadBack`; `IndexesAgree`, `PlaysInTime`; `CleanUnitsArriveWhole`; `FramesPlayInOrder`; `DecoderInStep`; `DecoderReadsBack` |
| `server` | every request alone, and pairs and triples that meet; 2 streams, 2 forwarders; 870 000 states | `AnswerIsTrue`, `OldTimerComesBackOnlyByRace`; `MarksCoverWhatWasSeen`, `VotesLeaveNoWaiter`; `NeverSendsToClosed`, `StreamHasNoGaps`, and `SlowClientHoldsUpNobody` under fairness |
| `transport_without_token` | violation of `TransportBringsMedia` | an incoming call accepted without relay endpoints stays Connecting: the endpoints a transport message brings have no raw token, and `buildRelayConfigs` skips them all |
| `shutdown_misses_calls` | violation of `ShutdownEndsAll` | a call that was being created, or was replaced under its id, survives `Shutdown` |
| `stop_blocks` | violation of `StopReturns` | `StopSession` stops the reader and then sends to the channel; when it is full it never returns |
| `link_not_revoked` | violation of `RevokedLinkIsDead` | `RevokeGroupInviteLink` asks for the link without resetting it |

Properties whose names say *OnlyByRace*, *IsExplained* or that have an escape
(`~skewed`, `~torn`, `~raced`, `misled`, `~jumped`) state exactly what the code gives: the
escape names the schedule under which it fails, and section 5 says what happens
then.

`PROJECT.json` gives, for every property of a passing run, a mutant of the
definition that would be wrong (a dropped guard, a missing reset, a swapped
order) under which TLC finds the property violated.

Deadlock is not reported (`CHECK_DEADLOCK FALSE`) where the system may
really stop: a call has ended and nobody acts, all events are handled, or all ids,
connections or instances of the model are used up. `call_state` checks it.

### 3.1 Bounds, and why they are enough

* *Goroutines* (`Threads` = 2, `Emitters` = 1, `Handlers` = 2). The hazards listed
  are races of two handlers, and what runs beside them (relay callbacks, the ack,
  pending clean-ups, timers, readers) does not take up a thread. Safety is proved
  for any number wherever there is a `Proofs` module.
* `MaxCallbacks` = 1 per endpoint: relay callbacks under way. A second one of
  the same endpoint does the same again, and the proofs hold for any bound.
* `ActiveCalls` = 2 with `CallIds` = 2 and `MaxCalls` = 1: one call more than the
  limit, and two calls of one id. With bridges there is one call and two of them
  (`browsers`): they replace each other within a call.
* `MaxPending` = 1 bounds when another request may be fetched for a call, not
  what running goroutines start: a step may raise `pending` further, and its type
  is `Nat`.
* `MaxDials` = 2: two goroutines pass the test for one relay, which is the race.
  `Conns` = 2: one connection replaces the other in the list.
* `Capacity` = 1 for a channel of ten, `Buffer` = 1 for one of 1,000: full and empty
  are reached, which is all that senders and readers tell apart; the proofs hold
  for any capacity. `Subs` = 2 and `Instances` = 1.
* `MaxHandlers` = 1: a second `Start` of a running session may still add another
  handler in the middle of a race; a third would behave like it.
* `MaxReceipts` = 2: an answer to an earlier receipt and one to the present.
* `MaxClock` = 4: accept, media, hold and end at four different seconds.
* *Events* (`Scenarios` of `MCStorage`): each set holds the events that touch one
  row or one chat: two receipts of a message with a history sync or a revoke;
  messages of one person under both names, in chats that a contact joins, with a
  deletion; timers by message, setting and history; labels with associations.
  `Attempts` = 2 for 6 retries, `UpdateAttempts` = 2 for 10: one that fails and the
  last. `MaxChanges` = 2: two notifications in either order; `MaxRefreshes` = 1.
* *Requests* (`MCOutgoing`, `MCServer`): every rpc, kind of content and way to be
  bad is there alone; what meets another is two texts around a change of timer, a
  revoke or edit of what is quoted, a status in two batches (`BatchSize` = 2, three
  people of whom one is skipped), three descriptions, two marks (`Inbox` = 2), two
  votes. `Feed`: three events to one forwarder, one to the other.
* *Audio*: 5 packets with `SeqSpace` = 4 wrap once or twice from either start, 2
  samples to a frame and `TsSpace` = 64 wrap the time stamp within them; `MaxLate`
  = 1 reorders neighbours, and loss is free. `MaxGap` = 4 is two frames.
  `NoiseLengths` = {1, 5}: less than a frame and more than two, as 160 and 1 920 are
  of 960.
* *Video*: payloads of 8 bytes: a unit of three fragments, two units in one
  packet; `MaxReassembly` = 14, and a unit of exactly that length and one a byte
  longer, which is dropped; `MaxLag` = 2.
* *Entropy coder*: 3-bit symbols in 12 bits have the proportions of 8 in 32 (top,
  bottom, extra bits, held-back octets), a buffer of 6 octets is filled, and
  4 symbols of any of the seven methods reach carry over a run of held-back
  octets. *Frames*: two samples to a subframe, all pulse patterns, lags between all
  pairs of segments, two packets of three internal frames of which the first may be
  lost.
* *Wire*: texts of all lengths modulo 4, an attribute whose length takes two
  bytes, SSRCs on either side of each varint length and 0 among them, time stamps and
  SSRCs up to 31 bits, headers with and without every optional part; the theorem is
  for every length and value (TLC's integers end at 31 bits). *Payloads*: `MaxSpans` frames, with those that a container's
  header could be mistaken for; `MaxContained` = 3 of the 8 frames a container may
  have (the theorem is for all eight).
* *Signaling*: a linked device calls a user with a phone and a linked device;
  lists with, without and with bare devices; relays in all orders of their parts.

Symmetry sets are used in `call_state`, `controller`, `shutdown_misses_calls` and
`media`, whose properties are invariants or action properties of symmetric
formulas; runs with liveness use none.

### 3.2 Fairness, and why the code justifies it

* *Goroutines run.* `WF` of each thread's `Step`: a goroutine that can go on does.
  Beginning (`Fetch`, `StartCall`, `Build`, `Download`...) is never fair: users
  and peers may do nothing.
* *Callbacks run* once their event has happened (`OnRelayConnected`, `OnOpen`,
  `OnClose`), and timers fire (`Timeout`). That a relay ever answers, opens or
  closes is not assumed.
* *Channels.* Go serves the goroutines that wait on a channel in their order, so
  one that can send time and again does: `SF` of `Send` and `EndEmits`. A `select`
  takes a case that stays ready: `WF` of `Drop` once the context is cancelled. The
  recovered panic of a send on a closed channel is not relied on, because a
  sender that comes after the field was set to nil does not panic but waits.
* *Streams.* `WF` of a forwarder that can take the read lock, hand on or release, and
  of a stream that can take the write lock. That a client reads, stays or comes is
  not assumed.
* *MediaRetry* relies on no timeout and on no answer: `WF` of the handlers and of a
  download's own steps.

## 4. What is proved

`tlapm` checks the eight `Proofs` modules completely, some 22 000 obligations. Each
component follows one pattern: an inductive invariant; the initial states satisfy
it; every step keeps it, one lemma or step per action; and then a theorem
`Spec => []P` for each property. TLC checked each invariant on the instances of the
run before it was proved. The constants are arbitrary but for the assumptions named
in the modules, which TLC evaluates on every instance. Most say that bounds are
positive and that distinguished values are distinct; these say more:

| assumption | says | because |
|---|---|---|
| `StoreAssumption` | the user part of a phone number is that of no group, LID or other chat | the queries strip JIDs to that part and compare it; WhatsApp's numbers of each kind have forms of their own |
| `CallIsShort` | the packets of a call, the last frame played, be it noise, and a gap are fewer samples than a time stamp counts | 2^32 samples at 16 kHz are 74 hours |
| `SignalingAssumption` | the caller is a device other than 0 of another user than the callee's | this program is always a linked device (`gows/gows.go:111` and `server/session.go:142` pair it) |
| `ListsAssumption` | the lists of participants name devices of the two users | calls have two parties (`voip/call` has no group calls); `KeysCross` has the rest as its own hypothesis |
| `RelaysAssumption` | a relay's round-trip time is not negative | -1 stands for a relay whose time is not known |
| `OutgoingAssumption` | the people who see a status are listed once each | whatsmeow lists them from the keys of a map of contacts |
| `AudioPathAssumption` | the space of sequence numbers is larger than 2 | half of it must tell a step forward from one back |
| `VideoPathAssumption` | a payload has more than two bytes; no unit is empty | a fragment has two bytes of header, and it has at most 800 (`mtuPayloadMax`, `voip/transport/h264_packet.go:6`); `SplitAnnexB` gives no empty units |
| `MlowAssumption` | a frame has 1 to 255 bytes; a container has 2 to 8 frames | the length of a frame in a container is one byte, and `splitContainer` takes no other count |
| `WireAssumption` | a relay's texts have fewer than 16 384 bytes, a list of streams fewer than 1 000 SSRCs, an answer's attributes fewer than 65 536 bytes with their headers, an RTP header at most 15 contributing sources; integers are as wide as their Go types; a type of STUN begins with two 0 bits | a STUN message counts its length in 16 bits, and `encodeAttribute` does not check it; tokens are some hundred bytes and a call has a handful of streams. `CsrcCount` is 4 bits. An extension is whole words, as the header counts it |

| module, obligations | theorems | what the invariant adds to the properties, and why |
|---|---|---|
| `CallStateProofs`, 138 | `TypeCorrect`, `StampsAreOrdered`, `DurationCorrect`, `EndedStaysEnded`, `ConnectsOnce` | no stamp is later than the clock, and the duration is 0 until the end (`Consistent`): without it, a transition made now could come before an earlier one |
| `CallManagerProofs`, 896 | `TypeCorrect`, `PromotionNeverLost`, `OutgoingHasKeys`, `EndedReleases`, `SendLoopJustified`, `ReportsEndTrue`, `Implementation` | an outgoing call always has its key (`FreshOK`), an Active call has connected; only ended calls are torn down (`TearingDown`); no call is on hold (`StatesOK`) |
| `CallControllerProofs`, 1 395 | `TypeCorrect`, `OvershootBound`, `OneRelease`, `EndedLeaves`, `BridgesAreHeld` | a goroutine past its look-up has a call that was created (`LocalsFit`); only created calls have a manager, a bridge or goroutines, and each is mapped under its own id (`Created`), so that a new call is nobody's |
| `RelayProofs`, 7 392 | `TypeCorrect`, `ListedAlive`, `ListedOpenReal`, `TornDownUnlisted` | a connection is listed under its own id (`ListedAtHome`), so a deletion by another's id is still of a connection of that id; a connection not yet made has no callbacks (`Unmade`); a listed connection whose channel closed will be told (`ChannelTold`) |
| | `WireReadsBack` | every packet of a send is read as it was meant (`AllRead`), which each action shows of the packets it builds; the rest is about the operators |
| `SessionsProofs`, 521 | `TypeCorrect`, `MappedLive`, `StopsOnce`, `ReadersAreHeld` | what an RPC holds was built (`Holds`), and what is mapped, closed or cancelled was built (`UsedIsBuilt`), so that a new instance is nobody's |
| `ServerProofs`, 1 950 | `MarksAreCovered`, `VotesAreCancelled` | the message a mark is about to name is one of those the storage had when the mark looked (`MarkNamesWhatWasSeen`); a vote with a waiter waits for its response, or its second sending failed (`Voting`) |
| | `NoSendIntoClosedChannel`, `NoGaps` | the listeners a forwarder has left are in the map, the map holds exactly the open streams, and only a forwarder with the read lock has any left (`LockIInv`); what a stream got, did not want and missed of a forwarder is complete from its first event to where the forwarder is (`StreamIInv`) |
| | `TimersComeBackByRace` | every message under way carries the timer its chat was given, none, or one that was changed since or had come back (`TimersAreCarried`, `TimersAreGiven`) |
| | `AnswersAreTrue` | as long as nothing failed, what a request sent is what its batches so far were to send, each once (`SentAreBatches`); an ok says that nothing failed and no batch is left, an error that something failed or nothing was tried, but for the deadline (`Tally`) |
| `StorageProofs`, 3 150 | `GroupTypeCorrect`, `StoredVersionIsTrue`, `SettingIsOfGroup`, `CopyCatchesUp` | who is between `Lock` and its end holds the lock and nobody else has a copy in hand (`LockFits`); a copy in hand or stored is of a version the group had, and an update leads from one version to the next (`VersionsFit`); what is stored is at least as new as every notification that is done (`CatchesUp`) |
| | `StatusFalls`, `NullIsExplained`, `ChatListAgrees` | a handler is at a step of its kind of event (`HandlersFit`), rows are of events and filed under their names (`RowsFit`), an association waits or has waited (`LabelsFit`), the two columns of the LID map are one to one where they must be (`LidsFit`) |
| | `RetryTypeCorrect`, `OneSender` | what a handler holds is an answer |
| `MediaProofs`, 6 595 | `IndexesCross` | the sender's roll-over counter is the number of wraps (`SenderCounts`); unless a packet was late over a wrap or a connection wrote on after another's wrap, the receiver's is that of the last packet stored whenever no connection has raised it and not yet stored, and a connection between its steps that met no wrap finds the counter of its own packet, or the one before when it is about to raise it (`RocFollows`) |
| | `PlaybackKeepsTime` | what was played reaches to the last frame plus the way back (`PlayFits`) |
| | `KeysAreCrossed`, `StreamsAreCrossed` | every stanza under way says what its sender's manager had when it sent it (`MailIs`), each end's keys are a function of its list (`CallerIs`, `AnswererIs`), the caller names only the device that answered (`AnsweredIs`, `PeerIs`), an answerer knows the caller from the offer (`AnswererHears`) |
| | `RelaysAreListed` | an ack under way has the relays some server gave (`AcksAreGiven`); the rest is about the operators (`ParsedAreComplete`) |
| | `UnitsArriveWhole` | packets are sent in groups, one group to an access unit, numbered in a row, the marker on the last (`SentInGroups`); a receiver that follows a group from its first packet is in step with it: the depacketizer's buffer and the frame buffer hold exactly what the packets so far stand for (`InStep`); a group no packet of which was disturbed is alone in what is collected (`CleanIsAlone`) |
| | `FramesPlay` | what was played is `DecodeFrame` of each frame sent, in order (`PlayInv`); the rest is about the operators (`ContainerSplits`, `RedTakenApart`, `DecodeFrameIs`) |

The arguments in short.

* *Calls.* `PromotionNeverLost`: the call becomes Connecting only in the critical
  section that reads `HasConnection`, and remembers the answer in `local.hasConn`; a
  relay that opens afterwards has a callback that is counted. So either the accept
  handler or a callback is still to come, and the callback finds the call Connecting.
  `OutgoingHasKeys`: `initSrtpKeysLocked` runs in that same section with the key the
  call was offered with. `EndedReleases`: a promotion is legal only from Connecting,
  so once the call has ended no late handler starts a send loop. `ReportsEndTrue`:
  the one report made outside the lock, `OfferReport`, is followed by an `OfferEmit`
  or by a report under the lock. `Implementation`: each action of the manager is a
  `Create`, an `Attempt` of one transition, or leaves the call alone.
* *Controller.* `OvershootBound`: a call enters the map by a creator, which stops
  being one in that step, and a creator has seen fewer calls than the limit.
  `EndedLeaves`: a call ends in a step that raises `pending`, and whoever takes the
  id of an ended call has its own entry. `OneRelease`: to leave the map and to
  release are one decision, made by whoever finds the call under its id.
* *Relays and sessions.* `ListedAlive`: whatever ends a connection deletes under its
  id in the same critical section, and the only writer outside the lock, `OnOpen`,
  writes a live state. `StopsOnce`: taking an instance out of the map and deciding
  to stop it are one critical section, and an instance is built once.
* *Requests and streams.* `NoSendIntoClosedChannel`: a stream leaves the map and
  closes its channel under the write lock, when no forwarder has listeners left.
  `NoGaps`: between two hand-outs to one stream a forwarder counts each event it does
  not hand out as missed. `MarksAreCovered`: the storage numbers messages in the
  order it gets them, so one stored after the read is later. `AnswersAreTrue`:
  batches have no place of the list in common (`ChunksAreApart`), the list names
  nobody twice, and an ok says that every batch went out. `ValidParticipants` is a
  recursive function; that it keeps exactly the valid ones is proved by the least
  prefix of which it would not be true (`StepsExist`, `AllUpTo`).
* *Storage.* `StoredVersionIsTrue`: an update is applied only to the version it
  starts from, and a refill is the server's present group. `StatusFalls`: a receipt
  writes over the row it read, or the row was changed in between, which the property
  names. `ChatListAgrees`: the merge in memory takes the later of the two entries a
  person may have, and no third exists because the phone number determines them.
* *Media.* `IndexesCross`: a step of fewer than half the space is counted right in
  either direction, by arithmetic on quotients and remainders; `~skewed` says the
  steps were such. Between the steps of `updateRoc` another connection changes what
  was read only by counting a wrap, and that puts every connection between its steps
  into `crossed`; the first of these that writes makes `torn` true. `PlaybackKeepsTime`
  asks nothing of the indexes: each frame adds what it is long, and the way back is
  the difference to where it belongs. `KeysAreCrossed`: `findOurDevice` and `firstPeerDevice` return,
  of a list that names no other device of that user, the device itself or nothing,
  and what an end falls back to then is the same device in another form, which
  `ensureDeviceJid` makes equal. `ParticipantJids` is recursive; that it lists what
  the children name is proved by the least prefix that it would not
  (`WFMin` on the naturals), which needs no induction rule. `RelaysAreListed`:
  `SortRelaysByRtt` gives a relay the place after all that stand before it; in a
  finite order that is a one-to-one map into as many places as there are relays
  (`PlacesAreTaken`), so every place is taken and no relay is lost.
  `UnitsArriveWhole`: of any access unit and any MTU, the payloads of its units lie
  one after the other (`LaidOut`), a single unit, an aggregate or fragments
  (`UnitStep`); each payload takes a depacketizer that has seen the ones before to
  where it has seen this one too (`PayloadStep`), and the last gives the whole unit.
  The theorem needs `Fits`: TLC showed, when the instance got a unit longer than
  `MaxReassembly`, that such a unit is dropped, and that it takes nothing else with
  it. `FramesPlay`: what lies in a container or before a redundant frame is found by
  a recursive function of the offsets (`FramesAt`, `RedAt`), which is shown to agree
  with the places `FlattenSeq` put the frames at (`PartsLaidOut`); which bytes stand
  for sound is arithmetic on the bits of the first one (`SoundingBits`).
* *Wire.* What a reader sees of a packet follows from what lies where in it
  (`Holds`). Attributes written one after the other begin where `AttributesAt` looks
  for them (`AttributesAtIs`) and are read with their own lengths, whatever their
  padding (`AttributesParsed`); as every one of them has at least four bytes, the
  parser gets to the last (`LaidOutLengths`). The header that is hashed for the HMAC
  differs from the one sent only in its length, which is the one a reader puts in its
  place (`UnderIs`, `Signed`); the fingerprint likewise, over all that comes before
  (`StunVerifies`). A varint ends at its first digit with nothing left above it
  (`VarintWritten`), so a reader stops there and adds up the number (`VarintRead`);
  fields of protobuf follow like attributes (`FieldsRead`), and the entries of a list
  are those of its streams that are not 0, in order (`ListAsks`, `AskedRead`). An RTP
  header is two bytes of bits (`FirstByte`, `SecondByte`) and parts at offsets that
  the bits give (`HeaderFields`, `ExtensionRead`). No message is longer than its
  16-bit length says, which is where `WireAssumption` is needed (`GoodIs`).
  The lemmas on least elements and on sequences laid end to end stand in
  `MediaProofs` and here, because their components define the same names.

Some theorems are about properties that no run has, because what the run has is
stronger or the theorem is for every size anyway: `StampsOrdered`,
`DurationIsConnectedTime`, `ConnectsOnceAfterAccept`, `OutgoingActiveHasKeys`,
`SendLoopNeedsMedia`, `TornDownIsUnlisted`, `StoppedOnce`, `NoStrayReader`,
`WaiterIsSender` and the type invariants.

**Only model-checked.**

* Liveness, for TLAPS has no rule for fairness here: `EndedIsForgotten`,
  `OutgoingReachesActive`, `DialSettles`, `EventsFlow`, `AnswerEndsWait`,
  `SlowClientHoldsUpNobody`; and the four runs that expect a violation, which need
  none.
* `DecoderReadsBack` and `DecoderInStep`: `RangeCoder` and `SmplFrame` have
  `RECURSIVE` operators, which the prover cannot work with, and what they compute
  for every input is induction over data.

## 5. What the code does and its documents do not say

The four runs that expect a violation are described under `findings`. Further
statements of the repository are written down in the modules, are false in the
models, and are not among the runs:

* `CallManager!PeerKeyIsKept` (`voip/call/callmanager_srtp.go:71`): the offer ack
  handled after the accept initialises SRTP again with the call's own key.
* `CallManager!EndedReleasesRelays`: a handler under way connects relays after
  `relay.Cleanup` has run.
* `CallController!LimitHolds` (`voip/callctl/controller.go:73`): the limit is read
  and the call inserted in two critical sections; `OvershootIsBounded` is what holds.
* `CallController!ShutdownReleases`: `onActive` opens a file after the cleanup.
* `SctpRelay!CleanupClosesAll`: a goroutine that has listed its connection and not
  yet made its peer connection makes it after `Cleanup`.
* `Sessions!StartedHasReader` (`server/session.go:85`): a stop in the middle of a
  start leaves a subscription to the dead instance, and the next session is read by
  nobody. A `Start` that looked the session up before a stop connects the stopped
  instance again, with its container closed.
* `MediaRetry!FreshIsKept` (`gows/gows.go:80`): a download whose answer failed
  deletes the cache entry of the message, which may be a fresh one by then.
* `MessageStore!StatusReceiptsIgnored` (`gows/storage_event_handler.go:253`):
  receipts of the status broadcast are logged as ignored and then handled.
* `MessageStore!FilterFindsChat` (`storage/sqlstorage/message.go:214`): a list asked
  for a LID that no phone number is known for does not find the chat that the whole
  list shows under it.
* `MlowPayload!OnlyMainIsDecoded` (`voip/media/mlow/decoder.go:84`): "Decode only the
  main; the redundant copies are FEC", and line 68 promises 960 samples of a payload;
  the code plays every frame of a container, as a comment at line 92 says.
  `FramesPlayInOrder` states what the code does. If the frames before the last are
  copies after all, they are heard twice.

What the escapes in the properties stand for:

* `StatusFallsOnlyByRace`: a receipt that read the row before another wrote it, a
  history sync or the message itself coming after a receipt, lower the status; a
  revoke between a receipt's read and write is undone.
* `CaughtUp`, `SettingFollowsGroup`: `DeleteGroup` and `UpsertOneGroup` take no lock,
  so a group I left stays listed, or one I joined is missing, until the next refresh.
* `OldTimerComesBackOnlyByRace`: a message built before a change of the timer and
  stored after it restores the old timer, which every later message then carries.
  A reset handled in the second of the setting it resets, or by a clock that is
  behind, leaves it (`storage/sqlstorage/chat_ephemeral_setting.go:57`).
* `VotesLeaveNoWaiter`: an error of `RetryFrame` is returned without
  `CancelResponse` (`gows/newsletter.go:305`), so the waiter of the second sending
  may stay (`RetryFails`).
* `IndexesAgree`: a packet that comes late over a wrap counts the wrap twice
  (`skewed`), and every later packet is decrypted with the wrong index; so does a
  first packet from after the wrap. Two connections that handle packets on either
  side of a wrap at once may both count it, or one writes an older sequence number
  over the newer one and the wrap is counted again (`torn`,
  `voip/media/srtp.go:124`); for a single packet it is enough that the wrap is
  counted between its `updateRoc` and its index (`crossed`).
* `PlaysInTime`: every frame that comes late, or while longer noise is still playing,
  adds its delay for good, for the next one fills the way back with silence.
* `SubscribedToPeer`: an ack handled after the accept names the first listed device
  as the peer, whoever answered. Sound of the peer that comes afterwards puts it
  right, unless some had come before (`actualPeerSet`).
* `NoOrphanBridge` takes a bridge as held by its call, also by one that was cleaned
  up while `AttachWebRTC` was under way (`voip/callctl/controller.go:123`): that call
  is out of the map, so nothing but its own peer connection will close the bridge.
* `SettingFollowsGroup` and `ViewsAgree` take each statement of SQL, and each query
  for a list of chats, as one step that succeeds: a timer whose write fails is only
  logged (`gows/storage_groups_cache.go:73`), and a change in the middle of a merged
  query is not modelled.
* `KeysCross` assumes that the server lists no other device of a reader's own user
  and lets one accept pass; otherwise `findOurDevice` takes the other device's JID.
* `AnswerIsTrue`: a status of which one batch fails is an error, though others went
  out; a status to participants of whom all are LIDs goes to nobody and answers ok.

Seen while modelling, and plain from the lines:

* `server/labels.go:118,132` drops the error of `ParseJID`: a label is added to the
  empty JID. `server/labels.go:80` returns labels that are null.
* `server/messages.go:896` drops the error of `BuildEventUpdate`.
* `gows/build.go:145` dereferences the content of a quoted message, which is nil for
  some stored ones; the interceptor turns the panic into an error.
* `gows/build.go:164` finds no context in polls of later versions, events and
  buttons, so their timers are not seen.
* `gows/ephemeral.go:118` leaves the expiration of a history sync at 0.
* `voip/call/callmanager_signaling.go:113`: the session that an accept's key makes is
  overwritten in the same handler.

## 6. Not modelled, and what is left

Left out for good: the signal processing of the MLow codec (`celp_enc.go`,
`pitch_enc.go`, `lpc.go`, `synth.go`, `noise.go`, `postfilter.go`, `perc.go`,
`vad.go` and their tables, a third of the implementation: floating-point arithmetic on
buffers, without states to explore); start-up, environment, profiling, logging,
link previews and images (`main.go`, `env.go`, `log`, `media`); generation of SQL,
migrations and the mapping of columns; and what libraries do under the code
(pion's WebRTC, whatsmeow, the database), which the models replace by every outcome
the code distinguishes. Unused outside tests, and left out or kept only as the
inverse of something used: `BuildRelayLatencyStanza`, `DepackSplitRed`; `RejectCall`,
`Hold`, `Resume` and mute of a manager.

What could still be modelled, in the order of its weight:

1. `CallController` with `Sessions`: `Shutdown` with real calls in place of the
   counter. Each is checked with the other reduced, and the product is large.
2. The encryption of poll votes and event responses, and `server/storage.go`'s
   conversions, as far as a property depends on them.
3. Proofs: `DecoderReadsBack`, with `RangeCoder`'s loops as functions of the number of
   steps, as in `Wire`; the carry over a run of held-back octets is the hard part.

Modules that are proved about keep to functions and folds; only numeric modules
that TLC alone evaluates use recursive operators.

## 7. Running it

    tlc -workers 2 -config MCCallManager.cfg MCCallManager
    tlc -workers 2 -config MCCallControllerEnds.cfg MCCallController
    tlapm CallManagerProofs.tla

Each run takes under two minutes on two workers. The module of a run is named under
`runs` in `PROJECT.json`; configurations that do not have the name of their module
are `MCCallManagerIncoming` (of `MCCallManager`), `MCCallControllerEnds` (of
`MCCallController`), `MCSessionsStop` (of `MCSessions`) and `MCServerRevoke` (of
`MCServer`).
