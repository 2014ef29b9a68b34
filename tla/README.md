# Confa: a verification development

Confa (`src/`) is a video-conferencing service. Its back end is a set of Go
services under `src/services`; this directory models the parts of them in which
goroutines, processes, requests and queue jobs interleave, checks the models with
TLC, and proves their safety properties with TLAPS for every value of the constants.

Contents: [the system](#the-system), [modules](#modules), [runs](#runs),
[proofs](#proofs), [disagreements found](#disagreements-found),
[not modelled](#not-modelled), [plan and what is done of it](#plan).

## The system

### Services and packages

| part | code | state it keeps | operations | talks to |
|---|---|---|---|---|
| tracker runtime | `tracker/tracker.go` | registry (room, role) -> entry, wait group, shutting-down flag | StartTracker, StopTracker, Run (GC and shutdown), closeTrackers | RPC handlers of `cmd/tracker` call it; it calls newTracker and Tracker.Close |
| record tracker | `tracker/record` | closed flag, wait group of writers, one temporary file per track | NewTracker (callback), writeTrack, Close, RecordStarted, RecordFinished | media room, object storage, queue |
| AVP | `cmd/avp/queue`, `internal/dash` | none but temporary files | processTrack under AutoTouch, ConvertVideo, ConvertAudio | queue, object storage |
| recording books | `room/record`, `cmd/rtc/queue` | one document per recording | FetchOrStart, Stop, UpdateRecords; updateRecordingTrack | queue, database |
| event room | `event/shared.go` (Room, SharedCursor) | linked list of the last events, number of opened cursors | Next, SharedCursor, Close; cursor Next, Close | source cursor (change stream); peers |
| shared watcher | `event/shared.go` (SharedWatcher, sharedRoom) | room id -> room, shutting-down flag | Watch, Serve (GC), Shutdown | peers of `cmd/rtc/web`, event rooms |
| event store | `event/mongo.go`, `beanstalk.go`, `cmd/rtc/queue`, `cmd/rtc/web/graph.go` | events of a room | EmitEvent, storeEvent, Create, Fetch, Watch; the query events | database, queue, the iterator of the web client |
| peer connection | `cmd/rtc/web/peer.go`, `event/peer` | three workers, one context | Serve, Close, SendMessage, SendReaction | web socket, shared watcher, queue |
| talk recording control | `confa/talk/user.go`, `cmd/confa/queue`, `cmd/rtc/rpc`, `cmd/tracker/rpc` | state of a talk, recording document, tracker | start, stop and autostop jobs; StartRecording, StopRecording | queue, RPC, database |
| confas and talks | `confa`, `confa/talk`, `cmd/confa/web` | documents | create, update, delete, fetch | database |
| profiles | `profile` | document, uploaded and public objects | UpdateAndRequestUpload, Update | queue, object storage |
| users and sessions | `user`, `session`, `cmd/iam` | documents | GetOrCreate, passwords, sessions | database, queue |
| recording notice | `cmd/confa/queue` | jobs of two tubes | recordingUpdate | queue, talks, confas, sender |
| sender | `sender`, `cmd/sender` | none | send an e-mail per job | queue, IAM, profile |
| process assembly | `cmd/*/main.go` | one process per service: its goroutines, its context | main, the workers of the consumer | signals, queue, orchestrator |
| platform | `internal/platform`, `internal/auth`, `internal/routes` | backoff counter | adapters | external programs |

(Paths are relative to `src/services`.) Components call each other by RPC (twirp),
by jobs on a beanstalk queue, which delivers a job at least once, and inside one
process by method calls, callbacks and shared structures behind mutexes.

### What is hard in it

* Two locks that are never held together: `Runtime.mutex` protects the registry of
  trackers, every entry has its own mutex for the slow calls; state found under the
  first is used under the second.
* A GC that closes what looks unused (`Runtime.Run`, `SharedWatcher.Serve`) against
  calls that take the same entry into use.
* Wait groups that are counted on one path and not on another.
* A list that a publisher appends to and evicts from while readers walk it without
  its lock.
* A pipeline of jobs that are delivered at least once, late and in any order, by
  workers that crash or lose their reservation.
* Shutdown of each of these while calls are under way, in the order main chose, and processes that fail
  in the middle of a job and are started again.
* A web socket with three workers of which any may end first, and an event that is
  stored by another process while the peer that emitted it opens its cursor.
* Requests that make several calls to a database with nothing that holds them
  together, while other requests write the same documents.
* An object that is read, converted and removed by a job while its user posts another
  to the same path.

`PROJECT.json` lists every such hazard at its line with the properties that cover it.

### What makes each component correct

* Tracker runtime: never two trackers in an entry; Run returns only after the last
  tracker is closed and never before one that is still being created; expired
  trackers are collected; shutdown ends.
* Event room: a cursor sees each event after its opening once and in order, and is
  thrown out only if it is too slow; a closed room ends all cursors.
* Shared watcher: an iterated room can be found or is being closed; a room in use
  since before the sweep of the GC is not removed by it; a closed room is not iterated; Watch and Shutdown return.
* Record tracker: Close waits for what it admitted, and ends.
* Process assembly: an interrupted process ends, if the tracker's runtime lets it, and cuts off nothing it waits for; no job is lost however
  often its process fails.
* AVP: an attempt never loses the track; a job ends unless its reservation lapses
  for ever; an update is never premature.
* Recording books: they say only what is true and never forget; an announced
  recording can be watched.
* Talk recording: the state of a talk, its recording's document and the tracker
  advance together; peers are told once; a stop takes effect and no late start undoes it.
* Event store: what the queue took is stored once; reading by pages gives every
  event once and in order.
* Peer connection: "left" is the last a session says; a peer sees its own "joined"; a
  session that starts to end ends completely.
* Profiles: a shown avatar exists; a posted file is used before it is removed.
* Confas and talks: a confa goes after its talks; nobody deletes another user's talks.
* Recording notice: the owner is told although two queues are between.
* Users and sessions: one user of one address; a logout of all leaves no older session;
  a change of the password replaces the one that was checked.

## Modules

    MCTrackerRuntime -> TrackerRuntime <------------------- TrackerProofs
    RecordTracker <- ServiceProcess <---------------------------'
                     (one tracker in detail, and the process it runs in)

    EventFeed <..implements.. EventRoom <------------------ EventProofs
    EventStore <- PeerEvents <---------------------------------'
                  (cursors abstracted to positions)

    TrackUpdates <- TrackProcessing <---------------------- RecordingProofs
         |           : implements                              |
         '-- <- TrackProgress <- RecordingBooks <--------------'
                                 RecordingBooks <- MCRecordingBooks

    MCSharedWatcher -> SharedWatcher <- SharedWatcherProofs      (rooms abstracted to counters)
    TalkRecording <- TalkRecordingProofs         (the tracker abstracted to one state)
    ConfaCatalog <- RecordingNotice <- RecordingNoticeProofs
    ProfileUpdate <- ProfileUpdateProofs
    Accounts <- AccountsProofs

`A -> B` and `B <- A` say that A EXTENDS B. An MC module adds a symmetry set, and
`MCRecordingBooks` a bound on the queue. Three proof modules extend two components each, because they belong to one story
(a tracker and its registry, an event and its way to the peers, a track and the books about it); so that no name is
defined twice there, the variables, `Init`, `Next`, `Spec` and `TypeOK` of RecordTracker, ServiceProcess, PeerEvents and
TrackProcessing carry the prefix `tracker`, `process`, `peers` or `processing`.
Operators whose comment begins with "Variant" are faulty forms of the operator
that follows them. No action uses them; each names a plausible mistake in the code
that one of the properties excludes.

### TrackerRuntime

Models `tracker/tracker.go`. A goroutine between a Lock and its Unlock without a slow
call is one action; `newTracker` and `Tracker.Close` are two actions each (StartCreate
and StartReturn, CloseBegin and CloseEnd) with the entry's lock held between them.
`trackers`, `shuttingDown` and `trackersClosed` are the fields of `Runtime`; `entry` has
the fields of `trackerEntry` and two counts the code keeps only implicitly: `closers`,
the goroutines of closeTrackers that have not locked the entry, and `running`, the
trackers that were created for it and not closed. `mutex` is "leaked" after a
StopTracker that found nothing (line 112 returns without Unlock), and `env.crashed` is
the nil dereference of line 203. The GC loop visits one key per action because
StartReturn and the closers change statuses without the runtime's mutex. Left out:
`Runtime.ctx`, which is only the parent of the contexts of the entries.

### EventRoom and EventFeed

Models `Room`, `SharedCursor` and `eventNode`. Nodes are named by their position, so that
`node` of a cursor, `head` and `tail` are numbers and `evicted` is the set of nodes
whose flag is set. Publishing and evicting are two actions because cursors do not take
`Room.m`; closing evicts one node per action. A cursor is between calls ("idle"),
in the select ("waiting") or has got an error ("ended"). EventFeed is what peers rely
on: readers with a position and three reasons to end. The refinement maps `head` to the
number of published events and a cursor to a reader.

### SharedWatcher

Models `SharedWatcher` and `sharedRoom`. A room keeps the count of its cursors, the state of
its iterating goroutine, the wait group `iterator` and where its Close is. `NewSharedWatcher`
returns with the lock held until Serve starts, as in the code. A failed start and a failed
iteration leave `iterator` counted (lines 171 and 183), the zero id of a room that was not
started makes the delete of the GC a no-op (line 84), and Close of such a room is the nil
dereference `env.crashed` (line 212). The GC counts the cursors of a candidate (`SweepChecks`) and
removes it (`SweepRemoves`) in two actions, because a Watch that holds the room opens its cursor without the watcher's
lock and may do so in between: such a cursor ends with its room. `serve.kept` is history, the calls whose cursors are
open since before the sweep and whose rooms must stay. Shutdown is called by Serve when its context ends and
may be called directly, once.

### RecordTracker, TrackProcessing, TrackProgress and RecordingBooks

RecordTracker is one `record.Tracker`: callbacks, one goroutine per track, and concurrent
closers. `trackerMutex` is `Tracker.mutex`, held by a closer or by `Nobody`; the callback's use of it is one action.
Every external call may fail, and what is put on the queue is remembered. TrackUpdates declares the tube of updates, which
TrackProcessing fills and RecordingBooks empties.
TrackProcessing repeats the tracker's steps as seen from the queue (`Announce`, `Upload`,
`Finish`, `Finished`) and adds the workers of the AVP: reservation, lapse, the converter's
download, upload and removal, retries, burying and crashes. It implements TrackProgress: a
track is recorded, queued, then converted, and updates never say more than that.
RecordingBooks takes TrackProgress as its environment and adds the document, the handlers of
updates and the announcement. A handler's read of the document and the entry of its update
are one action, as `UpdateRecords` is one FindOneAndUpdate; what it decides is used later.

### ServiceProcess

Models `cmd/*/main.go`: a behaviour follows one of the seven services. `RtcMain` to `GatewayMain` say which goroutines a
main starts and in which order it stops them after an interrupt; `process.todo` is what main still has to do. main derives
the context for `Server.Shutdown` from the one it then cancels, so Shutdown waits for no request. The workers of the consumer
(`Take` to `Retry`) are those of the vendored library: the handler's context is never cancelled, a worker returns between
jobs, and what a process has reserved is released when its connections close (`Released`). A handler has its effect,
then puts a job if it is one of `Emitting`, then deletes its own; rtc and confa stop the producer first, so
that in their shutdown the second may fail. In the tracker service one RecordTracker runs along (`Records`): of the runtime there is
its call of Close and what keeps its Run from returning (`runtime`, with the actions `StartOvercounts` and `StopLeaks`;
how a request comes to do that is in TrackerRuntime), a stopped producer puts nothing, and since uploads use main's
context, those that begin after the interrupt fail (`late`). `Crash` is a failed server, a panic or a signal other than the interrupt.

### TalkRecording

Models the recording of one talk across four services. `talk` is `Talk.State`, `doc` the
recording's document, `tracker` what the tracker service has for the room, `events` how
often peers were told. The owner reads the talk in one action (`Request`) and puts a job in
another (`Answer`), as `User.StartRecording` does. A handler of the confa service takes a ready
job (`Take`) and makes one external call per action; `fetchOrStart`, `startTracker` and
`emitStarted` are the calls that `rtc.StartRecording` makes for it, `stop`, `stopTracker` and
`emitStopped` those of `rtc.StopRecording`. Between any two of them the handler may give up
(`GiveUp`: a failed call and a release, a crash, a failed delete), and the job may be taken
again, by another handler too while the first works on: the reservation of 30 s is
not renewed. `Advance` is `talk.Mongo.UpdateOne` with `StateIn`, whose ErrNotFound also deletes the job.
`StopTracker` of a tracker that is not registered leaves the runtime's mutex locked, as
TrackerRuntime has it; `leaked` then blocks every call of the tracker service.

Assumptions, each from a constant of the code: the delay of an autostop (60 min) ends only
when the start job that put it, which is at most 2 min old, is settled; the tracker does not
expire (1 h) while the call that has just renewed it goes on; the age after which a job is
buried is a choice of `Bury`. Deleting the talk or its confa meanwhile is left out here
and part of RecordingNotice.

### EventStore and PeerEvents

EventStore follows an event from `EmitEvent` (the time is taken from the emitting service's
clock `now`, and ids are random, so the order of both is arbitrary) through its
job and `storeEvent` into `log`, the collection in the order of insertion and the
change stream that watchers follow. `createdAt`, `job`, `holder` and `handler` are the event's time,
its job and its reservation; a handler makes one external call per action (`Create`,
`Delete`, `Retry`) and may lose its reservation or its process between them (`Lapse`).
`Filter`, `Precedes` and `Fetch` are `mongoFilter`, the sort order and the limit of `Mongo.Fetch`,
`NextCursor` what the resolver puts in `next`; a reader is the iterator of the web client
that sends `next` back until a page is empty. `Fetch` names the i-th event of a page by what it is, the one that i - 1 of
the events found precede: the order is total and strict, so there is one (`EveryRank` in EventProofs), and proofs can use it.

PeerEvents adds the web sockets. `phase` of a session is where `roomWebSocket`, `NewSocketPeer` and
`SocketPeer.Close` are, `running` its workers, `cancelled` their context, `position` its cursor as a place in
`log` (EventRoom shows why that is what a shared cursor is). A worker that ends cancels the
context (`Ends`), a cancelled context ends the others (`Obey`), and only then does Serve
return and Close act. An emission may fail before or after the queue has the event. The peer's
watch fails with the accepted socket open, as in the code.

### ProfileUpdate

Models `profile.Uploader`, the mutation `updateProfile`, and the handler `updateAvatar` over `Updater.Update`.
An upload form and its job are made in one action, since the form is handed out only if the job is
on the queue (and a failed Put may have put it). The handler's calls are actions of their own: `Check`
(`SkipIfExists`), `Fetch`, `Store`, `Upsert`, `Remove`, `Settle`; a file that is no image is read by `Fetch` and
removed by `Refuse`. All uploads of a user share one path, so `Post`
replaces a file that another job may be working on; `shown` and `refused` remember what became of
each picture. A file is named by its picture and a picture is posted once.

### ConfaCatalog and RecordingNotice

ConfaCatalog models the operations of users on confas and talks. Those of one database call are
one action; `talk.User.Create` (find the confa, create the room, insert) and `talk.User.DeleteConfa` (find the confa,
delete its talks, delete what the lookup finds now) are requests with a step per call.
`swept`, `late` and `strays` are history: confas whose talks a request has deleted, talks inserted
after that, and confas deleted by a request that had found another. RecordingNotice adds the way of the
message that a recording can be watched: the job RecordingUpdate, its handler's two lookups
and its `Send`, and the job of the sender.

### Accounts

Models `user`, `session` and the handlers of `cmd/iam/web`: sessions by a link in a mail or by Google
(`FindUser`, `InsertUser` and `CreateSession`), by credentials, logout, and `CreatePassword`,
`ResetPassword` and `UpdatePassword`. The last is a transaction: `Update` writes only what is as `CheckOld` read it
(`changes` is the version of the document), otherwise the transaction starts again. `since` of a
session is the version of its owner when it was created, `cleared` the version after which all sessions were
deleted, which is how "older than the logout" is said without a clock.

## Runs

All bounds are in the `.cfg` files. Deadlock is not checked: each of these systems
may stop (Run or Serve has returned, the process crashed, a lock is leaked, every cursor
ended, every job is settled); where something must happen a liveness property says so.

| run | result | shows | why the bounds are enough |
|---|---|---|---|
| tracker | holds | one tracker per entry, Run returns last and does return, expired entries are collected | two callers meet on one key; the second entry is the one registered after a GC; three calls allow a start, a stop and a restart, or two concurrent starts, and reach every fault the liveness properties exempt; two expiries make a renewal differ from the first start |
| room_feed | holds | count of cursors, end of cursors, refinement of EventFeed with liveness | capacity 2 and 4 events evict twice; two cursors at different positions |
| watcher | holds | no stranded, or closed and iterated room; a room used since before a sweep stays; unused rooms are collected, Shutdown returns | one call that watches twice, so a room is collected and made again, against the GC and two shutdowns; calls that race each other are covered by `SharedWatcherProofs` for any number of them |
| record_tracker | holds | Close waits for the writers; an interrupted process ends in order unless the tracker's runtime is overcounted or stuck; no job is lost | every service; three starts, so that a process fails before, in and after a shutdown and again when it was restarted; two workers, two jobs of which one puts another; two tracks in different phases, two closers of which one finds the tracker closed |
| processing | holds | no track lost, every job settled, refinement of TrackProgress | two workers on one track at once; three deliveries; two copies of an update |
| books | holds | truthful and growing books, no premature announcement | two tracks, of which one may be known late; two handlers at once, of one update or of two |
| talk | holds | talk, document, tracker and events agree; a stop takes effect | two handlers on one job or on two; the owner starts and stops, starts twice (both requests read LIVE) or stops twice, and the autostop comes on top |
| peer_events | holds | a session says "left" last and sees its own "joined"; events are stored once; pages in descending order are exact; a session ends completely | three events in two milliseconds with pages of one event, so that two events of one time lie on two pages in either order; a message between joined and left; one fault in any call, which is enough to handle a job twice |
| profile | holds | shown avatars exist; a file is used before it is removed, but for one posted in place of a file that is being used or refused; it is used in the end | two jobs handled at once for one user, the second file posted during the first job, the third one no image; a fault anywhere |
| catalog | holds | a confa goes after its talks, by its owner only; the owner is told | two users; a confa deleted and another found by the same lookup; a talk created while its confa is deleted; one fault anywhere, in either queue or request |
| accounts | holds | one user per address; logout of all; no change over another | two requests race on one address, three changes of its password, a session before and after; one fault |
| event_pages | violated | see below | one reader in ascending order, three events |

The longest runs are peer_events (1.1 million states, 2.5 min), catalog (1.0 million, 2 min),
record_tracker (0.5 million) and profile (0.17 million), 2 min each with liveness, and watcher (0.1 million, 1.5 min).
One fault at a time is the bound of the runs with
`MaxFaults`: with one fault a call can fail without effect, fail after its effect, a job can be given to a second
handler, or a process can stop, at every step of every behaviour.

The type invariants and the invariants that only say how a structure is kept (`TypeOK` of each module, `TrackerTypeOK`,
`ProcessTypeOK`, `ProcessingTypeOK`, `WaitGroupCovers`, `Capacity`, `EvictionIsDue`) were checked by TLC first and are
proved now, so that no run repeats them.

Bounds on otherwise unbounded counters: `MaxCalls` and `MaxTime` (requests and clock of the
runtime), `MaxEvents` (events a source delivers), `MaxWatches`, `MaxAttempts` (deliveries after
which a job is too old: the code measures its age), `MaxCopies` (copies of one update on
the queue; a further put is merged with one of them), `ShortQueue` (updates that wait on the
queue in the run books; one that is not there yet may still come, as late as one that
waits), `MaxRequests` (jobs the owner of a talk puts), `MaxTime` of EventStore (milliseconds that pass),
`MaxStarts` (of a process; the last start is neither interrupted nor killed, so that its jobs can end),
`MaxMessages` (of all peers), `MaxMails` (messages of a talk that wait), `MaxChanges` (of a password), `MaxFaults`
(failed calls and lost reservations), and the sets of ids, jobs, pictures, keys, confas and talks, each member of which is used
once. Events of a recording are counted up to two.
Symmetry is used in runs without liveness only, over identities that no definition orders.

### Fairness

* TrackerRuntime: each caller, each closing goroutine and Run take the steps they can;
  newTracker and Close return. Run's shutdown branch has strong fairness because select
  chooses between the timer and the cancelled context at random in every round.
* EventRoom: the iterating goroutine finishes what it does under `Room.m`, and a
  consumer calls Next again (`cmd/rtc/web/peer.go`). The source need not deliver.
* SharedWatcher: strong fairness for what waits for `SharedWatcher.m` or `sharedRoom.m`,
  because Go's mutexes hand over to waiters; an iteration whose context is
  cancelled ends. Nobody is assumed to close a cursor.
* ServiceProcess: main, workers and the tracker's goroutines take their steps, and a failed process is started again
  (`docker-compose.yml:5`). A track need not end before Disconnect; after it ReadRTP returns EOF.
* TrackProcessing: workers finish what they began and take jobs that are offered again and
  again; a reservation nobody uses lapses.
* TalkRecording: a handler finishes or gives up what it began; a job that is ready again
  and again is taken; one that is handled again and again gets too old (strong fairness of
  `Bury`: it does not crash for ever, and `jobRetry` measures its age); delays and the
  tracker's hour pass.
* PeerEvents: a session gets on with what its request does by itself (weak fairness of `Progress`). Nothing makes
  a worker end, a peer speak or an event arrive.
* ProfileUpdate: handlers finish their calls, a reservation nobody uses lapses, and the queue gives out a job that is
  ready again and again (strong fairness of `Take`; beanstalkd is first in, first out).
* RecordingNotice: both services consume their tubes and unused reservations lapse; users do what they like.
* Accounts and EventStore alone state no fairness: nothing there must happen.

Liveness properties name the faults they exempt (`ShutdownTerminates`: a leaked
mutex, a crash, an overcounted wait group or a stranded tracker; `ShutdownEnds`: a runtime that requests made "stuck"
or "overcounted"; SharedWatcher's `Halted`),
each of which is a hazard of the code and reachable in the model.

## Proofs

| theorem | statement | argument |
|---|---|---|
| `RuntimeTypes` | `Spec => []TypeOK` | `TypeInv` adds that a key the GC still visits is registered, without which `trackers[k]` need not be an entry |
| `EntriesHoldOneTracker` | `Spec => []OneTrackerPerEntry` | `EntryInv` adds `LockInv`: an entry's lock is held by a caller exactly while it creates on that entry, and by a closer only while the status is "closing" |
| `RunReturnsLast` | `Spec => [](ShutdownComplete /\ WaitGroupCovers)` | the count of a wait group falls by one only when a tracker is closed, never with a caller; `RefusingInv`: once Run waits no call registers, so a zero count stays |
| `TrackerTypes` | `TrackerSpec => [](TrackerTypeOK /\ writers = Cardinality(CountedTracks))` | the step of a track moves its writer in or out of the counted ones and nobody else |
| `CloseWaits` | `(TrackerSpec \/ ProcessSpec) => CloseWaitsForCounted` | Close returns at a count of zero, and `TrackerInv` says what is counted; every step of ServiceProcess is one of the tracker or a stutter (`ProcessRunsTracker`), so the tracker's theorem holds in the process |
| `ExitsAreOrderly` | `ProcessSpec => []ExitIsOrderly` | `Awaited`: main is past the wait for the workers, or for the runtime, only when they are done, which no later step undoes |
| `DeletedJobsAreDone` | `ProcessSpec => []DeletedIsDone` | `JobsAreHeld`: a job at work is reserved for one worker; `JobsAreDone`: how far that worker is, so that the last step finds the effect done and the next job put |
| `RoomIsSound` | `Spec => [](TypeOK /\ Capacity /\ EvictionIsDue /\ OpenedCursorsExact)` | `RoomInv` adds where the sweep of a closing room is and that no cursor is ahead of the head |
| `RoomImplementsFeed` | `Spec => Feed!Spec` | one case per action: a step of the feed or a stutter, from `RoomInv`: a cursor's node is evicted only if it is more than `Cap` behind or the room closes |
| `EventsAreKept` | `PeersSpec => []NoEventIsLost` | `StoreInv`: only what was emitted is queued, handled or stored, and what a handler is about to delete is stored, by itself or by another |
| `SessionsAreAnnounced`, `CursorsOpenFirst` | `PeersSpec => []LeftIsLast`, `PeersSpec => []OwnJoinIsSeen` | `SessionInv`: what a session has said agrees with its phase (`Announced`, `Ordered`), and nothing it says has a time before its cursor is open, so that it is not in the log by then (`Seen`) |
| `PagesAreRead` | `PeersSpec => [](... /\ (TRUE \notin Orders => PagesAreExact))`: every reading in descending order is exact, and all are where none is ascending | `EveryRank`: the number of predecessors maps the events found onto `1..n`, one to one, so that a page is their beginning in order (`PageOf`); `PagesInv`: what a reading is due it has got or lies after its cursor, which is where its last page ended |
| `WatcherIsInvariant` | `Spec => []WatcherInv` | `WatcherInv`: who uses a room has its key; one call at a time starts a room, under its lock; its wait group counts an iteration from before it starts; a room that was created is in the map or being closed; `CursorsCounted`: a room counts the cursors that are open on it; `SweepChecked`: the room about to be removed is that of no call in `kept` |
| `RoomsAreReachable`, `ClosedRoomsRest` | `Spec => []NoRoomIsStranded`, `Spec => []ClosedRoomIsNotIterated` | parts of `WatcherInv`: `Reachable` and the last line of `Counted` |
| `PeersKeepTheirRooms` | `Spec => UsedRoomsStay` | `SweepChecked`: a cursor in `kept` was counted by the check and stays counted; `CandidatesReachable`: what the GC takes from the map is the room it checked, not one made under the same key |
| `LateCursorsAreTold` | the room of an open cursor is in the map or being closed | `Reachable`: also a cursor that the check missed is not left on a room that nobody finds |
| `TracksAreKept` | `ProcessingSpec => [](ProcessingTypeOK /\ NoTrackIsLost)` | `SourceAgrees`: what the tracker did agrees with storage and queue; `WorkersAgree`: a worker is past the conversion only when the files are there, whoever else has the job |
| `ProcessingImplementsProgress` | `ProcessingSpec => ImplementsProgress` | from the same invariant, one lemma per kind of step: a step of TrackProgress or a stutter |
| `TruthfulBooks`, `AnnouncedIsWatchable` | `Spec => [](TypeOK /\ BooksAreTruthful)`, `Spec => []ReadyIsWatchable` | `BooksInv` adds that every update on the queue is true (stages only advance, so it stays true) and that a handler that is going to announce decided on a stopped recording with converted tracks |
| `GrowingBooks` | `Spec => BooksOnlyGrow` | only Stop and Update change the document; the second adds to one set |
| `TalkTypes` | `Spec => []TypeOK` | `TypeInv` adds that a job in a handler's hands was put |
| `EndedTalkIsStopped` | `Spec => []EndedIsStopped` | `StopInv`: stop jobs and handlers past `fetchOrStart` exist only once there is a document, and those past `stop` find it stopped, which is final |
| `RecordedTalkHasTracker` | `Spec => []NoSilentRecording` | `TrackInv`: a handler past `startTracker` has had one started |
| `PeersAreToldOnce` | `Spec => []EventsOnce` | `EventInv`: one handler at most created the document, one at most stopped it, and each tells once |
| `StateAdvances` | `Spec => TalkAdvances` | from `TypeInv` and `StopInv`, one case per action |
| `AvatarsExist` | `Spec => []ShownAvatarExists` | `InWork`: the avatar that a handler is about to write is in the public bucket, where nothing is removed |
| `FilesAreUsed` | `Spec => RemovedWasUsed` | `InWork` again: the picture that a handler is done with was the avatar or was refused, so that only a file posted after its read is lost |
| `TalksAreNotOrphaned` | `Spec => []TalksGoFirst` | `Prepared`: a request that deletes a confa has swept it; `Swept`: a talk of a swept confa came late, and a confa that is gone was swept or is a stray |
| `TalksKeepTheirOwner` | `Spec => []TalksAreTheOwners` | `OfConfas` and `Prepared`: the request had found the confa among its user's own, and the owner of a confa never changes |
| `UsersAreUnique` | `Spec => []OneUserPerIdent` | `Named` and `Reads`: a request past the search has a user that exists |
| `LogoutIsComplete` | `Spec => []LogoutEndsSessions` | `Owned`: no logout is ahead of the changes of its user, so that a session created later is not older |
| `UpdatesReplaceOld` | `Spec => UpdateReplacesOld` | `Checked`: a user with the version that the transaction read has the password that it checked |

They hold for any number of callers, keys, entries, cursors, rooms, tracks, workers, processes' jobs, events, sessions,
handlers, users and requests, and for every capacity, size and bound, from the assumptions of the modules
(`RuntimeAssumption`, `TrackerAssumption`, `ProcessAssumption`, `RoomAssumption`, `StoreAssumption`, `PeerAssumption`,
`WatcherAssumption`, `UpdatesAssumption`, `ProcessingAssumption`, `TalkAssumption`, `ProfileAssumption`,
`CatalogAssumption`, `NoticeAssumption`, `AccountsAssumption`): numeric bounds, model values that are distinct, and
finite sets where something is counted. The invariants hold whatever the schedule: no theorem uses fairness.
Cardinalities come from FiniteSetTheorems. Each part of a proof module begins with its strengthening and has one step per action.

What the proofs changed in the models: `Stage`, the refinement mapping of TrackProcessing, had a CASE with two guards that hold at
once, of which TLC takes the first and the semantics either; its guards now exclude each other. `Fetch` was a call of a
sorting operator with no definition that a prover can expand, and is now a definition by rank.
And what they say about the program: neither the lapse of a reservation nor a second worker on a job can lose a track, an
event or a job's effect, because the handlers of these jobs write first and delete the job last; and a page has all it must
have, but `PagesAreRead` cannot be had for ascending readings, which is the disagreement `event_pages` below.

Every safety property of the passing runs is a theorem (`PagesAreExact` for descending readings, as in its run), and `ExitsAreOrderly` and `DeletedJobsAreDone` are the safety halves of
`ShutdownEnds` and `NoJobIsLost`. Only model-checked is what must happen: both `ShutdownTerminates`,
`ExpiredIsCollected`, `ClosedRoomEndsCursors`, `UnusedRoomIsCollected`, `ShutdownEnds`, `NoJobIsLost`, `EveryJobIsSettled`,
`StoppedTrackerEnds`, `StopEndsTalk`, `EndedSessionCloses`, `PostedIsUsed` and `OwnerIsTold`. The prover has no rules for
ENABLED, so `ImplementsFeed`, which includes fairness, is proved in its
safety part (`RoomImplementsFeed`) and checked by TLC in full.

## Disagreements found

The run `event_pages` ends with a counterexample: a replay of a recording asks for events in ascending order
(`replay.ts`, which appends every page as the next batch, its comment at 288), but `next` of the query events has no
order (`cmd/rtc/web/graph.go:220`) and the iterator sends it back as it is (`event.ts:93`), so from the second page on the
server answers in descending order from that place (`ReplayGoesForward`). With one page, as in the tests, nothing is seen.

Four more properties state what a comment says and fail. They are kept as definitions, and the runs named below show the
counterexample when their cfg lists the property:

* `LiveTrackerHasContext` (tracker): a restart on a stopped entry gets its cancelled context
  (`tracker.go:85`, comment at 48).
* `ExpiredIsClosed` (tracker): a tracker created on an entry the GC has removed is never closed
  (`tracker.go:76`, comment at 128).
* `UnusedRoomIsCleaned` (watcher): a room that failed to start is never removed (`shared.go:84`, comment at 47).
* `CloseWaitsForWriters` (record_tracker): unlock before `writers.Add` (`record.go:90`, comment at 55).

Seen while modelling and allowed by the models, but not kept as runs: `Run` unregisters an
expired entry before its tracker is closed, so two trackers of one key may overlap
(`tracker.go:155`); `expireAt` is read without the runtime's mutex (`tracker.go:82`); a Watch past
its flag check outlives Shutdown (`shared.go:39`); one failed touch ends the touching, so that a
second worker gets the job (`middleware.go:36`); a Watch that has found its room opens a cursor on it while the GC removes it
(`shared.go:41`, `81`), and the cursor ends at once; a tracker process whose runtime is overcounted or locked never
ends after an interrupt (`cmd/tracker/main.go:136`). And from the modules on requests and stores:

* CreateTalk looks its confa up with a limit of one, so the check "Confa lookup should match exactly one confa."
  (`cmd/confa/web/graph.go:432`) cannot fail, and a lookup that matches several takes any (`StartTalk`); title and
  description overwrite the handle of the request (`graph.go:417`, `420`).
* DeleteConfa deletes the confas that its lookup finds after the talks are gone, which may be another one than the one
  whose talks it deleted (`strays`); a failed deletion is reported as done (`confa/mongo.go:167`).
* The filter of DeleteTalk leaves the speaker out (`DeleteTalk`); UpdateTalk compares its errors with those of
  the package confa, and a lookup that cannot be parsed gives an empty talk and no error.
* A file that is posted while another of the user is processed is removed unread, also when the other is no image
  (`Remove` and `Refuse`, `uploader.go:157` and `199`; the exception in `RemovedWasUsed`). A Google sign-in checks for a profile and writes it in two calls (`Check`, `Upsert`), so it can
  overwrite one that was made in between.
* A logout without a session cookie gives the deletion an empty key, which the filter leaves out:
  it matches sessions of everybody (`Logout`).
* A failed Watch leaves the accepted web socket open (`Watch` of PeerEvents, `peer.go:36`).
* After an interrupt `SharedWatcher.Serve` returns the error of its context (`shared.go:72`) and not ErrShuttingDown, which is what main
  expects (`cmd/rtc/main.go:189`): main's goroutine calls log.Fatal, and the rtc service ends with an error in the middle of its shutdown (`WatcherFails`).
* The tracks a tracker process records when it is interrupted are lost: their uploads have a cancelled context, and when the producer
  was stopped before the runtime closed its trackers, not even a finished upload is announced (`Records`).
* The gateway takes the interrupt and never stops: main is inside ListenAndServe (`cmd/gateway/main.go:76`).
* The 60 seconds that the mains give their servers to shut down have no effect, since the context is cancelled before.

Faults that no document contradicts are exempted by name in the liveness properties (the
leaked mutex of `StopTracker`, the nil dereferences, the overcounted wait groups) and
listed as hazards.

## Not modelled

* Generated code (protobuf, twirp, GraphQL), which is most of the lines no module maps, and vendored libraries: they carry no
  control of this program.
* Backoff: a closed formula over floating point numbers, of which the models keep that a retry comes.
* Platform adapters, conversions, rendering of mails, tokens, cookies and password hashes: input and output without state.
* The web client apart from the iterator over events; deployment; configuration and wiring of processes; HTTP requests in flight
  when a process ends. ServiceProcess leaves out lapsed reservations, which TrackProcessing, EventStore and others have.
* UpdateTalk: titles, descriptions and handles of talks, which no property tells apart. The IAM requests that only mail a
  link. The query recordings: one read.
* Timeline events (StoreEvent jobs) of the pipeline modules: EventStore has what becomes of them.

Hazards without a property are in `PROJECT.json` with their reason.

## Plan

Done: the tracker runtime, rooms and watchers of events, the recording pipeline and its control; then the event store with
pages and peers, profiles, confas and talks with the notice of a recording, users and sessions, and the processes with their
shutdown and restarts; then theorems about all of them, down to the last safety property of the runs. Left, in order of use:
the safety halves of the other liveness properties, in the way of `ExitsAreOrderly` (what `StopEndsTalk`, `OwnerIsTold` and
`PostedIsUsed` rest on: a job that is gone has had its effect); TalkRecording over ConfaCatalog, so that a talk can be deleted
while it is recorded.
