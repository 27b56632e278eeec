# SandyGram: updates, requests, chat histories and downloads in TLA+

SandyGram is a desktop Telegram client, a fork of Telegram Desktop with the
AyuGram additions. This directory holds TLA+ modules for the parts of it that
are concurrent protocols, the TLC configurations that check them, and proofs
for TLAPS. `PROJECT.json` is the index: components, runs, the mutants that show
each property can fail, and, for every definition, the source lines it models.
Paths below are relative to `src/Telegram/SourceFiles/`.

    tlc -workers 2 -config MCCommonSafety.cfg MCCommonUpdates.tla
    tlapm CommonUpdatesProofs.tla

## 1. The system

### From the socket to the data

    server <-> SessionPrivate (its own thread) <-> SessionData <-> Session (main thread)
                                                                      |
               callbacks of requests  <----------------------  MTP::Instance
               pushed `updates`       ---->  Api::Updates  ---->  Data::Session
                                              |     |                 |
                                     PtsWaiter (common, channels)   History,
                                                               Data::Histories
    MTP::Instance <---- DownloadManagerMtproto <---- loaders, streaming, preloads
    MTP::Instance <---- updateOnline(), AyuWorker (the user's status)

| component | state | operations | how it is reached |
|---|---|---|---|
| `PtsWaiter` (`data/data_pts_waiter.*`) | `_good`, `_last`, `_count`, the skipped queue, `_requesting`, two waiting flags | `init`, `updateAndApply` (with an update or without), `applySkippedUpdates`, `setRequesting`, `setWaitingForSkipped`, `setWaitingForShortPoll` | called by `Api::Updates` and `ChannelData`; calls back to apply an update and to start the owner's timer |
| `Api::Updates`, common box (`api/api_updates.cpp`) | a `PtsWaiter`, the by-pts and after-fail timers | `mtpUpdateReceived`, `applyUpdates`, `getDifference` and its answers, `mtpNewSessionCreated` | pushes and `new_session_created` from the session, results from `ApiWrap` |
| `Api::Updates`, channels (same file, `data/data_channel.*`) | a `PtsWaiter` per channel, timers per channel, the chats shown in windows | `feedUpdate` for channel updates, `getChannelDifference` and its answers, short polls, `addActiveChat`, `ptsReceived` | pushes, results, dialogs with a pts, windows |
| `Api::Updates`, container order (same file) | `_updatesSeq`, `_bySeqUpdates`, `_bySeqTimer` | `applyUpdates` for `updates` and `updatesCombined`, `setState` | as the common box, whose differences set the seq |
| `Api::Updates`, online status (same file, `ayu/ayu_worker.cpp`) | `_lastWasOnline`, `_lastSetOnline`, `_isIdle`, two timers; the worker's mark and timer; two ghost settings | `updateOnline`, `checkIdleFinish`, `isQuitPrevent`, `runOnce`, `markAsOnline` | focus, input, timers, `updateUserStatus`, settings, quitting |
| `SessionPrivate`, receiving (`mtproto/session_private.cpp`, `mtproto/details/mtproto_received_ids_manager.cpp`) | received ids, pending acknowledgements, the session id | `handleReceived`, `handleOneReceived`, `registerMsgId`, `shrink`, `changeSessionId`, `restart` | bytes of the connection |
| `SessionPrivate`, sending, with `Session` and `Instance` (`mtproto/session*.cpp`, `mtproto/mtp_instance.cpp`) | `toSend`, `haveSent`, `_resendingIds`, `_ackedIds`, `_parserMap`, `_delayedRequests` | `sendRequest`, `cancel`, `tryToSend`, `requestsAcked`, `resend`, `resendAll`, `checkSentRequests`, `processCallback`, `onErrorDefault`, `checkDelayedRequests` | callers on the main thread, the network on the session's thread, two locks between |
| `Data::Histories` (`data/data_histories.cpp`, `history/history.cpp`) | per chat: sent and postponed requests, read to send and sent, the flag to ask for the entry again; for all: entries pending and requested, one timer | `sendRequest`, `finishSentRequest`, `cancelRequest`, `requestDialogEntry`, `sendDialogRequests`, `dialogEntryApplied`, `readInboxTill`, `sendReadRequests`, `deleteMessages`, `deleteAllMessages` | everybody who reads or changes a chat; the fork's ghost mode |
| Downloads (`storage/download_manager_mtproto.cpp`, `media/streaming/media_streaming_loader_mtproto.cpp`, `storage/file_download_mtproto.cpp`, `data/data_media_preload.cpp`) | per datacenter: the queue, sessions with what is requested in each; per task: sent requests, CDN hashes, parts that wait for them | `enqueue`, `remove`, `checkSendNext`, `requestSucceeded`, `removeSession`, `killSessions`, `partLoaded`, `switchToCDN`, `cancelRequest`, `load`, `cancel` | players and savers of files, answers, timers |

What makes each correct:

* a box never passes an update that is not in the data, whatever path brought
  the others; a gap is repaired in the end; while `_requesting` drops pushes
  there is exactly one thing due that ends it;
* containers are fed in the order of their `seq`, none skipped;
* the user is shown online when he is present and does not hide, and comes to be
  shown offline when he hides; a session that quits told offline last, unless the
  system is saving its session;
* a message of the server is handled at most once per session, acknowledged only
  if handled (but for one at which a container breaks off), and acknowledged in
  the end;
* a request whose caller waits is always somewhere: queued, sent and remembered,
  answered and not yet dispatched, or delayed for a retry; it is answered in the
  end, executed once per session, and not sent again once answered;
* a page of history is never out together with a deletion of the same chat, the
  deletions put it off and it is asked for in the end; an entry that became old
  on its way is asked for again; what is shown as read is told to the server;
* every part of a file is in one place at a time, the counts by which requests
  are balanced agree with the requests, and a download ends.

### What is hard here

* Updates of a box arrive over four paths that do not know of each other: pushed,
  inside results, as bare counters (`affectedMessages`), with a difference.
* State outlives the request it belongs to: `_requesting` is set until an answer,
  an error or a timer clears it, with early returns along the way.
* `setState` feeds buffered containers by recursion into `applyUpdates`.
* One timer serves many: gap and short poll of a channel, the delayed reads of
  all chats, the nearest of three deadlines in `updateOnline`.
* The server repeats what is not acknowledged, and the client remembers only the
  newest `kIdsBufferSize` ids.
* Two threads move a request between maps under different locks; connections
  break, and either side may start a new session, between any two steps.
* The fork changes what is compared and not what is kept (`isOnline` and
  `isOnlineOrig`), and clears states that others rely on (ghost mode).
* The next download request is sent by whoever ends the last one, over some ten
  paths that end one.

The list with lines is `hazards` in `PROJECT.json`; each names the properties
that would catch it, or says why none does.

### The rest of the system

Not modelled; `components` in `PROJECT.json` has the sources and reasons.

| component | state and operations | why not, or when |
|---|---|---|
| Typing, pings of the updates (`api/api_updates.cpp`) | `_lastTypings`, no-updates timer | stateless towards the server |
| Connecting (`mtproto/session_private.cpp`, `mtproto/connection_*.cpp`) | test connections, wait and retry timers | next; now a connection that breaks and comes back |
| Authorization keys (`mtproto/details/*key*`) | who creates a key, binding of the temporary one | later |
| `Instance`: datacenters, export and import of the authorization, dependent requests | maps of waiting requests per datacenter | later |
| Uploads (`storage/file_upload.cpp`) | parts over several sessions | later |
| Streaming of media (`media/streaming/`), but for its loader | slices, cache, reader and player threads | later |
| Fork features (`ayu/`): autoreply, forwarding, filters, deleted messages | per-chat state, a forwarding queue, a database | later; its ghost mode is in `OnlineStatus` and `Histories` |
| Translator, streamer mode, message shots | rendering and external services | no protocol |
| Data model, other API parts, UI, export, calls, payments, localization, storage, platform, vendored code | see `PROJECT.json` | sequential, pure I/O or another project's code |

## 2. The modules

| module | models | uses |
|---|---|---|
| `UpdateLog` | external: the server's numbered log of one box | |
| `PtsWaiter` | `class PtsWaiter`, its methods as operators | extends `UpdateLog` |
| `ReliableFeed` | abstract: the data only grows, pts only grows, all up to it is there | extends `UpdateLog` |
| `CommonUpdates` | `Api::Updates`, common box, with server and connection | extends `PtsWaiter`; implements `ReliableFeed` |
| `ChannelUpdates` | the same for one channel | extends `PtsWaiter`; implements `ReliableFeed` |
| `UpdatesSeq` | order of containers, in discrete time | |
| `OnlineStatus` | `updateOnline`, `checkIdleFinish` and `AyuWorker`, with the server's view of the user, in discrete time | |
| `IdsBuffer` | `kIdsBufferSize`, which both halves of a session use | |
| `ReceivedIds` | receiving half of `SessionPrivate`, with a repeating server | extends `IdsBuffer` |
| `RequestOnce` | abstract: a callback runs at most once, never after a cancel, for an answer to its own request | |
| `MtpSession` | requests over two threads and a server | extends `IdsBuffer`; implements `RequestOnce` |
| `HistoryOrder` | abstract: history and deletions of a chat, and who waits for whom | |
| `Histories` | `Data::Histories` and the read state of `History`, with the server | implements `HistoryOrder` |
| `Downloads` | `DownloadManagerMtproto` and its tasks, for one datacenter | |
| `PtsWaiterProofs` | lemmas about the waiter's operators, for any owner | extends `PtsWaiter` |
| `CommonUpdatesProofs`, `ChannelUpdatesProofs` | theorems about a box | extend `PtsWaiterProofs` |
| `SessionProofs` | theorems about both halves of a session | extends `ReceivedIds`, `MtpSession` |
| `UpdatesSeqProofs`, `OnlineStatusProofs`, `HistoriesProofs`, `DownloadsProofs` | theorems about these components | each extends its module |
| `MC*` | instances for TLC | |

Every handler is one action: what the code calls before it returns, a trailing
`applySkippedUpdates`, `setRequesting(false)`, a next request or a shrink, is
part of it.

**PtsWaiter.** `good`, `last`, `count`, `requesting` and the two flags are the
fields; `queue` stands for `_queue` with its two maps, as a set: the code applies
it in the order of pts inside one call, with nothing in between. `timer` says
that the owner has a difference scheduled; how long it has to run is abstracted.
Each outcome of `updated()` and `check()` is a disjunct of `UpdateAndApply`.
`applied`, `counted` and `base` are history. What an update does to the data
(`applyUpdateNoPtsCheck`) is: it is in `applied`.

**CommonUpdates.** `pushes` and `results` are updates on their way, handled in
any order; a push is dropped while `requesting`, a result is not
(`mtpUpdateReceived`, line 812). `asked` and `answers` are difference requests
out and their answers; an answer is an error, a state, empty, whole, or a slice
whose handler asks for the next. The server answers from its log at that moment.
`LoseSession` replaces the MTProto session: pushes in it are gone, unanswered
requests are sent again, `new_session_created` follows. Stray calls are the
callers of `getDifference` with no gap behind them. Left out:
`updates.differenceTooLong` (the code logs it as unexpected and stays
`requesting`), an error of `updates.getState`, which has no fail handler, qts,
and the date.

**ChannelUpdates.** Adds updates that reach nobody, with or without the
`updateChannelTooLong` that tells of them, a dialog's pts (`ptsReceived`), a
`tooLong` answer, and the windows that show the chat: `active` counts them
(`inActiveChats`). A window that shows the chat starts the short poll on the gap's
timer, one that turns to another chat stops it if no other shows this one, and one that
closes stops nothing. A channel starts without a pts and takes its first from what
comes first, and may be shown before that: a poll then asks nothing, which the history
variable `spent` records (`PollSpent`). The timer that all channels share is
abstracted to the channel's own entry.

**UpdatesSeq.** The seq timer counts ticks, so that a wait has a length.
`DifferenceDone`, `DifferenceSlice` and `FeedNext` include the recursion of `setState`
through `applyUpdates` over the buffer. `stale` is history: a session was lost while
containers from results waited behind a difference, and they stay in the buffer. A combined container is named by its place: both
sides treat it as one.

**OnlineStatus.** Time is discrete: `timer`, `idleTimer` and `workerTimer` count the
ticks until `_onlineTimer`, `_idleFinishTimer` and the worker's timer fire; `since`
and `idleFor` are the ages of `_lastSetOnline` and of the last input. `UpdateOnline`
is the whole of `updateOnline()`: what it tells, the cancelled earlier request, which
may have been in time or not, the three deadlines of the next look (`NextLook`), the
beginning of idleness. Its callers are the actions: focus, input after idleness, the
timers, `stateDone`, another device in `updateUserStatus`, the settings, quitting.
`wasOnline` is `_lastWasOnline`, which keeps `isOnlineOrig`; `told` is history, the
status that was sent. `Act` is any request that shows the user at the server; the
worker marks the account when it is answered (`MarkAsOnline`) and `RunOnce` tells
offline. `Quit` is `QuitAttempt()` with `isQuitPrevent()`, `QuitSavingSession` the
branch of `QuitAttempt()` that asks nobody while the system saves its session
(`core/application.cpp:1722`). Requests on `wire` are delivered in order. A tick waits while a timer is
due or the wire is full (`MaxWire`).

**ReceivedIds.** The thread handles a packet message by message; between two
messages only the server acts. Only messages that need an acknowledgement are
modelled: the rest are never repeated. A handler's outcome is a choice among
those of `HandleResult`: success, leave the rest of the packet, restart the
connection, reset the session. A container may be cut short: a contained message
whose id, number or length cannot be read, or is wrong, ends the connection before it is
acknowledged (`LeaveUnread`), one that runs past its container after
(`LeaveCutShort`), and `restart()` keeps the list of acknowledgements. `cut` is history,
the messages of the latter kind. Names that the other half has as well begin with
`Received`, so that one module can extend both.

**MtpSession.** Main-thread actions, session-thread actions and server actions
interleave. A step takes the maps as one lock leaves them; where the code takes
two locks one after the other (`Cancel`, `processCallback` with `handling`) the
model has the states in between. Containers are not kept: `_sentContainers` leads
to groups of messages acknowledged or sent again, which here happens to any of
them. `checkSentRequests` that finds some request not overdue starts its timer
again, a stutter; what it asks the server comes back as `ReceiveLostState` or
`ReceiveAck`. Left out: dependent requests, migration, salts and time
correction, HTTP, fatal `bad_msg_notification`, `msg_detailed_info`.

**Histories.** A chat is one record: the fields of `Histories::State`
(`sent`, `postponed`, `will`, `when`, `sentTill`, `done`, `again`), where the maps of
entry requests have it (`entry`, `reader`), its read state (`local`, `last`, `known`),
and the server's side (`wire`, `asks`, `told`). A State that the code has erased or
never made is one with those fields empty (`Cleared`, `checkEmptyState`). Handlers
nest (an answer finishes a request, which sends others, sends reads and asks for the
entry): the operators `SendRequest`, `FinishSentRequest`, `SendReadRequests`,
`ReadInboxTill`, `DialogEntryApplied` go from record to record and an action applies
the whole chain. A `getPeerDialogs` for several chats is answered for each on its
own. `ends` says whether the handlers of a request call `finish()`: a deletion of an own
channel and the fork's `readHistory()` do not. `due` is the set of chats whose delay
is over; `still`, the unread messages after a given one, is a choice wherever not all
messages of the chat are loaded. `LocalRead` and `ReadHistory` are the fork's two ways to read in
ghost mode, `SetSendReadMessages` its switch. Left out: albums, topics being created,
unread counters except where they decide that a read is sent.

**Downloads.** `m` is the manager's data for the datacenter together with the
requests of all tasks, in one record, since every handler changes both several times
over; the operators go from record to record, the last usually `CheckSendNext`, the
loop of `checkSendNext()`. Loops of the code are recursive functions: over the requests
of a task, the entries of the queue, or the times a session has room. `sent` stands for `_sentRequests`, with `_requestByOffset`
and `_cdnHashesRequestId` (the request of kind `hashes`); a request that failed in a
streaming loader stays there (`over`), as in the code. Failures come in two kinds: an
error from the server ends in `cancelOnFail()` with the request still in `_sentRequests`
(`PartFailed`), while a wrong part, a redirect with a wrong key or hashes of no use end in
it with the request finished (`PartRefused`, `PartWrong`, `HashesUseless`). `CancelOnFail`
cancels everything of a file or a preload; a streaming loader only tells its reader. Whether
the bytes of a part that waits for its hash are `wrong` is decided when they come. `wanted` is a loader's
`_requested`, or what follows `_nextRequestOffset` of a file. Sessions are added as an outcome of
a success and removed by `RemoveSession` at any time: durations and the counters of
successes and timeouts, which decide that, are left out. Left out besides: files of
unknown size or begun before, a downloader attached to a loader, `resetPriorities`,
the premium limit, several datacenters. `LoaderMtproto::stop()` has no caller.

## 3. Plan

Done: the modules above. Next, in this order:

1. `Connection`: test connections, `_waitForConnected`, `_waitForReceived`, retry
   back-off; some connection attempt is always due. Then its composition with
   `MtpSession`, in place of `Connect` and `Disconnect`.
2. `DcKeys`, `AuthTransfer`: one creator of a key at a time; requests that wait
   for an import are all sent or all failed.
3. `Uploads`: parts over sessions, a file is confirmed when all are there.
4. Proofs of the modules that come. As safety is proved for all bounds, the safety
   runs shrink to make room for new components.

## 4. Runs

All runs have `CHECK_DEADLOCK FALSE`: the bounds on what the environment does run
out, and a client with nothing to do rightly does nothing.

| run | question | bounds |
|---|---|---|
| `common_safety` | no update skipped, one cause of `requesting`, refinement of `ReliableFeed` | 3 updates with counts 0, 1, 2; one each of lost update, failed difference, new session, stray call |
| `common_live` | gaps have a timer, are repaired, every update arrives | 3 updates with counts 1, 2; one failure, one new session; `PushesWait` |
| `common_zero_count` | violation: the finding of section 6 | counts 0, 1 |
| `channel` | as both, in a channel; a shown channel is polled; gap and poll share a timer | 3 updates with counts 1, 2; one each of lost update, failure, dialog with a pts; two windows |
| `seq` | containers in order, none skipped, those that wait have a timer and arrive | 4 containers, 2 of them in results, one failure, one new session |
| `received` | handled once, acknowledged only then, and in the end | 3 ids, 2 remembered, containers of 2, one packet on the way, one trouble (break, packet that comes twice, container cut short, failing handler) |
| `mtp_safety` | nothing forgotten, answered is not sent, executed once; refinement of `RequestOnce` | 2 requests, 4 msg_ids, one each of break, reset, lost session, resend |
| `mtp_retry` | all answered | 2 requests; one answer that asks for a retry, at once or delayed; a break or a lost session |
| `histories` | refinement of `HistoryOrder`; an entry overtaken is asked again; answers to reads in order; nobody waits for ever; reads are told | one own channel, 3 messages, one of them outgoing, 3 calls, one refusal |
| `histories_ghost` | the bookkeeping holds when ghost mode clears the States; `Histories` starts no read in it | 2 chats, own channels both, up to symmetry, 2 messages, 2 calls, 2 changes or uses of ghost mode |
| `online` | status refreshed in time, offline told before quitting (unless the system saves its session), the present shown, the hiding not, idleness noticed and ended | period 3, idle after 2, recheck 1, worker 2 ticks; 3 calls |
| `downloads` | counts are of what is sent, parts are kept, hashes are asked for, downloads end | a loader and a file of 2 parts, up to 2 sessions, one load, two troubles out of seven kinds |

Why this is enough to be of interest: three updates make a gap, one that fills it
and one beyond, with counts that let an update cover two values; two updates
cannot leave a queue to be flushed behind a repaired gap. Four containers leave
two in the buffer when the missing one comes. With two ids remembered, a third
pushes the first out, and it can come again; larger buffers and more ids are
covered by the proofs. Two
requests are needed for one to be cut off from a container, trimmed by the
other, or older than `first_msg_id`; four msg_ids let each be sent under two.
Three messages with an outgoing one between make reads that skip, and three calls
are a page, a deletion and a read in any order; two chats are needed where one
timer or one cleared map serves both. They are interchangeable, which makes the symmetry sound
(the two properties of that run are an invariant and one of single steps); in an own channel
a deletion of messages calls `finish()` and one of the history does not, so both sorts occur. The idle time is shorter than the period and
the recheck shorter than either, as in the code, so that each of the three deadlines
comes up as the nearest. Two sessions and four parts in all leave requests in both
when one is removed, and each session starts with two places, so that hashes and
parts compete for them; a loader and a file have different priorities.
Every action of every module fires in a passing run, and every property has a
mutant of a mapped definition that breaks it in that run; those that conjoin
several (`Consistent`, `NothingForgotten`, `NobodyWaitsForEver`,
`ShownFollowsUser`, `Idleness`, `DownloadsEnd`, `PartsAreKept`) have one for most of their parts.

### Where the properties stop

Some do not hold in all circumstances. The exceptions are written in the
properties, or kept apart by a constant; each is seen by taking it away.

* `GapHasTimer`, `GapRepaired`, in `common_live` and `channel`: counts above 0 (finding)
  and, in a channel, before the first dialog (`reads = 0`), whose pts counts as 0.
* `ShownIsPolled` until a poll is `spent` (drop `~spent` and TLC finds it): a chat shown
  before its channel has a pts loses its poll entry at `api/api_updates.cpp:642`, and once the pts
  is known only another window or a difference starts the poll again.
* `EveryUpdateArrives` needs `PushesWait`: a push that overtakes the difference
  computed before it is dropped, and the next update makes the gap visible. One
  TCP connection keeps the order, several HTTP ones need not.
* `FedInOrder`, `NoContainerSkipped` while `stale`: `mtpNewSessionCreated` resets the
  seq but not the buffer when a difference is out, so containers from results of the old session
  meet the numbers of the new one. `FedInOrder` without `~stale` fails in `MCSeq.cfg`. A container
  of the new session may be dropped for an old one of the same number, which `have` cannot
  tell, as containers are named by their seq; so `NoContainerSkipped` leaves that out. The pts
  of what a container holds absorbs the repetition, and shows most of the gap.
* `AckedIsHandled` except for `cut`: `handleOneReceived` puts a contained message on the list
  of acknowledgements (`mtproto/session_private.cpp:1505`) before it finds that the message runs past the
  container (line 1510), and `restart()` keeps the list. The server does not repeat it.
* `OfflineToldBeforeQuit` except when `quit` is `"saved"`: while the system saves its session
  `QuitAttempt()` (`core/application.cpp:1722`) does not ask `readyToQuit()`, and a session that told online
  goes without telling offline.
* `UncheckedIsAsked` except in a streaming loader that failed: a wrong part or hashes of none
  that wait (`storage/download_manager_mtproto.cpp:771`, `:794`) have finished their request before
  `cancelOnFail()`, which only tells the reader (`media/streaming/media_streaming_loader_mtproto.cpp:161`): the
  parts that wait stay, and nobody asks for their hashes.
* `BufferedHasTimer` in `Consistent` of `UpdatesSeq`, without `inResults = 0`: the
  timer can fire, without effect, while a difference is out.
* `WaitBounded` (add it to `MCSeq.cfg`): each container that comes too early starts
  `_bySeqTimer` again (`api/api_updates.cpp:1390`), so the oldest waits longer than
  `kWaitForSkippedTimeout`.
* `ReturnIsTold` (add it to `MCOnline.cfg`): after idleness `_lastWasOnline` is true though offline
  was told (`api/api_updates.cpp:938`), so coming back is told only when the period is over.
* `NoRequestForgotten`, `IdsBufferSize = 1` in `MCMtpSafety.cfg`: the answer to a request
  moves its msg_id to `_ackedIds`, trims the oldest, and only then looks the id up
  (`mtproto/session_private.cpp:2186`). When `kIdsBufferSize` newer requests were answered
  before, it is the one that was trimmed: the answer is dropped and the callback never called.
* `NoRequestForgotten` with `RetryNow` (add it to `MCMtpRetry.cfg`): while an error
  is handled the callback is out of `_parserMap`, and an acknowledgement in that window
  takes the request for one nobody waits for. The answer is still recognised by
  `_ackedIds`, but with a session reset in between nobody sends the request again.
* `AnsweredIsNotSent` with a break, a lost session and a retry (add it to
  `MCMtpRetry.cfg`, with `MaxFaults = 2`): the retry has cleared the msg_id by which the
  second answer would have found the request queued (`mtproto/mtp_instance.cpp:978`).
* `AllAnswered` with `MaxFaults = 2` fails for a lost session and a break and, with
  `MaxResets = 1`, for a reset with a lost session or a delayed retry. After a lost session a duplicate
  of an old message can be the first of the new one (`mtproto/session_private.cpp:1912`),
  and what `first_msg_id` should tell is then missed; the check timer or the next
  reconnect repairs it in the program. For the same reason `Ping` waits for what was
  sent before it.
* `SentIsChecked` (add it to `MCMtpSafety.cfg`): a request sent alone, not in a
  container, starts no `_checkSentRequestsTimer` (`mtproto/session_private.cpp:980`). With no
  response at all `_waitForReceivedTimer` restarts the connection and everything is
  sent again; with other traffic nothing does.
* `EntryIsOnItsWay`, `EntryArrives` with ghost mode (`MaxGhost = 1` in
  `MCHistories.cfg`): `sendReadRequests()` clears all States (`data/data_histories.cpp:681`), with
  the flags and the postponed requests in them, not only the reads. (`HistoryIsAnswered` does
  not notice: a request that is forgotten is not among the postponed ones either.)
* `ReadAnswerInOrder`, the same way: `LocalRead` destroys the State and may start an earlier read
  than the one out.
* `HistoryIsAnswered`, `EntryArrives` except in a chat that is `Stuck`: the deletion of an own
  channel (`data/data_histories.cpp:824`), like the fork's `readHistory()`
  (`ayu/utils/telegram_helpers.cpp:331`), never calls `finish()`.
* `ShownReadIsTold`, `ReadsAreTold` except after a refusal: a read that fails ends like one
  that is granted (`data/data_histories.cpp:754`).
* `PartsAreKept`, `UncheckedIsAsked`, `DownloadsEnd` until a CDN token expires (drop
  `tokens = 0`, `tokens > 0`). A redirected file has a part that waits for its hash, and a
  request for hashes out; the session of that is removed, which posts another; a second
  part comes unchecked and asks for hashes itself; the token expires, and that request is
  made again as one for its part (`storage/download_manager_mtproto.cpp:961`); the posted
  call then asks for hashes under the offset of a request that is out, against the
  `Ensures` in `placeSentRequest`.
* `PartsAreKept` leaves out the last part of a preload: a preload ends when the part
  before the last is asked for (`data/data_media_preload.cpp:182`); if the last is held back by the
  balance, it is stored without it.
* `FileArrives`, `LoadArrives` while `Unoffered`: an answer for hashes offers the place it frees to
  nobody (`storage/download_manager_mtproto.cpp:797`); if all that was out were hashes, the
  queue stops (seen with `StartWaited = 1` in `MCDownloads.cfg`). `cancelForOffset()` of the last part
  a player waits for does the same (`media/streaming/media_streaming_loader_mtproto.cpp:89`).
* `Consistent`, `UncheckedIsAsked`, `PartsAreKept` are proved while `NotOverloaded`: a session that is
  removed gets `kMaxWaitedInSession * kMaxSessionsCount` added to what is requested in it, so that
  nothing moves back into it. Sessions' maxima bound neither requests for hashes nor those that moved, so
  in principle another session can have more, and then the `Assert(newIndex < sessionIndex)` of
  `storage/download_manager_mtproto.cpp:497` fails in the program as well. No state of `MCDownloads.cfg` has more
  out than that; with `StartWaited = MaxWaited = 1` some have.
* `FileArrives` while `HeldBack`: a player that has loaded all keeps its place in the
  queue, as `setPriority()` is passed on only with something in flight
  (`media/streaming/media_streaming_loader_mtproto.cpp:120`), and those of lower priority get one request
  at a time, though `media/streaming/media_streaming_file.cpp:443` says that they are not kept throttled.

### Fairness

Weak fairness of what the client's event loops do: timers fire, answers are
handled, queued and posted calls run, connections are made again. Of the server: it
answers requests it has received, and `Receive` in `CommonUpdates` delivers what
is on the way (the transport is reliable while the connection lasts). Nothing
obliges the server to generate, fail or lose anything, nor the user to act.
`ReceivedIds` takes strong fairness in three places: the server repeats each
unacknowledged message again and again, a message repeated again and again is
at some time received between two other packets, and acknowledgements are sent
between packets (`_connection` and the timers are served by one event loop, in
turn). Breaks are bounded: a connection that always breaks keeps no promise.
The resend and state-check actions of `MtpSession` have no fairness, so
`AllAnswered` does not lean on them. In `OnlineStatus` time passes, due timers fire,
requests are delivered and answered, `updateUserStatus` is handled, all while the program runs. In
`Histories` each chat's requests and entries are answered, its delay ends and
`sendDialogRequests()`, once posted, runs; the answers that fairness demands are granted ones, as refusals
are bounded. In `Downloads` some waiting request is answered again and again, not each (the
server may be slow with one), posted calls run, and an owner destroys a task that is done or has failed; no fairness for
sessions removed, priorities reset, or what the user does.

## 5. What is proved

For all values of the constants, under the assumptions the modules state
(`FirstPts` positive, counts natural, bounds natural, `IdsBufferSize` and `MaxMsg` positive,
all times of `OnlineStatus` positive, in no order, at least one part and one session in `Downloads`
and `StartWaited` from 1 to `MaxWaited`), and those in the last column.

| theorem | says | if |
|---|---|---|
| `CommonUpdatesProofs!TypeCorrect` | `Spec => []TypeOK` | |
| `CommonUpdatesProofs!NothingSilentlyLost` | `Spec => []NoSilentLoss` | |
| `CommonUpdatesProofs!OneRequestAtATime` | `Spec => []RequestingHasOneCause` | |
| `CommonUpdatesProofs!EveryGapIsTimed` | `Spec => []GapHasTimer` | `0 \notin Counts` |
| `CommonUpdatesProofs!Refinement` | `Spec => ImplementsFeed` | |
| `ChannelUpdatesProofs!AlwaysConsistent` | `Spec => []Consistent` (types, `NoSilentLoss`, `RequestingHasOneCause`) | |
| `ChannelUpdatesProofs!ShownChannelIsPolled` | `Spec => []ShownIsPolled` | |
| `ChannelUpdatesProofs!EveryChannelGapIsTimed` | `Spec => []ChannelGapHasTimer` | `0 \notin Counts` |
| `ChannelUpdatesProofs!Refinement` | `Spec => ImplementsFeed` | |
| `UpdatesSeqProofs!AlwaysConsistent` | `Spec => []Consistent` (types, `BufferedHasTimer`) | |
| `UpdatesSeqProofs!NeverSkipped` | `Spec => []NoContainerSkipped` | |
| `UpdatesSeqProofs!Order` | `Spec => []FedInOrder` | |
| `SessionProofs!ReceivedTypesCorrect` | `ReceivedSpec => []ReceivedTypeOK` | |
| `SessionProofs!NothingHandledTwice` | `ReceivedSpec => []HandledOnce` | |
| `SessionProofs!AcknowledgedWasHandled` | `ReceivedSpec => []AckedIsHandled` | |
| `SessionProofs!TypeCorrect` | `Spec => [](Typed /\ Counted /\ (NeverBoth => TypeOK))` | |
| `SessionProofs!ExecutesOnce` | `Spec => [](NeverBoth => ExecutedOnce)` | |
| `SessionProofs!AnsweredStaysAnswered` | `Spec => [](NeverBoth => AnsweredIsNotSent)` | |
| `SessionProofs!CallsBackOnce` | `Spec => CalledBackOnce` | |
| `SessionProofs!RequestsAreRemembered` | `Spec /\ []AnswersAreRecent => []NoRequestForgotten` | `RetryNow = FALSE` |
| `HistoriesProofs!AlwaysConsistent` | `Spec => []Consistent` | |
| `HistoriesProofs!GhostIsSilent` | `Spec => GhostStartsNoRead` | |
| `HistoriesProofs!Remembered` | `Spec => []NothingForgotten` | `MaxGhost = 0` |
| `HistoriesProofs!OverlapIsSeen` | `Spec => []OverlappedIsAskedAgain` | `MaxGhost = 0` |
| `HistoriesProofs!ReadsAnsweredInOrder` | `Spec => []ReadAnswerInOrder` | `MaxGhost = 0` |
| `HistoriesProofs!Refinement` | `Spec => KeepsOrder` | `MaxGhost = 0` |
| `OnlineStatusProofs!TypeCorrect` | `Spec => []TypeOK` | |
| `OnlineStatusProofs!ToldIsRefreshed` | `Spec => []RefreshedInTime` | |
| `OnlineStatusProofs!QuitsOffline` | `Spec => []OfflineToldBeforeQuit` | |
| `OnlineStatusProofs!IdleIsWatched` | `Spec => []IdleIsPolled` | |
| `DownloadsProofs!BooksAreRight` | `Spec /\ []NotOverloaded => [](tokens = 0 => Consistent)` | |
| `DownloadsProofs!HashesAreAsked` | `Spec /\ []NotOverloaded => []UncheckedIsAsked` | |
| `DownloadsProofs!PartsStay` | `Spec /\ []NotOverloaded => []PartsAreKept` | |

The conditions, and the exceptions written in the properties themselves, are the places
where the code does not keep the promise; section 4 ("Where the properties stop") has for
each the behaviour that breaks it. `MaxGhost = 0` is
a program whose fork settings are never touched; `NeverBoth`, a server that has not both
lost a session and asked for a retry; `AnswersAreRecent`, that no answer comes after as many
newer requests were answered as `_ackedIds` keeps (400 in the code); `NotOverloaded`, that no more is
out than all sessions together should have (`kMaxWaitedInSession * kMaxSessionsCount`).

**The common box.** `NoSilentLoss` is not inductive: it says nothing of why `_good`
may jump. The code's argument is that `_count` meets `_last` exactly when all
in between was counted. `WaiterInv` states it: updates account for disjoint ranges
of pts (`LogOrdered`); `_good`, `_last` and the last `init` fall between two updates
(`OnBoundary`); `_count` is the `init` value plus the number of pts values counted
since, all of them above it and up to `_last` (`CountExact`), so equality means the
interval is full (lemmas `FullInterval`, `CountInExact`); what was counted is in the
data or in the queue (`CountedIsKept`), and the queue is not empty only while the
flag that makes `applySkippedUpdates` flush it is set. `IInv` adds the exchange: it is
in one of four stages and asks from `_good` (`Stage`), its answers end between two
updates (`AnswersSound`), what is on the way has not been counted (`OnTheWay`).
`PtsWaiterProofs` shows that the waiter's operators keep `WaiterInv`, for any owner;
`CommonUpdatesProofs` has a lemma per action or group of callers, `NextStep`
combines them. The refinement needs that `_good` does not move back, which comes
from `Stage`: an answer is to a request from the present `_good`, and nothing moves
`_good` while one is out (`RequestingFreezesGood`). `GapHasTimer` is inductive only with
what the waiting flag says (`GapWaits`) and with no update of count 0: such an update is what
cancels the wait (section 6).

**Channels.** The same `WaiterInv`, by the same lemmas, with the channel's own stages:
idle, or, once there is a pts, a request, its answer, or the retry. Two invariants are added
on the timer that gap and poll share: `PollWaits` (a shown channel has the poll's flag and the
timer, unless a difference is out or a poll was spent for want of a pts) and `ChannelGapWaits` (the waiter's
`GapWaits` until a dialog brings a pts that counts as 0), each kept while the other starts, ends
and cancels its half.

**Order of containers.** `BufferedHasTimer` and `NoContainerSkipped` are inductive with the
types, given what the recursion of `setState` feeds: the containers of the buffer that
follow without a gap (`Feed`). `FedInOrder` needs `OrderInv`, because an answer may set
`_updatesSeq` back behind what was fed while it was out: a container is on its way, in the
buffer or fed, one of the three (`OnePlace`), has a number of the session (`Numbered`), and when
`_updatesSeq` or an answer's seq lies behind a fed container, the next number was fed as
well (`NothingBehind`), so that nothing comes that could be fed again from there.

**Receiving.** `HandledOnce` needs that a forgotten id is never taken for a new one.
`Covers`: every handled id is remembered, or the buffer holds at least
`IdsBufferSize` newer ones, which makes `registerMsgId` call it too old. `Register`
and `Forget` keep it through registration and shrinking, for the packet at hand as
well, where the buffer may be larger. `Numbered` and `Apart` keep container ids away from
the ids of what they hold, so a registered container never shadows a message.

**Requests.** `ExecutedOnce` spans two threads and a server, and so does `OnceInv`. A
msg_id is one request's for ever: whatever the maps, the buffers of the
requests, the connection and the server know of it agrees (`IdsAreUnique`, over
`Everywhere`). A message of the session carries the msg_id that its
request's buffer still has, or was answered by what asks for a retry, after which a new
one is right (`SessionIds`). A request that is about to be sent again has its old message
in `_resendingIds`, so that an answer finds it (`ResendingIsKnown`). One that was answered is
in none of the maps (`Settled`), and, while no session was lost, in one place
of those that hold answers (`AnsweredOnce`). None of these is inductive alone: a request
that gets a new msg_id too early is executed twice only if the old message was in the session,
which `SessionIds` excludes by what the buffer says, and the buffer is cleared only for a
request that `Settled` keeps from being sent under the old one. `NoRequestForgotten` needs less:
`IdsAreUnique`, that no handler is running with its callback out of `_parserMap`
(`NoHandler`), and that `Trim` keeps what an answer has just moved to `_ackedIds`
(`RecentStay`), as `wasSent()` looks for it there. The refinement of `RequestOnce` takes
`parsers \cup handling` for the callbacks that may still run, and for the offered answers those of
the server on their way or in the queue; with `IdsAreUnique` `wasSent()` gives an answer to no
request but its own (`AnswerIsKnown`), so it holds in all behaviours, those outside `NeverBoth` too.

**Histories.** `Kept` is what holds with ghost mode switched at any time: what is put off
has what ends it. Without ghost mode `Firm` adds that what MTP will answer is registered in
`sent`, under a number of its own, and never history beside a deletion (`Registered`); that an
entry that was asked comes, and is asked again if the chat changed since (`EntryAwaited`); that
the reads that are out are no later than the one sent last and earlier than the one to
send (`ReadsInOrder`); and that a message shown as read is known as read to the server, covered by
the read to send or by one that is out, unless a read was refused (`ReadsTold`). The handlers nest, and so do the lemmas: one for each operator from
record to record, then one per action. The refinement maps a chat's requests to their
ids by type; each handler is a move of `HistoryOrder` in one chat (`Moves`) or looks alike to
it (`Alike`), and the ids of `Registered` keep what is put off apart from what is out.

**Online status.** `OfflineToldBeforeQuit` is about what was told, while
`isQuitPrevent()` asks `_lastWasOnline`, which keeps another status. The missing half is
`ToldIsKept`: a session that told online also has `_lastWasOnline` set, though not the
other way round. With it the three properties and the types are inductive together
(`Inv`). The type needs them too: a timer is never set for longer than the period,
whichever of the three deadlines wins. `UpdateOnlineKeeps` proves it once for every
call of `updateOnline()`, and one lemma per group of actions is left.

**Downloads.** The three properties are inductive only together (`Sound`). A part that waits for its
hash keeps a task in the queue (`Reached`), which is how `removeSession` finds it; that a request
for hashes is of a part that waits (`OneByOne`) is why giving one up and asking again never puts two
requests under one offset; that what a task has out is of the kind its `_cdnDcId` tells (`AtCDN`) is
what makes the same true of `changeCDNParams`; and the counts of a session are right only because
each part, request and session index is of one that exists (`Ranged`). `PlacedAt` says where each
part of a file is at each stage of it. `Booked` has the counts too high by what `removeSession` adds
while it runs. As a handler changes the record many times over, the invariant is one of the record
(`Sane`), and each operator has a lemma that says what it leaves of it: `Finish`, `Cancels`,
`Replaces`, `MovesToCDN`, `RemovesSession`. `Continues` is what a task can rely on while others are
served: it loses nothing in hand or to be asked for, and stays asked about; it is transitive, so it
passes through the loops, whose recursive functions are followed by induction on numbers or on
finite sets of requests, stated of sets (`Induction`, `SetInduction`), as no prover here takes an
operator. Then there is one lemma per action. The invariant ends with the first token that expires
(`tokens = 0`), after which the code's own `Ensures` does not hold (section 4). All this is for any
number of tasks of the three kinds, preloads among them, which the run has not, and for any number
of parts, sessions and troubles.

Only model-checked: liveness (fairness and ENABLED are out of the prover's reach), and, in
`Downloads`, `Consistent` after a token expired. All other invariants, action properties and
refinements of the runs are stated by a theorem above.

## 6. Findings

`common_zero_count` (`data/data_pts_waiter.cpp:186`): an update with `pts_count` 0
over a gap arms the wait and, since it is applied, runs `applySkippedUpdates()`,
which cancels it. The gap stays with no timer until something else asks.

The other disagreements met while modelling are listed in section 4 with the
constant or the condition that shows them.
