----------------------------- MODULE Downloads -----------------------------
(***************************************************************************)
(* DownloadManagerMtproto and DownloadMtprotoTask                          *)
(* (storage/download_manager_mtproto.cpp) for one datacenter: the queue of *)
(* tasks, the balance of their requests over several sessions, sessions    *)
(* added, removed and killed, parts that come from a CDN and wait for      *)
(* their hashes.  A task is a streaming loader                             *)
(* (media/streaming/media_streaming_loader_mtproto.cpp), asked for parts   *)
(* one by one, a file (storage/file_download_mtproto.cpp), or the preload  *)
(* of a video's beginning (data/data_media_preload.cpp).                   *)
(*                                                                         *)
(* A handler changes the same state several times over before it returns:  *)
(* that state is one record, and what the handler calls are operators from *)
(* record to record.  Amounts are in parts (kDownloadPartSize).  Durations *)
(* and the counters of successes and timeouts decide only when a session   *)
(* is added or removed, which is a choice here.                            *)
(***************************************************************************)
EXTENDS Integers, FiniteSets, SequencesExt

CONSTANTS
    Loaders, Files, Preloads,  \* the tasks, by kind
    NumParts,     \* the parts of a file
    StartWaited,  \* kStartWaitedInSession
    MaxWaited,    \* kMaxWaitedInSession
    MaxSessions,  \* kMaxSessionsCount
    MaxLoads,     \* bound: calls of load()
    MaxCancels,   \* bound: calls of cancel()
    MaxShifts,    \* bound: changes of a loader's priority
    MaxRedirects, \* bound: files that move to a CDN
    MaxReuploads, \* bound: parts that the CDN does not have yet
    MaxTokens,    \* bound: CDN tokens that expire
    MaxErrors,    \* bound: other errors
    MaxRemovals,  \* bound: sessions removed for their timeouts
    MaxTroubles   \* bound: all from MaxCancels on together

ASSUME TasksAssumption ==
    Loaders \cap Files = {} /\ Loaders \cap Preloads = {} /\ Files \cap Preloads = {}
ASSUME PartsAssumption == NumParts \in Nat \ {0}
ASSUME SessionsAssumption ==
    /\ StartWaited \in Nat \ {0} /\ MaxWaited \in Nat /\ StartWaited <= MaxWaited
    /\ MaxSessions \in Nat \ {0}
ASSUME BoundsAssumption ==
    /\ MaxLoads \in Nat /\ MaxCancels \in Nat /\ MaxShifts \in Nat
    /\ MaxRedirects \in Nat /\ MaxReuploads \in Nat /\ MaxTokens \in Nat
    /\ MaxErrors \in Nat /\ MaxRemovals \in Nat /\ MaxTroubles \in Nat

Tasks == Loaders \cup Files \cup Preloads
Parts == 1..NumParts
Kinds == {"file", "cdn", "reupload", "hashes", "expired"}

VARIABLES
    m,         \* the manager's data for the datacenter, and the tasks' requests:
               \*   queue       Queue::_tasks, with their priorities
               \*   generation  _resetGenerationTimer is active
               \*   sessions    requested and max (maxWaitedAmount) of each
               \*   total       totalRequested
               \*   kill        the datacenter is in _killSessionsWhen
               \*   sent        _sentRequests of all tasks
               \*   unchecked   _cdnUncheckedParts
               \*   posted      requestMoreCdnFileHashes() is on its way (on_main)
               \*   cdn         _cdnDcId is set
               \*   wanted      parts to be asked for: a loader's _requested,
               \*               for the others those from _nextRequestOffset on
    known,     \* _cdnFileHashes
    stage,     \* "new", "on", "done", "failed" or "gone" (destroyed)
    priority,  \* LoaderMtproto::_priority
    fed,       \* parts given to feedPart()
    loads, cancels, shifts, redirects, reuploads, tokens, errors, removals

asks == <<loads, cancels, shifts>>
troubles == <<redirects, reuploads, tokens, errors, removals>>
vars == <<m, known, stage, priority, fed, asks, troubles>>

Troubled == shifts + cancels + redirects + reuploads + tokens + errors + removals < MaxTroubles

NewSession == [requested |-> 0, max |-> StartWaited]

Init ==
    /\ m = [queue |-> <<>>, generation |-> FALSE, sessions |-> <<NewSession>>,
            total |-> 0, kill |-> FALSE, sent |-> {},
            unchecked |-> [t \in Tasks |-> {}], posted |-> {}, cdn |-> {},
            wanted |-> [t \in Tasks |-> IF t \in Loaders THEN {} ELSE Parts]]
    /\ known = [t \in Tasks |-> {}]
    /\ stage = [t \in Tasks |-> IF t \in Loaders THEN "on" ELSE "new"]
    /\ priority = [t \in Loaders |-> 0]
    /\ fed = [t \in Tasks |-> {}]
    /\ loads = 0 /\ cancels = 0 /\ shifts = 0
    /\ redirects = 0 /\ reuploads = 0 /\ tokens = 0 /\ errors = 0 /\ removals = 0

-----------------------------------------------------------------------------
(* The balance of requests over the sessions.                              *)

ChooseSessionIndex(d) ==
    CHOOSE i \in DOMAIN d.sessions :
        \A j \in DOMAIN d.sessions :
            \/ d.sessions[i].requested < d.sessions[j].requested
            \/ d.sessions[i].requested = d.sessions[j].requested /\ i <= j

PlaceSentRequest(d, t, p, i, kind) ==
    LET amount == d.sessions[i].requested + 1
        r == [task |-> t, part |-> p, session |-> i, kind |-> kind,
              amount |-> amount, over |-> FALSE]
    IN  [d EXCEPT !.sessions[i].requested = amount, !.total = @ + 1,
                  !.kill = FALSE, !.sent = @ \cup {r}]

MakeRequest(d, t, p, i) ==
    PlaceSentRequest(d, t, p, i, IF t \in d.cdn THEN "cdn" ELSE "file")

(* finishSentRequest of each of S, in any order.                           *)
FinishRequests(d, S) ==
    LET InSession(i) == Cardinality({r \in S : r.session = i})
        left == [i \in DOMAIN d.sessions |->
                    [d.sessions[i] EXCEPT !.requested = @ - InSession(i)]]
        sessions == SubSeq(left, 1, Len(d.sessions))  \* that is left, as a tuple for TLC
        idle == \A i \in DOMAIN sessions : sessions[i].requested <= 0
    IN  [d EXCEPT !.sessions = sessions, !.total = @ - Cardinality(S),
                  !.kill = @ \/ (S # {} /\ idle), !.sent = @ \ S]

FinishSentRequest(d, r) == FinishRequests(d, {r})

(* The outcomes of requestSucceeded: nothing when the session was          *)
(* overloaded or slow; one more request allowed in it; a session added.    *)
Succeeded(d, r) ==
    LET s == d.sessions[r.session]
        grown == IF r.amount = s.max /\ s.max < MaxWaited
                 THEN [d EXCEPT !.sessions[r.session].max = @ + 1] ELSE d
        added == [grown EXCEPT !.sessions = Append(@, NewSession)]
    IN  IF r.amount > s.max THEN {d}
        ELSE {d, grown} \cup {e \in {added} : Len(d.sessions) < MaxSessions}

-----------------------------------------------------------------------------
(* The queue: sorted by priority, the newest first among equals.           *)

SentOf(d, t) == {r \in d.sent : r.task = t}
HaveSentRequests(d, t) == SentOf(d, t) # {} \/ d.unchecked[t] # {}
PartsInHand(d, t) == {r.part : r \in SentOf(d, t) \cup d.unchecked[t]}

Best(d) ==
    LET free == {i \in DOMAIN d.sessions : d.sessions[i].requested < d.sessions[i].max}
    IN  {i \in free : \A j \in free :
            \/ d.sessions[i].requested < d.sessions[j].requested
            \/ d.sessions[i].requested = d.sessions[j].requested /\ i <= j}

(* The places in the queue of those that may be asked for their next part. *)
Ready(d) ==
    LET highest == d.queue[1].prio
    IN  {n \in DOMAIN d.queue :
            /\ d.total > 0 /\ highest > 0 => d.queue[n].prio = highest
            /\ d.wanted[d.queue[n].task] # {}}

LoadPart(d, t, i) ==
    LET p == Min(d.wanted[t])
    IN  MakeRequest([d EXCEPT !.wanted[t] = @ \ {p}], t, p, i)

TrySendNextPart(d) ==
    LET ready == Ready(d)
        best == Best(d)
    IN  IF best = {} \/ ready = {} THEN d
        ELSE LoadPart(d, d.queue[Min(ready)].task, CHOOSE i \in best : TRUE)

(* As long as trySendNextPart sends something: no oftener than sessions    *)
(* have room.                                                              *)
CheckSendNext(d) ==
    LET after[n \in 0..(MaxSessions * MaxWaited)] ==
            IF n = 0 THEN d
            ELSE CHOOSE e \in {TrySendNextPart(b) : b \in {after[n - 1]}} : TRUE
    IN  after[MaxSessions * MaxWaited]

InQueue(d, t) == \E n \in DOMAIN d.queue : d.queue[n].task = t

Dequeued(d, t) ==
    LET n == CHOOSE n \in DOMAIN d.queue : d.queue[n].task = t
    IN  IF InQueue(d, t) THEN [d EXCEPT !.queue = RemoveAt(@, n)] ELSE d

(* The first place whose task is not above this priority.                  *)
PlaceFor(queue, prio) ==
    Min({n \in 1..(Len(queue) + 1) : n \in DOMAIN queue => queue[n].prio <= prio})

Enqueue(d, t, prio) ==
    LET rest == Dequeued(d, t).queue
        queue == InsertAt(rest, PlaceFor(rest, prio), [task |-> t, prio |-> prio])
    IN  CheckSendNext([d EXCEPT !.queue = queue, !.generation = TRUE])

(* Mutant of Removed: nobody else is given the place.                      *)
RemovedOnly(d, t) == Dequeued(d, t)

Removed(d, t) == CheckSendNext(Dequeued(d, t))

(* Mutant of ResetGeneration: tasks sink a place at each reset.            *)
ResetGenerationAll ==
    /\ m.generation
    /\ m' = [m EXCEPT !.generation = FALSE,
                      !.queue = [i \in DOMAIN @ |->
                          IF @[i].prio <= 0 THEN [@[i] EXCEPT !.prio = @ - 1] ELSE @[i]]]
    /\ UNCHANGED <<known, stage, priority, fed, asks, troubles>>

(* The tasks of priority 0 go behind those that come next.                 *)
ResetGeneration ==
    /\ m.generation
    /\ m' = [m EXCEPT !.generation = FALSE,
                      !.queue = [i \in DOMAIN @ |->
                          IF @[i].prio = 0 THEN [@[i] EXCEPT !.prio = -1] ELSE @[i]]]
    /\ UNCHANGED <<known, stage, priority, fed, asks, troubles>>

-----------------------------------------------------------------------------
(* Requests of one task.                                                   *)

RequestMoreCdnFileHashes(d, t) ==
    LET first == CHOOSE u \in d.unchecked[t] : \A v \in d.unchecked[t] : u.part <= v.part
    IN  IF d.unchecked[t] = {} \/ \E r \in SentOf(d, t) : r.kind = "hashes" THEN d
        ELSE PlaceSentRequest(d, t, first.part, first.session, "hashes")

(* Mutants of CancelRequests: they are still counted; those waiting for    *)
(* their hashes are forgotten with them.                                   *)
CancelUncounted(d, S) == [d EXCEPT !.sent = @ \ S]
CancelWithoutPosting(d, S) == FinishRequests(d, S)

(* cancelRequest of each of S.                                             *)
CancelRequests(d, S) ==
    LET Asking(r) == r.kind = "hashes" /\ d.unchecked[r.task] # {}
    IN  [FinishRequests(d, S) EXCEPT !.posted = @ \cup {r.task : r \in {q \in S : Asking(q)}}]

CancelAllRequests(d, t) ==
    [CancelRequests(d, SentOf(d, t)) EXCEPT !.unchecked[t] = {}]

Redirect(d, r) ==
    LET cancelled == CancelRequests(d, {r})
    IN  IF r.kind = "hashes" THEN cancelled
        ELSE MakeRequest(cancelled, r.task, r.part, ChooseSessionIndex(cancelled))

RedirectAll(d, S) ==
    LET after[T \in SUBSET S] ==
            IF T = {} THEN d
            ELSE LET r == CHOOSE r \in T : TRUE IN Redirect(after[T \ {r}], r)
    IN  after[S]

(* Mutant of RemoveFromSession: its requests are cancelled, not moved.     *)
CancelFromSession(d, t, i) == CancelRequests(d, {r \in SentOf(d, t) : r.session = i})

(* DownloadMtprotoTask::removeSession: everything of the task in session i *)
(* moves to the session with the least requests.                           *)
RemoveFromSession(d, t, i) ==
    LET Move(u) == IF u.session = i
                   THEN [u EXCEPT !.session = ChooseSessionIndex(d)] ELSE u
        moved == [d EXCEPT !.unchecked[t] = {Move(u) : u \in @}]
    IN  RedirectAll(moved, {r \in SentOf(d, t) : r.session = i})

(* Only tasks in the queue are told.                                       *)
RemoveFromSessions(d, i) ==
    LET after[n \in 0..Len(d.queue)] ==
            IF n = 0 THEN d ELSE RemoveFromSession(after[n - 1], d.queue[n].task, i)
    IN  after[Len(d.queue)]

RemoveSession ==
    LET i == Len(m.sessions)
        inflated == [m EXCEPT !.sessions[i].requested = @ + MaxWaited * MaxSessions]
    IN  /\ i > 1 /\ Troubled /\ removals < MaxRemovals /\ removals' = removals + 1
        /\ m' = [RemoveFromSessions(inflated, i) EXCEPT !.sessions = Front(@)]
        /\ UNCHANGED <<known, stage, priority, fed, asks,
                       redirects, reuploads, tokens, errors>>

KillSessions ==
    /\ m.kill
    /\ m' = [m EXCEPT !.kill = FALSE, !.total = 0,
                      !.sessions = [i \in DOMAIN @ |-> NewSession]]
    /\ UNCHANGED <<known, stage, priority, fed, asks, troubles>>

(* These requests are made again, each in its session.                     *)
MakeAgain(d, S) ==
    LET after[T \in SUBSET S] ==
            IF T = {} THEN d
            ELSE LET r == CHOOSE r \in T : TRUE
                 IN  MakeRequest(after[T \ {r}], r.task, r.part, r.session)
    IN  after[S]

(* Mutant of ChangeCDNParams: the requests out are not given up first.     *)
ChangeCDNParamsKeeping(d, r, cdn) ==
    MakeAgain([d EXCEPT !.cdn = cdn], SentOf(d, r.task) \cup {r})

(* changeCDNParams: all requests are made again, to the CDN or back, the   *)
(* one that was answered so after the others.                              *)
ChangeCDNParams(d, r, cdn) ==
    LET others == SentOf(d, r.task)
        switched == [FinishRequests(d, others) EXCEPT !.cdn = cdn]
    IN  MakeRequest(MakeAgain(switched, others), r.task, r.part, r.session)

-----------------------------------------------------------------------------
(* What the tasks are told to do.                                          *)

(* FileLoader::startLoading, VideoPreload::load.                           *)
Start(t) ==
    /\ t \notin Loaders /\ stage[t] = "new"
    /\ stage' = [stage EXCEPT ![t] = "on"]
    /\ m' = Enqueue(m, t, 0)
    /\ UNCHANGED <<known, priority, fed, asks, troubles>>

Load(t, p) ==
    /\ t \in Loaders /\ stage[t] \in {"on", "failed"}
    /\ loads < MaxLoads /\ loads' = loads + 1
    /\ p \notin PartsInHand(m, t) \cup m.wanted[t]
    /\ m' = Enqueue([m EXCEPT !.wanted[t] = @ \cup {p}], t, priority[t])
    /\ fed' = [fed EXCEPT ![t] = @ \ {p}]
    /\ UNCHANGED <<known, stage, priority, cancels, shifts, troubles>>

(* cancelForOffset of a part that is requested or waits for its hash.      *)
CancelForOffset(t, p) ==
    LET cancelled == CancelRequests(m, {r \in SentOf(m, t) : r.part = p})
        left == [cancelled EXCEPT !.unchecked[t] = {u \in @ : u.part # p}]
    IN  /\ t \in Loaders /\ stage[t] \in {"on", "failed"}
        /\ Troubled /\ cancels < MaxCancels /\ cancels' = cancels + 1
        /\ p \in PartsInHand(m, t)
        /\ m' = IF m.wanted[t] = {} THEN left ELSE Enqueue(left, t, priority[t])
        /\ UNCHANGED <<known, stage, priority, fed, loads, shifts, troubles>>

(* ... and of one that is not.                                             *)
ForgetOffset(t, p) ==
    /\ t \in Loaders /\ stage[t] \in {"on", "failed"}
    /\ Troubled /\ cancels < MaxCancels /\ cancels' = cancels + 1
    /\ p \in m.wanted[t] \ PartsInHand(m, t)
    /\ m' = [m EXCEPT !.wanted[t] = @ \ {p}]
    /\ UNCHANGED <<known, stage, priority, fed, loads, shifts, troubles>>

(* Reader::startStreaming and stopStreaming: setPriority to that of the    *)
(* player and back to 0.                                                   *)
SetPriority(t) ==
    /\ t \in Loaders /\ stage[t] \in {"on", "failed"}
    /\ Troubled /\ shifts < MaxShifts /\ shifts' = shifts + 1
    /\ priority' = [priority EXCEPT ![t] = 1 - @]
    /\ m' = IF HaveSentRequests(m, t) THEN Enqueue(m, t, 1 - priority[t]) ELSE m
    /\ UNCHANGED <<known, stage, fed, loads, cancels, troubles>>

TryRemoveFromQueue(t) ==
    /\ t \in Loaders /\ stage[t] \in {"on", "failed"}
    /\ m.wanted[t] = {} /\ ~HaveSentRequests(m, t)
    /\ m' = Removed(m, t)
    /\ UNCHANGED <<known, stage, priority, fed, asks, troubles>>

(* FileLoader::cancel by its owner.                                        *)
Cancel(t) ==
    /\ t \in Files /\ stage[t] = "on"
    /\ Troubled /\ cancels < MaxCancels /\ cancels' = cancels + 1
    /\ stage' = [stage EXCEPT ![t] = "failed"]
    /\ m' = [CancelAllRequests(m, t) EXCEPT !.wanted[t] = {}]
    /\ UNCHANGED <<known, priority, fed, loads, shifts, troubles>>

(* The destructor; posted calls are dropped with the object.               *)
Destroy(t) ==
    LET cancelled == [CancelAllRequests(m, t) EXCEPT !.wanted[t] = {}]
    IN  /\ stage[t] \notin {"new", "gone"} /\ stage' = [stage EXCEPT ![t] = "gone"]
        /\ IF stage[t] \in {"done", "failed"} THEN cancels' = cancels
           ELSE Troubled /\ cancels < MaxCancels /\ cancels' = cancels + 1
        /\ m' = [Removed(cancelled, t) EXCEPT !.posted = @ \ {t}]
        /\ UNCHANGED <<known, priority, fed, loads, shifts, troubles>>

-----------------------------------------------------------------------------
(* Answers.                                                                *)

(* Mutant of Finished: parts that wait for their hash do not count.        *)
FinishedUnchecked(d, t) ==
    SentOf(d, t) = {} /\ t \in Files /\ d.wanted[t] = {}

(* After a part is given to the task: has it all it waits for?  A preload  *)
(* counts the part after the last it asked for.                            *)
Finished(d, t) ==
    /\ ~HaveSentRequests(d, t)
    /\ \/ t \in Files /\ d.wanted[t] = {}
       \/ t \in Preloads /\ d.wanted[t] \subseteq {NumParts}

(* feedPart of all of parts, the last of them perhaps finishing the task.  *)
FeedParts(d, t, parts) ==
    /\ fed' = [fed EXCEPT ![t] = @ \cup parts]
    /\ stage' = IF Finished(d, t) THEN [stage EXCEPT ![t] = "done"] ELSE stage

AfterFeed(d, t) == IF Finished(d, t) THEN Removed(d, t) ELSE d

(* Mutant of PartLoaded: the next request is left to others.               *)
PartLoadedOnly(r) ==
    /\ r.kind = "cdn" => r.part \in known[r.task]
    /\ r.kind \in {"file", "cdn"}
    /\ \E d \in Succeeded(FinishSentRequest(m, r), r) :
         FeedParts(d, r.task, {r.part}) /\ m' = AfterFeed(d, r.task)
    /\ UNCHANGED <<known, priority, asks, troubles>>

(* normalPartLoaded, webPartLoaded; cdnPartLoaded of a part whose hash is  *)
(* known.                                                                  *)
PartLoaded(r) ==
    /\ r.kind = "cdn" => r.part \in known[r.task]
    /\ r.kind \in {"file", "cdn"}
    /\ \E d \in Succeeded(FinishSentRequest(m, r), r) :
         /\ FeedParts(d, r.task, {r.part})
         /\ m' = CheckSendNext(AfterFeed(d, r.task))
    /\ UNCHANGED <<known, priority, asks, troubles>>

(* cdnPartLoaded of a part whose hash is not; its bytes may be wrong.      *)
PartWaits(r) ==
    /\ r.kind = "cdn" /\ r.part \notin known[r.task]
    /\ \E d \in Succeeded(FinishSentRequest(m, r), r) :
         LET t == r.task
             waits(wrong) ==
                 IF \E u \in d.unchecked[t] : u.part = r.part THEN d
                 ELSE [d EXCEPT !.unchecked[t] = @ \cup
                          {[part |-> r.part, session |-> r.session, wrong |-> wrong]}]
         IN  \E wrong \in BOOLEAN :
                 /\ wrong => Troubled /\ errors < MaxErrors
                 /\ errors' = IF wrong THEN errors + 1 ELSE errors
                 /\ m' = CheckSendNext(RequestMoreCdnFileHashes(waits(wrong), t))
    /\ UNCHANGED <<known, stage, priority, fed, asks, redirects, reuploads, tokens, removals>>

(* The parts whose hashes are there once these came.                       *)
Due(t, hashes) == {u \in m.unchecked[t] : u.part \in known[t] \cup hashes}

(* getCdnFileHashesDone: the hashes are of the part asked about and of any *)
(* others, and the parts they are of are right.                            *)
GetCdnFileHashesDone(r) ==
    LET t == r.task
        d == FinishSentRequest(m, r)
    IN  /\ r.kind = "hashes"
        /\ \E hashes \in SUBSET Parts :
             LET checked == Due(t, hashes)
                 left == [d EXCEPT !.unchecked[t] = @ \ checked]
             IN  /\ r.part \in hashes /\ checked # {} /\ \A u \in checked : ~u.wrong
                 /\ known' = [known EXCEPT ![t] = @ \cup hashes]
                 /\ FeedParts(left, t, {u.part : u \in checked})
                 /\ m' = RequestMoreCdnFileHashes(AfterFeed(left, t), t)
        /\ UNCHANGED <<priority, asks, troubles>>

(* fileCdnRedirect; it may bring hashes.                                   *)
SwitchToCDN(r) ==
    /\ r.kind = "file" /\ Troubled /\ redirects < MaxRedirects /\ redirects' = redirects + 1
    /\ \E d \in Succeeded(FinishSentRequest(m, r), r) :
         m' = CheckSendNext(ChangeCDNParams(d, r, d.cdn \cup {r.task}))
    /\ \E hashes \in SUBSET Parts :
         known' = [known EXCEPT ![r.task] = @ \cup hashes]
    /\ UNCHANGED <<stage, priority, fed, asks, reuploads, tokens, errors, removals>>

(* cdnFileReuploadNeeded.                                                  *)
ReuploadNeeded(r) ==
    /\ r.kind = "cdn" /\ Troubled /\ reuploads < MaxReuploads /\ reuploads' = reuploads + 1
    /\ m' = PlaceSentRequest(FinishSentRequest(m, r), r.task, r.part, r.session, "reupload")
    /\ UNCHANGED <<known, stage, priority, fed, asks, redirects, tokens, errors, removals>>

ReuploadDone(r) ==
    /\ r.kind = "reupload"
    /\ \E hashes \in SUBSET {r.part} :
         known' = [known EXCEPT ![r.task] = @ \cup hashes]
    /\ m' = MakeRequest(FinishSentRequest(m, r), r.task, r.part, r.session)
    /\ UNCHANGED <<stage, priority, fed, asks, troubles>>

(* FILE_TOKEN_INVALID, REQUEST_TOKEN_INVALID: back from the CDN.           *)
TokenInvalid(r) ==
    /\ r.kind \in {"cdn", "reupload", "hashes"}
    /\ Troubled /\ tokens < MaxTokens /\ tokens' = tokens + 1
    /\ m' = ChangeCDNParams(FinishSentRequest(m, r), r, m.cdn \ {r.task})
    /\ UNCHANGED <<known, stage, priority, fed, asks, redirects, reuploads, errors, removals>>

(* FILE_REFERENCE_EXPIRED: the request stays in _sentRequests.             *)
ReferenceExpired(r) ==
    /\ r.kind = "file" /\ Troubled /\ errors < MaxErrors /\ errors' = errors + 1
    /\ m' = [m EXCEPT !.sent = (@ \ {r}) \cup {[r EXCEPT !.kind = "expired"]}]
    /\ UNCHANGED <<known, stage, priority, fed, asks, redirects, reuploads, tokens, removals>>

RefreshFileReference(r) ==
    /\ r.kind = "expired"
    /\ m' = MakeRequest(FinishSentRequest(m, r), r.task, r.part, r.session)
    /\ UNCHANGED <<known, stage, priority, fed, asks, troubles>>

(* cancelOnFail: a file or a preload cancels all its requests; a loader    *)
(* only tells its reader.                                                  *)
CancelOnFail(d, t) ==
    IF t \in Loaders THEN d ELSE [CancelAllRequests(d, t) EXCEPT !.wanted[t] = {}]

FailsAtOnce(t) ==
    /\ Troubled /\ errors < MaxErrors /\ errors' = errors + 1
    /\ stage' = [stage EXCEPT ![t] = "failed"]

(* partFailed, or a reference that is still the same: nobody has finished  *)
(* the request, and a loader's stays in _sentRequests.                     *)
PartFailed(r) ==
    /\ FailsAtOnce(r.task)
    /\ m' = CancelOnFail([m EXCEPT !.sent = (@ \ {r}) \cup {[r EXCEPT !.over = TRUE]}], r.task)
    /\ UNCHANGED <<known, priority, fed, asks, redirects, reuploads, tokens, removals>>

(* A part whose hash is there and is not its own, a redirect with a wrong  *)
(* key, a webfile of another size: the request is finished first.          *)
PartRefused(r) ==
    /\ r.kind \in {"file", "cdn"} /\ (r.kind = "cdn" => r.part \in known[r.task])
    /\ FailsAtOnce(r.task)
    /\ \E d \in Succeeded(FinishSentRequest(m, r), r) :
         m' = CheckSendNext(CancelOnFail(d, r.task))
    /\ UNCHANGED <<known, priority, fed, asks, redirects, reuploads, tokens, removals>>

(* getCdnFileHashesDone when a part is wrong: those before it are given to *)
(* the task, it and those behind it stay.                                  *)
PartWrong(r) ==
    LET t == r.task
        d == FinishSentRequest(m, r)
    IN  /\ r.kind = "hashes" /\ stage' = [stage EXCEPT ![t] = "failed"]
        /\ \E hashes \in SUBSET Parts :
             LET good == {u \in Due(t, hashes) :
                             \A v \in Due(t, hashes) : v.wrong => u.part < v.part}
             IN  /\ good # Due(t, hashes)
                 /\ known' = [known EXCEPT ![t] = @ \cup hashes]
                 /\ fed' = [fed EXCEPT ![t] = @ \cup {u.part : u \in good}]
                 /\ m' = CancelOnFail([d EXCEPT !.unchecked[t] = @ \ good], t)
        /\ UNCHANGED <<priority, asks, troubles>>

(* ... and when the hashes are of none of the parts that wait.             *)
HashesUseless(r) ==
    /\ r.kind = "hashes" /\ FailsAtOnce(r.task)
    /\ \E hashes \in SUBSET Parts :
         /\ Due(r.task, hashes) = {}
         /\ known' = [known EXCEPT ![r.task] = @ \cup hashes]
    /\ m' = CancelOnFail(FinishSentRequest(m, r), r.task)
    /\ UNCHANGED <<priority, fed, asks, redirects, reuploads, tokens, removals>>

(* The call posted by cancelRequest.                                       *)
RunPosted(t) ==
    /\ t \in m.posted
    /\ m' = RequestMoreCdnFileHashes([m EXCEPT !.posted = @ \ {t}], t)
    /\ UNCHANGED <<known, stage, priority, fed, asks, troubles>>

-----------------------------------------------------------------------------
Waiting == {r \in m.sent : ~r.over}

Answered(r) ==
    \/ PartLoaded(r) \/ PartWaits(r) \/ GetCdnFileHashesDone(r) \/ PartWrong(r)
    \/ ReuploadDone(r) \/ RefreshFileReference(r)

Trouble(r) ==
    \/ SwitchToCDN(r) \/ ReuploadNeeded(r) \/ TokenInvalid(r)
    \/ ReferenceExpired(r) \/ PartFailed(r) \/ PartRefused(r) \/ HashesUseless(r)

Owner(t) ==
    \/ Start(t) \/ Cancel(t) \/ Destroy(t)
    \/ SetPriority(t) \/ TryRemoveFromQueue(t)
    \/ \E p \in Parts : Load(t, p) \/ CancelForOffset(t, p) \/ ForgetOffset(t, p)

Next ==
    \/ \E r \in Waiting : Answered(r) \/ Trouble(r)
    \/ \E t \in Tasks : Owner(t) \/ RunPosted(t)
    \/ ResetGeneration \/ RemoveSession \/ KillSessions

Spec == Init /\ [][Next]_vars

(* The server answers, posted calls run, and an owner destroys a task that *)
(* is through.  Nothing obliges the user, sessions or timers.              *)
Fairness ==
    /\ WF_vars(\E r \in Waiting : Answered(r))
    /\ \A t \in Tasks :
         /\ WF_vars(RunPosted(t))
         /\ WF_vars(stage[t] \in {"failed", "done"} /\ Destroy(t))

FairSpec == Spec /\ Fairness

-----------------------------------------------------------------------------
Sessions == 1..Len(m.sessions)
PartIn(s) == [part : Parts, session : s, wrong : BOOLEAN]

(* Every variable has the type the code gives it.                          *)
TypeOK ==
    /\ m.queue \in Seq([task : Tasks, prio : -1..1])
    /\ m.generation \in BOOLEAN /\ m.kill \in BOOLEAN
    /\ Len(m.sessions) \in 1..MaxSessions
    /\ \A i \in Sessions :
         m.sessions[i].requested \in Nat /\ m.sessions[i].max \in StartWaited..MaxWaited
    /\ m.sent \subseteq [task : Tasks, part : Parts, session : Sessions,
                        kind : Kinds, amount : Nat, over : BOOLEAN]
    /\ m.unchecked \in [Tasks -> SUBSET PartIn(Sessions)]
    /\ m.posted \subseteq Tasks /\ m.cdn \subseteq Tasks
    /\ m.wanted \in [Tasks -> SUBSET Parts]
    /\ known \in [Tasks -> SUBSET Parts] /\ fed \in [Tasks -> SUBSET Parts]
    /\ stage \in [Tasks -> {"new", "on", "done", "failed", "gone"}]
    /\ priority \in [Loaders -> 0..1]

(* What the manager counts is what is sent: per session and in all, zero    *)
(* when a session is redirected or the sessions are killed (the Asserts of *)
(* changeRequestedAmount, removeSession and killSessions).                 *)
RequestedIsSent ==
    /\ \A i \in Sessions :
         m.sessions[i].requested = Cardinality({r \in m.sent : r.session = i})
    /\ m.total = Cardinality(m.sent)
    /\ m.kill => m.sent = {}

(* A task with something in flight is in the queue: removeSession reaches  *)
(* only those, and what it does not reach stays on a session that is gone. *)
SentIsQueued ==
    \A t \in Tasks : HaveSentRequests(m, t) => \E i \in DOMAIN m.queue : m.queue[i].task = t

(* The manager's books: types, counts, and a queue that reaches every task *)
(* with something at a server.                                             *)
Consistent == TypeOK /\ RequestedIsSent /\ SentIsQueued

(* Until a CDN token expires parts that wait for their hash have a request *)
(* for hashes out, which will be answered, or posted: nothing else would   *)
(* ever look at them again.  A loader that failed is left out: a wrong     *)
(* part, hashes that are of none, or an error for an answer end the        *)
(* request, its reader is told of the failure and the parts stay behind.   *)
UncheckedIsAsked ==
    tokens = 0 => \A t \in Tasks : m.unchecked[t] # {} =>
        \/ t \in m.posted \/ \E r \in SentOf(m, t) : r.kind = "hashes" /\ ~r.over
        \/ t \in Loaders /\ stage[t] = "failed"

(* No part is asked for twice at a time (Ensures in placeSentRequest), and *)
(* none is both asked for and still to be.                                 *)
OneRequestPerPart(t) ==
    /\ \A r, s \in SentOf(m, t) : r.part = s.part => r = s
    /\ m.wanted[t] \cap PartsInHand(m, t) = {}

(* Until a CDN token expires every part is in one place: still to be asked *)
(* for, or in hand, once; and a file's parts are there or in the file, each *)
(* given to it once, all of them when it is finished (but for the last of a *)
(* preload, which may not be part of it).                                  *)
PartsAreKept ==
    tokens = 0 =>
    /\ \A t \in Tasks : OneRequestPerPart(t)
    /\ \A t \in Files \cup Preloads :
        /\ stage[t] = "on" => Parts = m.wanted[t] \cup PartsInHand(m, t) \cup fed[t]
        /\ fed[t] \cap PartsInHand(m, t) = {}
    /\ \A t \in Files : stage[t] = "done" => fed[t] = Parts
    /\ \A t \in Preloads : stage[t] = "done" => Parts \ {NumParts} \subseteq fed[t]

(* A loader of a higher priority with nothing left to ask for stays ahead  *)
(* of the others in the queue.                                             *)
HeldBack ==
    m.queue # <<>> /\ m.queue[1].prio > 0 /\ m.wanted[m.queue[1].task] = {}

(* The last request is over and its place is offered to nobody: a reader   *)
(* gave up a part and had no other to ask for, or the request was for      *)
(* hashes, whose answer offers nothing (with fewer tasks at the CDN than   *)
(* places there is always another request).                                *)
Unoffered == m.sent = {} /\ (cancels > 0 \/ Cardinality(m.cdn) >= StartWaited)

(* A download that is started ends: all its parts come, or it fails or is  *)
(* cancelled, unless it is held back, no place is offered to it, or a CDN  *)
(* token expired.                                                          *)
FileArrives ==
    \A t \in Files \cup Preloads :
        []<>(stage[t] # "on" \/ HeldBack \/ Unoffered \/ tokens > 0)

(* What a reader asked for comes, or is given up: its loader has again and *)
(* again nothing to wait for, with the same exceptions but the first.      *)
LoadArrives ==
    \A t \in Loaders :
        []<>(\/ stage[t] # "on" \/ Unoffered \/ tokens > 0
             \/ m.wanted[t] = {} /\ ~HaveSentRequests(m, t))

(* Everyone who downloads comes to an end of it, file or reader.           *)
DownloadsEnd == FileArrives /\ LoadArrives
=============================================================================
