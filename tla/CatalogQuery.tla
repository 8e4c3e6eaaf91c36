---------------------------- MODULE CatalogQuery ----------------------------
(* crates/beryl-app/src/catalog_query.rs, catalog_query/admission.rs and     *)
(* worker.rs, with the query owner of crates/beryl-state                     *)
(* (src/catalog/query/owner.rs): clients admit requests, one worker performs *)
(* them on frozen reads of the home, every opened collection carries a duty  *)
(* to release its read, and the service's owner stops, joins and retires.    *)
(*                                                                           *)
(* A critical section of the signal's mutex is one step; the custody (query  *)
(* owner and unadmitted read) is only the worker's until it is joined.  A    *)
(* frozen read is named by the collection it is retained for.  Criteria,     *)
(* pages and positions carry no state: every operation on a collection other *)
(* than refine is "page".  Outside: the home's frozen registry (FrozenReads  *)
(* has it), here only the set of reads it holds, and the source coordinator, *)
(* which may refuse to retain a read.                                        *)
EXTENDS Integers, Sequences, FiniteSets, SequencesExt

CONSTANTS
    MaxRequests,        \* bound: requests ever admitted
    PendingLimit,       \* CATALOG_QUERY_PENDING_REQUEST_LIMIT
    CollectionLimit,    \* CATALOG_QUERY_COLLECTION_LIMIT
    MaxFaults           \* bound: releases that fail

Requests == 1..MaxRequests
Tokens == 1..MaxRequests    \* a request opens at most one collection

VARIABLES
    published, stopped, next_request,
    queue,              \* admitted requests the worker has not taken
    controls,           \* admitted requests it has not settled
    collections, releases,
    op, query,          \* per request: the operation and the collection it names
    cancelled,          \* per request: its CommandCancellation
    reply,              \* per request: the oneshot channel
    opened,             \* per request: the collection its response carries
    client,             \* per request: where its consumer is
    handle,             \* per token: where its PublishedCatalogCollection is
    worker,             \* the worker's step, request, token and result
    next_query,         \* CatalogQueryOwner::next_query
    entries, retiring,  \* the owner's collections, and those marked retiring
    unadmitted,         \* WorkerCustody: the read of an open in progress
    failure, panicked,  \* WorkerCustody
    held,               \* the frozen reads the home holds for this service
    service, returned,  \* the owner's step; what stop_and_join returned last
    faults              \* failed releases left

signal == <<published, stopped, next_request, queue, controls, collections, releases>>
request == <<op, query, cancelled, reply, opened, client, handle>>
custody == <<next_query, entries, retiring, unadmitted, failure, panicked, held, faults>>
owner == <<service, returned>>
vars == <<signal, request, worker, custody, owner>>

Consumers == {"none", "waiting", "received", "discarding", "accepted", "failed", "dropping",
              "gone"}
Replies == {"pending", "ok", "error", "Cancelled", "Retired", "Panicked", "closed"}

\* One type invariant, with the two limits.
TypeOK ==
    /\ {published, stopped, failure, panicked} \subseteq BOOLEAN
    /\ next_request \in 1..(MaxRequests + 1) /\ next_query \in 1..(MaxRequests + 1)
    /\ {Range(queue), controls} \subseteq SUBSET Requests
    /\ Cardinality(controls) <= PendingLimit
    /\ {collections, Range(releases), Range(entries), retiring, Range(unadmitted), held}
         \subseteq SUBSET Tokens
    /\ Len(entries) <= CollectionLimit
    /\ op \in [Requests -> {"open", "refine", "page"}] /\ query \in [Requests -> {0} \cup Tokens]
    /\ cancelled \in [Requests -> BOOLEAN] /\ reply \in [Requests -> Replies]
    /\ client \in [Requests -> Consumers] /\ opened \in [Requests -> {0} \cup Tokens]
    /\ handle \in [Tokens -> {"none", "response", "client", "dropped"}]
    /\ worker \in [pc : {"drive", "release", "forget", "begin", "perform", "open", "publish",
                         "performed", "settle", "send", "stop", "retire", "done"},
                   req : {0} \cup Requests, token : {0} \cup Tokens, result : Replies]
    /\ service \in {"prepared", "running", "joining", "joined", "settled"}
    /\ returned \in {"none", "ok", "Retirement", "Failure", "Panicked"} /\ faults \in 0..MaxFaults

Init ==
    /\ published = FALSE /\ stopped = FALSE /\ next_request = 1
    /\ queue = <<>> /\ controls = {} /\ collections = {} /\ releases = <<>>
    /\ op = [r \in Requests |-> "open"] /\ query = [r \in Requests |-> 0]
    /\ cancelled = [r \in Requests |-> FALSE] /\ reply = [r \in Requests |-> "pending"]
    /\ opened = [r \in Requests |-> 0] /\ client = [r \in Requests |-> "none"]
    /\ handle = [t \in Tokens |-> "none"]
    /\ worker = [pc |-> "drive", req |-> 0, token |-> 0, result |-> "pending"]
    /\ next_query = 1 /\ entries = <<>> /\ retiring = {} /\ unadmitted = <<>>
    /\ failure = FALSE /\ panicked = FALSE /\ held = {}
    /\ service = "prepared" /\ returned = "none" /\ faults = MaxFaults

------------------------------------------------------------------------------
\* current: the service still serves, and the request's collection is still open.
Current(r) ==
    /\ published /\ ~stopped
    /\ query[r] = 0 \/ (query[r] \in collections /\ query[r] \notin Range(releases))

\* Mutant: the limit counts the queue only, not the request being performed.
QueueHasRoom == Len(queue) < PendingLimit

HasRoom == Cardinality(controls) < PendingLimit

\* admit, for open (c = 0) and for an operation on collection c, held by its client.
Admit(kind, c) ==
    LET r == next_request IN
    /\ r \in Requests
    /\ published /\ ~stopped
    /\ c # 0 => c \in collections /\ c \notin Range(releases)
    /\ HasRoom
    /\ next_request' = r + 1
    /\ queue' = Append(queue, r)
    /\ controls' = controls \cup {r}
    /\ op' = [op EXCEPT ![r] = kind]
    /\ query' = [query EXCEPT ![r] = c]
    /\ client' = [client EXCEPT ![r] = "waiting"]
    /\ UNCHANGED <<published, stopped, collections, releases, cancelled, reply, opened, handle,
                   worker, custody, owner>>

Open == Admit("open", 0)
Operate == \E c \in Tokens, kind \in {"refine", "page"} : handle[c] = "client" /\ Admit(kind, c)

\* Mutant: dropping a collection leaves its admitted requests running.
DropWithoutCancel(t) ==
    IF ~stopped /\ t \in collections /\ t \notin Range(releases)
      THEN releases' = Append(releases, t) /\ UNCHANGED cancelled
      ELSE UNCHANGED <<releases, cancelled>>

\* Drop for PublishedCatalogCollection: cancel its admitted requests and queue the release.
DropCollection(t) ==
    IF ~stopped /\ t \in collections /\ t \notin Range(releases)
      THEN /\ cancelled' = [r \in Requests |->
                              cancelled[r] \/ (r \in controls /\ query[r] = t)]
           /\ releases' = Append(releases, t)
      ELSE UNCHANGED <<releases, cancelled>>

ClientDrops(t) ==
    /\ handle[t] = "client"
    /\ DropCollection(t)
    /\ handle' = [handle EXCEPT ![t] = "dropped"]
    /\ UNCHANGED <<published, stopped, next_request, queue, controls, collections, op, query,
                   reply, opened, client, worker, custody, owner>>

\* PublishedCatalogQueryRequest::cancel, and the first half of its Drop.
Cancel(r) ==
    /\ client[r] = "waiting"
    /\ cancelled' = [cancelled EXCEPT ![r] = TRUE]
    /\ \/ UNCHANGED client
       \/ client' = [client EXCEPT ![r] = "dropping"]
    /\ UNCHANGED <<signal, op, query, reply, opened, handle, worker, custody, owner>>

\* A response is dropped: the collection it carries is dropped with it.
DropResponse(r) ==
    IF opened[r] = 0
      THEN UNCHANGED <<releases, cancelled, handle>>
      ELSE /\ DropCollection(opened[r])
           /\ handle' = [handle EXCEPT ![opened[r]] = "dropped"]

\* The receiver of a dropped request goes, with the response already in it.
DropReceiver(r) ==
    /\ client[r] = "dropping"
    /\ client' = [client EXCEPT ![r] = "gone"]
    /\ IF reply[r] = "ok" THEN DropResponse(r) ELSE UNCHANGED <<releases, cancelled, handle>>
    /\ UNCHANGED <<published, stopped, next_request, queue, controls, collections, op, query,
                   reply, opened, worker, custody, owner>>

\* receive: the answer arrives; an error, or a cancellation since, ends the request.
Receive(r) ==
    /\ client[r] = "waiting" /\ reply[r] # "pending"
    /\ client' = [client EXCEPT ![r] = CASE reply[r] # "ok" -> "failed"
                                         [] reply[r] = "ok" /\ cancelled[r] -> "discarding"
                                         [] OTHER -> "received"]
    /\ UNCHANGED <<signal, op, query, cancelled, reply, opened, handle, worker, custody, owner>>

\* receive: qualifies, under the mutex; an accepted collection is the client's.
Qualify(r) ==
    /\ client[r] = "received"
    /\ client' = [client EXCEPT ![r] = IF Current(r) THEN "accepted" ELSE "discarding"]
    /\ handle' = IF Current(r) /\ opened[r] # 0
                   THEN [handle EXCEPT ![opened[r]] = "client"] ELSE handle
    /\ UNCHANGED <<signal, op, query, cancelled, reply, opened, worker, custody, owner>>

\* Mutant: a response that does not qualify is forgotten with its collection.
DiscardForgets(r) ==
    /\ client[r] = "discarding"
    /\ client' = [client EXCEPT ![r] = "failed"]
    /\ handle' = IF opened[r] = 0 THEN handle ELSE [handle EXCEPT ![opened[r]] = "dropped"]
    /\ UNCHANGED <<signal, op, query, cancelled, reply, opened, worker, custody, owner>>

\* receive returns an error: the response it took is dropped.
Discard(r) ==
    /\ client[r] = "discarding"
    /\ client' = [client EXCEPT ![r] = "failed"]
    /\ DropResponse(r)
    /\ UNCHANGED <<published, stopped, next_request, queue, controls, collections, op, query,
                   reply, opened, worker, custody, owner>>

------------------------------------------------------------------------------
GoTo(pc) == worker' = [worker EXCEPT !.pc = pc]

\* drive: releases first, then the oldest request; the wait is the absence of both.
Take ==
    /\ worker.pc = "drive" /\ ~stopped /\ published
    /\ \/ /\ releases # <<>>
          /\ worker' = [worker EXCEPT !.pc = "release", !.token = Last(releases)]
          /\ releases' = Front(releases)
          /\ UNCHANGED queue
       \/ /\ releases = <<>> /\ queue # <<>>
          /\ worker' = [pc |-> "begin", req |-> Head(queue), token |-> 0, result |-> "pending"]
          /\ queue' = Tail(queue)
          /\ UNCHANGED releases
    /\ UNCHANGED <<published, stopped, next_request, controls, collections, request, custody,
                   owner>>

DriveEnds ==
    /\ worker.pc = "drive" /\ stopped
    /\ GoTo("stop")
    /\ UNCHANGED <<signal, request, custody, owner>>

Without(s, t) == SelectSeq(s, LAMBDA e : e # t)

\* release_frozen_read answers Ok or Released, or fails.
ReleaseRead(t, then, else) ==
    \/ /\ held' = held \ {t} /\ UNCHANGED faults
       /\ then
    \/ /\ faults > 0 /\ faults' = faults - 1 /\ UNCHANGED held
       /\ else

\* CatalogQueryOwner::release; a failure, or an unknown token, ends the worker.
Release ==
    LET t == worker.token IN
    /\ worker.pc = "release"
    /\ \/ /\ t \in Range(entries)
          /\ ReleaseRead(t,
               entries' = Without(entries, t) /\ retiring' = retiring \ {t} /\ GoTo("forget")
                 /\ UNCHANGED failure,
               retiring' = retiring \cup {t} /\ failure' = TRUE /\ GoTo("stop")
                 /\ UNCHANGED entries)
       \/ /\ t \notin Range(entries)
          /\ failure' = TRUE /\ GoTo("stop")
          /\ UNCHANGED <<entries, retiring, held, faults>>
    /\ UNCHANGED <<signal, request, next_query, unadmitted, panicked, owner>>

Forget ==
    /\ worker.pc = "forget"
    /\ collections' = collections \ {worker.token}
    /\ worker' = [worker EXCEPT !.pc = "drive", !.token = 0]
    /\ UNCHANGED <<published, stopped, next_request, queue, controls, releases, request, custody,
                   owner>>

Answer(result) == worker' = [worker EXCEPT !.pc = "performed", !.result = result]

\* drive: a cancelled request, or one whose receiver is gone, is not performed.
Begin ==
    /\ worker.pc = "begin"
    /\ IF cancelled[worker.req] \/ client[worker.req] = "gone"
         THEN Answer("Cancelled") ELSE GoTo("perform")
    /\ UNCHANGED <<signal, request, custody, owner>>

\* A panic inside perform: the request is dropped unanswered, the custody stays.
Unwind ==
    /\ panicked' = TRUE
    /\ reply' = [reply EXCEPT ![worker.req] = "closed"]
    /\ GoTo("stop")

\* perform, an operation on an open collection that opens none.
PerformPage ==
    /\ worker.pc = "perform" /\ op[worker.req] = "page"
    /\ \/ /\ query[worker.req] \in Range(entries) \ retiring
          /\ Answer("ok") /\ UNCHANGED <<reply, panicked>>
       \/ Answer("error") /\ UNCHANGED <<reply, panicked>>
       \/ Unwind
    /\ UNCHANGED <<signal, op, query, cancelled, opened, client, handle, next_query, entries,
                   retiring, unadmitted, failure, held, faults, owner>>

\* perform, open: retain_source may refuse; the retained read is noted as unadmitted.
RetainSource ==
    /\ worker.pc = "perform" /\ op[worker.req] = "open"
    /\ \/ Answer("error") /\ UNCHANGED <<held, unadmitted>>
       \/ /\ held' = held \cup {next_query} /\ unadmitted' = <<next_query>>
          /\ GoTo("open")
    /\ UNCHANGED <<signal, request, next_query, entries, retiring, failure, panicked, faults,
                   owner>>

\* perform, refine: the owner retains another read of the source collection.
RetainFrozen ==
    /\ worker.pc = "perform" /\ op[worker.req] = "refine"
    /\ \/ Answer("error") /\ UNCHANGED held
       \/ /\ query[worker.req] \in Range(entries) \ retiring
          /\ Len(entries) < CollectionLimit /\ ~cancelled[worker.req]
          /\ held' = held \cup {next_query}
          /\ GoTo("open")
    /\ UNCHANGED <<signal, request, next_query, entries, retiring, unadmitted, failure, panicked,
                   faults, owner>>

\* Mutant: a refused open forgets the read that was handed back to it.
RefuseForgets ==
    /\ worker.pc = "open" /\ unadmitted # <<>>
    /\ unadmitted' = <<>> /\ Answer("error")
    /\ UNCHANGED <<signal, request, next_query, entries, retiring, failure, panicked, held,
                   faults, owner>>

\* CatalogQueryOwner::open refuses and hands the read back: release_unadmitted.
Refuse ==
    /\ worker.pc = "open" /\ unadmitted # <<>>
    /\ ReleaseRead(Head(unadmitted), unadmitted' = <<>> /\ UNCHANGED failure,
                                     failure' = TRUE /\ UNCHANGED unadmitted)
    /\ Answer("error")
    /\ UNCHANGED <<signal, request, next_query, entries, retiring, panicked, owner>>

\* open and refine admit the read as an entry, then prepare its first page.
Prepare ==
    LET t == next_query IN
    /\ worker.pc = "open" /\ Len(entries) < CollectionLimit
    /\ next_query' = t + 1
    /\ \/ /\ entries' = Append(entries, t) /\ unadmitted' = <<>>
          /\ worker' = [worker EXCEPT !.pc = "publish", !.token = t]
          /\ UNCHANGED <<retiring, held, faults, reply, panicked>>
       \/ /\ ReleaseRead(t, UNCHANGED <<entries, retiring>>,
                            entries' = Append(entries, t) /\ retiring' = retiring \cup {t})
          /\ unadmitted' = <<>> /\ Answer("error")
          /\ UNCHANGED <<reply, panicked>>
       \/ /\ entries' = Append(entries, t) /\ Unwind
          /\ UNCHANGED <<retiring, held, faults, unadmitted>>
    /\ UNCHANGED <<signal, op, query, cancelled, opened, client, handle, failure, owner>>

\* perform: the collection becomes admissible and its handle is put in the response.
Publish ==
    /\ worker.pc = "publish"
    /\ collections' = collections \cup {worker.token}
    /\ handle' = [handle EXCEPT ![worker.token] = "response"]
    /\ opened' = [opened EXCEPT ![worker.req] = worker.token]
    /\ Answer("ok")
    /\ UNCHANGED <<published, stopped, next_request, queue, controls, releases, op, query,
                   cancelled, reply, client, custody, owner>>

\* drive: a request cancelled meanwhile loses its response.
Recheck ==
    /\ worker.pc = "performed"
    /\ IF cancelled[worker.req]
         THEN /\ worker' = [worker EXCEPT !.pc = "settle", !.result = "Cancelled"]
              /\ IF worker.result = "ok" THEN DropResponse(worker.req)
                                         ELSE UNCHANGED <<releases, cancelled, handle>>
         ELSE GoTo("settle") /\ UNCHANGED <<releases, cancelled, handle>>
    /\ UNCHANGED <<published, stopped, next_request, queue, controls, collections, op, query,
                   reply, opened, client, custody, owner>>

\* drive: the control is removed; a stop since then retires the response.
Settle ==
    LET r == worker.req IN
    /\ worker.pc = "settle"
    /\ controls' = controls \ {r}
    /\ IF stopped
         THEN /\ worker' = [worker EXCEPT !.pc = "send", !.result = "Retired"]
              /\ handle' = IF worker.result = "ok" /\ opened[r] # 0
                             THEN [handle EXCEPT ![opened[r]] = "dropped"] ELSE handle
         ELSE GoTo("send") /\ UNCHANGED handle
    /\ UNCHANGED <<published, stopped, next_request, queue, collections, releases, op, query,
                   cancelled, reply, opened, client, custody, owner>>

\* Mutant: an answer nobody receives is forgotten with its collection.
SendForgets ==
    LET r == worker.req IN
    /\ worker.pc = "send"
    /\ reply' = [reply EXCEPT ![r] = worker.result]
    /\ handle' = IF client[r] = "gone" /\ worker.result = "ok" /\ opened[r] # 0
                   THEN [handle EXCEPT ![opened[r]] = "dropped"] ELSE handle
    /\ GoTo(IF unadmitted # <<>> THEN "stop" ELSE "drive")
    /\ UNCHANGED <<signal, op, query, cancelled, opened, client, custody, owner>>

\* reply.send; a receiver that is gone hands the response back to be dropped.
Send ==
    LET r == worker.req IN
    /\ worker.pc = "send"
    /\ reply' = [reply EXCEPT ![r] = worker.result]
    /\ IF client[r] = "gone" /\ worker.result = "ok"
         THEN DropResponse(r) ELSE UNCHANGED <<releases, cancelled, handle>>
    /\ GoTo(IF unadmitted # <<>> THEN "stop" ELSE "drive")
    /\ UNCHANGED <<published, stopped, next_request, queue, controls, collections, op, query,
                   opened, client, custody, owner>>

\* admission::stop
CancelControls == cancelled' = [r \in Requests |-> cancelled[r] \/ r \in controls]

\* Mutant: the worker leaves the queue as it is when it ends.
CloseUnanswered ==
    /\ worker.pc = "stop"
    /\ stopped' = TRUE /\ published' = FALSE
    /\ CancelControls
    /\ controls' = {} /\ collections' = {} /\ releases' = <<>> /\ queue' = <<>>
    /\ GoTo("retire")
    /\ UNCHANGED <<next_request, op, query, reply, opened, client, handle, custody, owner>>

\* run, after drive: stop, clear the signal and answer what is still queued.
WorkerCloses ==
    /\ worker.pc = "stop"
    /\ stopped' = TRUE /\ published' = FALSE
    /\ CancelControls
    /\ controls' = {} /\ collections' = {} /\ releases' = <<>> /\ queue' = <<>>
    /\ reply' = [r \in Requests |-> IF r \notin Range(queue) THEN reply[r]
                                    ELSE IF panicked THEN "Panicked" ELSE "Retired"]
    /\ GoTo("retire")
    /\ UNCHANGED <<next_request, op, query, opened, client, handle, custody, owner>>

\* WorkerCustody::retire: the owner's reads in order, then the unadmitted one.
Retire(done, failed) ==
    LET owed == entries \o SelectSeq(unadmitted, LAMBDA t : t \notin Range(entries)) IN
    \/ /\ held' = held \ Range(owed) /\ entries' = <<>> /\ retiring' = {} /\ unadmitted' = <<>>
       /\ UNCHANGED faults
       /\ done
    \/ \E n \in 0..(Len(owed) - 1) :
         /\ faults > 0 /\ faults' = faults - 1
         /\ held' = held \ Range(SubSeq(owed, 1, n))
         /\ entries' = SubSeq(entries, n + 1, Len(entries))
         /\ retiring' = Range(entries')
         /\ UNCHANGED unadmitted
         /\ failed

\* run, at last: a failure or a panic of the retirement is kept in the custody.
WorkerRetires ==
    /\ worker.pc = "retire"
    /\ GoTo("done")
    /\ \/ Retire(UNCHANGED <<failure, panicked>>, failure' = TRUE /\ UNCHANGED panicked)
       \/ /\ panicked' = TRUE /\ retiring' = Range(entries)
          /\ UNCHANGED <<entries, unadmitted, failure, held, faults>>
    /\ UNCHANGED <<signal, request, next_query, owner>>

------------------------------------------------------------------------------
ServicePublishes ==
    /\ service = "prepared"
    /\ published' = TRUE /\ service' = "running"
    /\ UNCHANGED <<stopped, next_request, queue, controls, collections, releases, request, worker,
                   custody, returned>>

\* Mutant: stop withdraws the service without telling the worker.
StopWithoutWake ==
    /\ service \in {"prepared", "running"}
    /\ published' = FALSE
    /\ CancelControls
    /\ service' = "joining"
    /\ UNCHANGED <<stopped, next_request, queue, controls, collections, releases, op, query,
                   reply, opened, client, handle, worker, custody, returned>>

\* stop_and_join: stop admission and cancel everything admitted.
ServiceStops ==
    /\ service \in {"prepared", "running"}
    /\ stopped' = TRUE /\ published' = FALSE
    /\ CancelControls
    /\ service' = "joining"
    /\ UNCHANGED <<next_request, queue, controls, collections, releases, op, query, reply, opened,
                   client, handle, worker, custody, returned>>

ServiceJoins ==
    /\ service = "joining" /\ worker.pc = "done"
    /\ service' = "joined"
    /\ UNCHANGED <<signal, request, worker, custody, returned>>

\* Mutant: a failed retirement is reported as the end of the service.
RetireOnce ==
    /\ service = "joined"
    /\ Retire(UNCHANGED <<failure, panicked>>, UNCHANGED <<failure, panicked>>)
    /\ returned' = "ok" /\ service' = "settled"
    /\ UNCHANGED <<signal, request, worker, next_query>>

\* stop_and_join: retire the custody; one kept error is returned at a time, and
\* a caller that got an error calls again.
ServiceRetires ==
    /\ service = "joined"
    /\ Retire(IF failure THEN /\ returned' = "Failure" /\ failure' = FALSE
                              /\ UNCHANGED <<panicked, service>>
              ELSE IF panicked THEN /\ returned' = "Panicked" /\ panicked' = FALSE
                                    /\ UNCHANGED <<failure, service>>
              ELSE /\ returned' = "ok" /\ service' = "settled"
                   /\ UNCHANGED <<failure, panicked>>,
              returned' = "Retirement" /\ UNCHANGED <<failure, panicked, service>>)
    /\ UNCHANGED <<signal, request, worker, next_query>>

Work == \/ Take \/ DriveEnds \/ Release \/ Forget \/ Begin
        \/ PerformPage \/ RetainSource \/ RetainFrozen \/ Refuse \/ Prepare \/ Publish
        \/ Recheck \/ Settle \/ Send \/ WorkerCloses \/ WorkerRetires
Consume(r) == Receive(r) \/ Qualify(r) \/ Discard(r) \/ DropReceiver(r)
Own == ServiceJoins \/ ServiceRetires

Next ==
    \/ Open \/ Operate
    \/ \E t \in Tokens : ClientDrops(t)
    \/ \E r \in Requests : Cancel(r) \/ Consume(r)
    \/ Work
    \/ ServicePublishes \/ ServiceStops \/ Own

Spec == Init /\ [][Next]_vars

\* The worker thread runs, a consumer polls what it awaits, and a stop that began is finished.
FairSpec == Spec /\ WF_vars(Work) /\ (\A r \in Requests : WF_vars(Consume(r))) /\ WF_vars(Own)

------------------------------------------------------------------------------
(* The reads the home holds for the service are exactly those the custody    *)
(* answers for: an entry of the query owner, the read of an open in          *)
(* progress or refused, or the one a refinement just retained                *)
(* (catalog_query/worker.rs:28-57, catalog/query/owner.rs:59-77).            *)
CustodyExact ==
    held = Range(entries) \cup Range(unadmitted)
             \cup (IF worker.pc = "open" THEN {next_query} ELSE {})

(* While the service runs, an open collection whose handle is gone, dropped  *)
(* by its client, by a consumer that gave up or with an answer nobody took,  *)
(* is queued for release or being released; a release that failed ends the   *)
(* service (catalog_query/admission.rs:279-298).                             *)
ReleaseOwed ==
    \A t \in Tokens :
      (handle[t] = "dropped" /\ t \in Range(entries) /\ ~stopped)
        => t \in Range(releases) \/ (worker.token = t /\ worker.pc \in {"release", "stop"})

(* A request the worker performs without it being cancelled names a          *)
(* collection the query owner still holds and does not retire: a client      *)
(* never meets Released on a collection it has not dropped                   *)
(* (catalog_query/admission.rs:33-37, 289-293, worker.rs:125-138).           *)
NeverStale ==
    LET r == worker.req IN
    (worker.pc = "perform" /\ op[r] # "open" /\ ~cancelled[r])
      => query[r] \in Range(entries) \ retiring

(* When stop_and_join returns without error, the home holds no read for this *)
(* service, every request was answered, and no kept failure is left          *)
(* (catalog_query.rs:365-381).                                               *)
SettledIsDrained ==
    returned = "ok" =>
      /\ held = {} /\ ~failure /\ ~panicked
      /\ \A r \in Requests : client[r] # "none" => reply[r] # "pending"

(* Late completion after dismissal is discarded: a page whose collection was *)
(* dropped before the response is checked is not accepted                    *)
(* (catalog_query/admission.rs:3-14, catalog_query.rs:191-193).              *)
DismissedIsDiscarded ==
    [][\A r \in Requests : client[r] = "received" /\ client'[r] = "accepted" /\ query[r] # 0
         => handle[query[r]] # "dropped"]_vars

(* Every admitted request is answered: performed, cancelled, refused, or     *)
(* closed with the service (catalog_query/worker.rs:83-89, 175).             *)
EveryRequestEnds == \A r \in Requests : client[r] = "waiting" ~> client[r] # "waiting"

(* A dropped collection's read is given back, unless a release failed        *)
(* (catalog_query/worker.rs:125-139).                                        *)
DroppedIsReleased == \A t \in Tokens : handle[t] = "dropped" ~> t \notin held \/ stopped

(* A stop that begins ends with the service settled                          *)
(* (catalog_query.rs:365-381).                                               *)
StopSettles == service = "joining" ~> service = "settled"

=============================================================================
