----------------------------- MODULE ThemeWatch -----------------------------
(* crates/beryl-home-store/src/theme/watcher.rs: the thread that polls the   *)
(* theme files of a home and the bounded queue of hints it fills, with the   *)
(* subscriber of beryl-app/src/theme_runtime/service.rs, which takes a batch *)
(* of hints and then rereads the files they name.                            *)
(*                                                                           *)
(* A file is seen by the version of its stamp (length, modification time and *)
(* digest), which every write changes.  Files are stamped one at a time      *)
(* while others write them; an observation that fails, or finds more entries *)
(* than its limit, is one that compares unequal to every other.              *)
EXTENDS Integers, Sequences, SequencesExt, FiniteSets

CONSTANTS
    Manifest, Documents,    \* manifest.toml and the installed documents
    Active,         \* the document of the theme in use
    Capacity,       \* ThemeWatchLimits::queue_capacity
    MaxDrain,       \* max_hints_per_drain
    MaxVersion,     \* the bound on the writes of one file
    Overflow        \* ThemeWatchHint::Overflow; the other hints are the files

Files == Documents \cup {Manifest}
Followed == {Manifest, Active}  \* what the subscriber loads
Unseen == -1        \* not stamped yet, or not loaded yet

VARIABLES
    version,        \* the files
    healthy,        \* the home still has the watcher's generation
    queue, shutdown, released,  \* QueueState
    pc,             \* the worker: dormant, first, announce, wait, scan, emit, done
    previous,       \* its last observation: <<stamps>>, or <<>> when it failed
    scanned,        \* the stamps taken so far by the observation under way
    emitting,       \* the files whose change it has still to push
    known,          \* the version of each file the subscriber loaded
    batch,          \* the hints of the batch the subscriber is taking
    todo            \* the files it has still to reread for its batch

files == <<version, healthy>>
state == <<queue, shutdown, released>>
worker == <<pc, previous, scanned, emitting>>
subscriber == <<known, batch, todo>>
vars == <<files, state, worker, subscriber>>

Stamps == [Files -> 0..MaxVersion]
Nothing == [f \in Files |-> Unseen]

\* One type invariant: the queue, the worker and the subscriber.
TypeOK ==
    /\ version \in Stamps /\ healthy \in BOOLEAN
    /\ queue \in BoundedSeq(Files \cup {Overflow}, Capacity)
    /\ shutdown \in BOOLEAN /\ released \in BOOLEAN
    /\ pc \in {"dormant", "first", "announce", "wait", "scan", "emit", "done"}
    /\ previous \in {<<>>} \cup {<<s>> : s \in Stamps}
    /\ scanned \in [Files -> 0..MaxVersion \cup {Unseen}]
    /\ emitting \subseteq Files
    /\ known \in [Followed -> 0..MaxVersion \cup {Unseen}]
    /\ batch \in BoundedSeq(Files \cup {Overflow}, MaxDrain) /\ todo \subseteq Followed

(* subscribe_theme_changes: a dormant worker has observed nothing; another   *)
(* starts from the observation made here, or from Overflow when it failed.   *)
Init ==
    /\ version = [f \in Files |-> 0] /\ healthy = TRUE
    /\ shutdown = FALSE
    /\ \/ pc = "dormant" /\ released = FALSE /\ previous = <<>> /\ queue = <<>>
       \/ pc = "wait" /\ released = TRUE /\ previous = <<version>> /\ queue = <<>>
       \/ pc = "wait" /\ released = TRUE /\ previous = <<>> /\ queue = <<Overflow>>
    /\ scanned = Nothing /\ emitting = {}
    /\ known = [f \in Followed |-> Unseen] /\ batch = <<>> /\ todo = {}

-----------------------------------------------------------------------------
(* The environment: another program writes a file, the home fails.           *)

Write(f) ==
    /\ version[f] < MaxVersion
    /\ version' = [version EXCEPT ![f] = @ + 1]
    /\ UNCHANGED <<healthy, state, worker, subscriber>>

HomeFails ==
    /\ healthy /\ healthy' = FALSE
    /\ UNCHANGED <<version, state, worker, subscriber>>

-----------------------------------------------------------------------------
(* WatchShared.                                                              *)

\* Mutant: a full queue drops the hint.
PushDropping(q, hint) ==
    IF Contains(q, Overflow) \/ Len(q) = Capacity \/ Contains(q, hint) THEN q
    ELSE Append(q, hint)

\* Mutant: a hint already queued is queued again.
PushRepeating(q, hint) ==
    IF Contains(q, Overflow) THEN q
    ELSE IF hint = Overflow \/ Len(q) = Capacity THEN <<Overflow>> ELSE Append(q, hint)

\* Mutant: the capacity is not checked.
PushUnbounded(q, hint) ==
    IF Contains(q, Overflow) \/ Contains(q, hint) THEN q
    ELSE IF hint = Overflow THEN <<Overflow>> ELSE Append(q, hint)

(* push, unless shut down: hints coalesce, and a full queue becomes Overflow.*)
Pushed(q, hint) ==
    CASE Contains(q, Overflow) -> q
      [] hint = Overflow \/ Len(q) = Capacity -> <<Overflow>>
      [] Contains(q, hint) -> q
      [] OTHER -> Append(q, hint)

Push(hint) == queue' = IF shutdown THEN queue ELSE Pushed(queue, hint)

(* release, after the generation was published.                              *)
Release ==
    /\ ~released /\ ~shutdown
    /\ released' = TRUE
    /\ UNCHANGED <<files, queue, shutdown, worker, subscriber>>

(* shutdown by the subscription's drop, or by the store's coordinator.       *)
Shutdown ==
    /\ ~shutdown
    /\ shutdown' = TRUE /\ queue' = <<>>
    /\ UNCHANGED <<files, released, worker, subscriber>>

-----------------------------------------------------------------------------
(* The worker.                                                               *)

(* The generation is not live any more: the queue is shut down.              *)
Retire ==
    /\ pc' = "done" /\ shutdown' = TRUE /\ queue' = <<>>
    /\ UNCHANGED <<files, released, previous, scanned, emitting, subscriber>>

\* Mutant: a dormant worker waits for its release alone.
ReleasedOnly ==
    /\ pc = "dormant" /\ released
    /\ IF ~healthy THEN Retire
       ELSE pc' = "first" /\ UNCHANGED <<files, state, previous, scanned, emitting, subscriber>>

(* wait_for_release and the first check of the home's health.                *)
Released ==
    /\ pc = "dormant" /\ (released \/ shutdown)
    /\ IF shutdown THEN pc' = "done" /\ UNCHANGED <<files, state, previous, scanned,
                                                    emitting, subscriber>>
       ELSE IF ~healthy THEN Retire
       ELSE pc' = "first" /\ UNCHANGED <<files, state, previous, scanned, emitting, subscriber>>

(* wait_interval, then the health check; a poll starts.                      *)
Poll ==
    /\ pc = "wait"
    /\ IF shutdown THEN pc' = "done" /\ UNCHANGED <<files, state, previous, scanned,
                                                    emitting, subscriber>>
       ELSE IF ~healthy THEN Retire
       ELSE pc' = "scan" /\ UNCHANGED <<files, state, previous, scanned, emitting, subscriber>>

(* observe: one file's stamp.                                                *)
Stamp(f) ==
    /\ pc \in {"first", "scan"} /\ scanned[f] = Unseen
    /\ scanned' = [scanned EXCEPT ![f] = version[f]]
    /\ UNCHANGED <<files, state, pc, previous, emitting, subscriber>>

(* An observation ends, complete or with an error.                           *)
Observations ==
    (IF \A f \in Files : scanned[f] # Unseen THEN {<<scanned>>} ELSE {}) \cup {<<>>}

(* The first observation of a dormant worker.                                *)
Observed ==
    /\ pc = "first"
    /\ previous' \in Observations /\ scanned' = Nothing
    /\ pc' = "announce"
    /\ UNCHANGED <<files, state, emitting, subscriber>>

\* Mutant: what was loaded before the first observation is taken for current.
AnnounceNothing ==
    /\ pc = "announce" /\ pc' = "wait"
    /\ UNCHANGED <<files, state, previous, scanned, emitting, subscriber>>

(* "A postpublication load may precede this first observation."              *)
Announce ==
    /\ pc = "announce" /\ pc' = "wait"
    /\ Push(Overflow)
    /\ UNCHANGED <<files, shutdown, released, previous, scanned, emitting, subscriber>>

(* A later observation: emit_changes against the previous one, or Overflow   *)
(* when either failed.                                                       *)
Compare ==
    /\ pc = "scan"
    /\ previous' \in Observations /\ scanned' = Nothing
    /\ IF previous = <<>> \/ previous' = <<>>
       THEN Push(Overflow) /\ pc' = "wait" /\ UNCHANGED emitting
       ELSE /\ emitting' = {f \in Files : previous[1][f] # previous'[1][f]}
            /\ pc' = "emit" /\ UNCHANGED queue
    /\ UNCHANGED <<files, shutdown, released, subscriber>>

Emit ==
    /\ pc = "emit"
    /\ \/ \E f \in emitting : Push(f) /\ emitting' = emitting \ {f} /\ UNCHANGED pc
       \/ emitting = {} /\ pc' = "wait" /\ UNCHANGED <<queue, emitting>>
    /\ UNCHANGED <<files, shutdown, released, previous, scanned, subscriber>>

WorkerStep == Released \/ Poll \/ Observed \/ Announce \/ Compare \/ Emit \/ \E f \in Files : Stamp(f)

-----------------------------------------------------------------------------
(* The subscriber: load_initial, take_change_hints, and the rereads.         *)

(* The first load, of each file.                                             *)
Load(f) ==
    /\ known[f] = Unseen
    /\ known' = [known EXCEPT ![f] = version[f]]
    /\ UNCHANGED <<files, state, worker, batch, todo>>

Loaded == \A f \in Followed : known[f] # Unseen

(* try_recv of one more hint of the batch.                                   *)
TakeHint ==
    /\ Loaded /\ todo = {} /\ Len(batch) < MaxDrain /\ queue # <<>>
    /\ batch' = Append(batch, Head(queue)) /\ queue' = Tail(queue)
    /\ UNCHANGED <<files, shutdown, released, worker, known, todo>>

(* consume_change_hints_inner: Overflow and the manifest reread both, a hint *)
(* for another document nothing.                                             *)
Named(hints) ==
    IF Contains(hints, Overflow) \/ Contains(hints, Manifest) THEN Followed
    ELSE ToSet(hints) \cap Followed

Consume ==
    /\ batch # <<>> /\ todo = {} /\ (queue = <<>> \/ Len(batch) = MaxDrain)
    /\ todo' = Named(batch) /\ batch' = <<>>
    /\ UNCHANGED <<files, state, worker, known>>

(* refresh_repository and reload_active_document, a file at a time.          *)
Reread(f) ==
    /\ f \in todo
    /\ known' = [known EXCEPT ![f] = version[f]]
    /\ todo' = todo \ {f}
    /\ UNCHANGED <<files, state, worker, batch>>

SubscriberStep == TakeHint \/ Consume \/ \E f \in Followed : Load(f) \/ Reread(f)

-----------------------------------------------------------------------------
Next ==
    \/ \E f \in Files : Write(f)
    \/ HomeFails \/ Release \/ Shutdown
    \/ WorkerStep \/ SubscriberStep

Spec == Init /\ [][Next]_vars

(* Both threads run, a poll takes finite time, and the publication of the    *)
(* generation releases a dormant worker or the subscription is dropped.      *)
FairSpec ==
    /\ Spec
    /\ WF_vars(WorkerStep) /\ WF_vars(SubscriberStep)
    /\ \A f \in Files : WF_vars(Stamp(f))
    /\ WF_vars(Release)

-----------------------------------------------------------------------------
(* What the next comparison of a file will find changed.                     *)
WillDiffer(f) ==
    \/ pc \in {"dormant", "first", "announce"}
    \/ previous = <<>>
    \/ previous[1][f] # version[f]
    \/ scanned[f] \notin {Unseen, previous[1][f]}

(* No change is lost: a file the subscriber loaded and that has changed      *)
(* since is named by a hint it has queued, taken or is acting upon, or will  *)
(* be by a comparison still to come.  Coalescing, a full queue, failed       *)
(* observations, writes during a scan and during a reread, and a load before *)
(* the first observation included (watcher.rs:83-101, 245-268, 358-367).     *)
NoChangeLost ==
    ~shutdown => \A f \in Followed :
        known[f] \notin {Unseen, version[f]} =>
            \/ f \in todo \/ f \in emitting
            \/ \E h \in ToSet(queue) \cup ToSet(batch) : h \in {f, Overflow}
            \/ WillDiffer(f)

(* The queue holds each hint once, and Overflow alone: its length never      *)
(* passes the capacity and a subscriber that takes Overflow has taken        *)
(* everything (watcher.rs:91-99).                                           *)
QueueCoalesced ==
    IsInjective(queue) /\ (Contains(queue, Overflow) => Len(queue) = 1)

(* A change reaches the subscriber: when the files are left alone it ends up *)
(* with what they hold, or its subscription was shut down.                   *)
ChangesArrive ==
    \A v \in Stamps :
        <>[](version = v) => <>((\A f \in Followed : known[f] = v[f]) \/ shutdown)

(* Once shut down, by either side, the worker ends, so that the join in the  *)
(* subscription's drop returns (types.rs:360-366).                           *)
WorkerEnds == shutdown ~> pc = "done"
=============================================================================
