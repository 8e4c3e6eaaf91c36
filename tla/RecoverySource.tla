--------------------------- MODULE RecoverySource ---------------------------
(* crates/beryl-app/src/cas_projection/connection/recovery_source_broker.rs  *)
(* composed with the page pool: the connection's driver thread replays a     *)
(* recovery history that another thread reads from the database.  The driver *)
(* leases the pool's only page, sends it with its request over one fixed     *)
(* channel of capacity one, and gets it back filled over another.            *)
(*                                                                           *)
(* The channels are used at their specification (module BoundedFifo): a send *)
(* waits for room and fails when the receiver is gone, a receive waits for a *)
(* message and fails when the ring is empty and the sender is gone.  The     *)
(* 20 ms polls only count waits and try again, so they are left out.         *)
EXTENDS Integers, Sequences, FiniteSets

CONSTANTS
    MaxHistory,       \* bound on the pages of a history
    MaxGeneration, CounterMax

ASSUME HistoryAssumption == MaxHistory \in Nat \ {0}
ASSUME WidthAssumption == MaxGeneration \in Nat \ {0} /\ CounterMax \in Nat

Sides == {"driver", "service"}
Pages == {"page"}
Capacity == 1

VARIABLES
    available, leased, high_water, total_leases, exhausted, next_generation,
    bytes, leases,                        \* the pool, see PagePool
    requests, replies,                    \* the rings of the two channels
    open,                                 \* channel halves not yet dropped
    driver, service,                      \* next step of the two threads
    result,                               \* what next_page of the service returned
    history,                              \* pages the recovery cursor yields before its end
    cursor,                               \* pages the recovery cursor has yielded
    replayed,                             \* page numbers the driver has written, in order
    logical_pages,                        \* RecoveryReplayCounters
    final_capacity                        \* empty until it is captured

Pool == INSTANCE PagePool WITH Threads <- Sides

pool == <<available, leased, high_water, total_leases, exhausted, next_generation,
          bytes, leases>>
channels == <<requests, replies, open>>
facts == <<history, cursor, replayed, logical_pages, final_capacity>>
replayVars == <<pool, channels, driver, service, result, facts>>

Halves == {"request_sender", "reply_receiver", "request_receiver", "reply_sender"}
Answers == {"Page", "End", "Error"}
Nothing == "Nothing"

\* One type invariant: the threads, the rings and what they carry.
ReplayTypeOK ==
    /\ Pool!TypeOK
    /\ requests \in {<<>>, <<"NextPage">>, <<"Finished">>}
    /\ replies \in {<<>>} \cup {<<a>> : a \in Answers} /\ open \subseteq Halves
    /\ driver \in {"queued", "call", "send", "wait", "read", "drop", "return", "reject", "end",
                   "unwind", "unwound", "finish", "close_requests", "close_replies", "done"}
    /\ service \in {"recv", "serve", "drop", "return", "reply",
                    "close_requests", "close_replies", "done"}
    /\ result \in Answers \cup {Nothing}
    /\ history \in 1..MaxHistory /\ cursor \in 0..history /\ logical_pages \in 0..history
    /\ replayed \in Seq(0..history)
    /\ final_capacity \in {<<>>} \cup
        {<<c>> : c \in [leased : {0, 1}, requests : {0, 1}, replies : {0, 1}, pages : 0..history]}

ReplayInit ==
    /\ Pool!Init
    /\ requests = <<>> /\ replies = <<>> /\ open = Halves
    /\ driver = "queued" /\ service = "recv" /\ result = Nothing
    /\ history \in 1..MaxHistory /\ cursor = 0 /\ replayed = <<>>
    /\ logical_pages = 0 /\ final_capacity = <<>>

TheLease(t) == CHOOSE l \in Pool!Held(t) : TRUE
InFlight == CHOOSE l \in leases : ~l.live

-----------------------------------------------------------------------------
(* The driver thread: call_classified_with_recovery_source's operation and   *)
(* RemoteRecoverySource.                                                     *)

\* The queued command runs, or is rejected and dropped with its source.
Dispatch ==
    /\ driver = "queued" /\ driver' \in {"call", "close_requests"}
    /\ UNCHANGED <<pool, channels, service, result, facts>>

\* next_page up to the lease; without a page the replay ends as Unavailable.
NextPage ==
    /\ driver = "call"
    /\ \/ Pool!TryLease("driver") /\ driver' = "send"
       \/ Pool!TryLeaseFails /\ driver' = "finish"
    /\ UNCHANGED <<channels, service, result, facts>>

\* send_request(NextPage): the page travels with the request; a failure ends the replay.
SendRequest ==
    /\ driver = "send"
    /\ IF "request_receiver" \in open
       THEN /\ Len(requests) < Capacity /\ requests' = Append(requests, "NextPage")
            /\ driver' = "wait"
       ELSE driver' = "reject" /\ UNCHANGED requests
    /\ UNCHANGED <<pool, replies, open, service, result, facts>>

\* The reply loop of next_page.
ReceiveReply ==
    /\ driver = "wait"
    /\ \/ /\ replies # <<>> /\ replies' = Tail(replies)
          /\ IF Head(replies) = "Page"
             THEN Pool!Move(TheLease("service"), "driver") /\ driver' = "read"
             ELSE UNCHANGED pool /\ driver' = "finish"
       \/ /\ replies = <<>> /\ "reply_sender" \notin open /\ driver' = "finish"
          /\ UNCHANGED <<pool, replies>>
    /\ UNCHANGED <<requests, open, service, result, facts>>

\* Mutant: the replay asks for the next page while it still holds this one.
ReadAhead ==
    /\ driver = "read" /\ driver' = "call"
    /\ replayed' = Append(replayed, cursor)
    /\ UNCHANGED <<pool, channels, service, result, history, cursor, logical_pages,
                   final_capacity>>

\* The replay writes the text of the page, which is the cursor's, or it stops at
\* this page: it is empty, too large, out of its sequence or beyond a limit of the
\* accumulator, or the transport fails.
ReadPage ==
    /\ driver = "read"
    /\ LET l == TheLease("driver")
       IN  \/ /\ replayed' = Append(replayed,
                   IF l.filled /\ bytes[l.page] = l.generation THEN cursor ELSE 0)
              /\ driver' = "drop"
           \/ UNCHANGED replayed /\ driver' = "reject"
    /\ UNCHANGED <<pool, channels, service, result, history, cursor, logical_pages,
                   final_capacity>>

\* The operation unwinds: it drops its page, if it has one, and the source.
DriverUnwinds ==
    /\ \/ driver \in {"call", "finish"} /\ driver' = "close_requests"
       \/ driver = "read" /\ driver' = "unwind"
    /\ UNCHANGED <<pool, channels, service, result, facts>>

DriverDrops ==
    /\ \/ driver = "drop" /\ driver' = "return"
       \/ driver = "reject" /\ driver' = "end"
       \/ driver = "unwind" /\ driver' = "unwound"
    /\ Pool!DropLease(TheLease("driver"))
    /\ UNCHANGED <<channels, service, result, facts>>

\* The page is back; the replay goes on, or ends on an error of the transport.
DriverReturns ==
    /\ \/ driver = "return" /\ driver' \in {"call", "finish"}
       \/ driver = "end" /\ driver' = "finish"
       \/ driver = "unwound" /\ driver' = "close_requests"
    /\ Pool!ReturnPage(InFlight)
    /\ UNCHANGED <<channels, service, result, facts>>

\* finish(self): the outcome is sent, or dropped with the service gone.
Finish ==
    /\ driver = "finish"
    /\ IF "request_receiver" \in open
       THEN Len(requests) < Capacity /\ requests' = Append(requests, "Finished")
       ELSE UNCHANGED requests
    /\ driver' = "close_requests"
    /\ UNCHANGED <<pool, replies, open, service, result, facts>>

DriverCloses ==
    /\ \/ driver = "close_requests" /\ driver' = "close_replies"
          /\ open' = open \ {"request_sender"}
       \/ driver = "close_replies" /\ driver' = "done" /\ open' = open \ {"reply_receiver"}
    /\ UNCHANGED <<pool, requests, replies, service, result, facts>>

-----------------------------------------------------------------------------
(* The thread of service_until_finished.                                     *)

Capacities == [leased |-> leased, requests |-> Len(requests'), replies |-> Len(replies),
               pages |-> logical_pages]

\* Mutant: the end of the requests is not noticed.
ReceiveOnly ==
    /\ service = "recv" /\ requests # <<>>
    /\ requests' = Tail(requests)
    /\ IF Head(requests) = "NextPage"
       THEN /\ Pool!Move(TheLease("driver"), "service") /\ service' = "serve"
            /\ UNCHANGED final_capacity
       ELSE final_capacity' = <<Capacities>> /\ service' = "close_requests" /\ UNCHANGED pool
    /\ UNCHANGED <<replies, open, driver, result, history, cursor, replayed,
                   logical_pages>>

\* The receive loop; Finished captures the capacities and ends the service.
ReceiveRequest ==
    /\ service = "recv"
    /\ \/ /\ requests # <<>> /\ requests' = Tail(requests)
          /\ IF Head(requests) = "NextPage"
             THEN /\ Pool!Move(TheLease("driver"), "service") /\ service' = "serve"
                  /\ UNCHANGED final_capacity
             ELSE final_capacity' = <<Capacities>> /\ service' = "close_requests" /\ UNCHANGED pool
       \/ /\ requests = <<>> /\ "request_sender" \notin open /\ service' = "close_requests"
          /\ UNCHANGED <<pool, requests, final_capacity>>
    /\ UNCHANGED <<replies, open, driver, result, history, cursor, replayed,
                   logical_pages>>

\* next_page without a page to return drops the lease it was given.
NoPage ==
    /\ service' = "drop"
    /\ result' \in {"Error"} \cup (IF cursor = history THEN {"End"} ELSE {})

FillPage(l) == Pool!Fill(l)

\* The next_page closure: a filled page, the end, a cancellation or an error.
Serve ==
    /\ service = "serve"
    /\ \/ /\ cursor < history /\ cursor' = cursor + 1
          /\ FillPage(TheLease("service"))
          /\ result' = "Page" /\ logical_pages' = logical_pages + 1 /\ service' = "reply"
       \/ NoPage /\ UNCHANGED <<pool, cursor, logical_pages>>
    /\ UNCHANGED <<channels, driver, history, replayed, final_capacity>>

\* The closure unwinds: the lease is dropped, then the service with its halves.
ServeUnwinds ==
    /\ service = "serve" /\ service' = "drop" /\ result' = Nothing
    /\ UNCHANGED <<pool, channels, driver, facts>>

ServiceDrops ==
    /\ service = "drop" /\ Pool!DropLease(TheLease("service")) /\ service' = "return"
    /\ UNCHANGED <<channels, driver, result, facts>>

ServiceReturns ==
    /\ service = "return" /\ Pool!ReturnPage(InFlight)
    /\ service' = IF result = Nothing THEN "close_requests" ELSE "reply"
    /\ UNCHANGED <<channels, driver, result, facts>>

\* send_reply; with the driver gone the service ends with the undelivered result.
SendReply ==
    /\ service = "reply"
    /\ IF "reply_receiver" \in open
       THEN /\ Len(replies) < Capacity /\ replies' = Append(replies, result)
            /\ result' = Nothing /\ service' = "recv"
       ELSE /\ result' = Nothing /\ UNCHANGED replies
            /\ service' = IF result = "Page" THEN "drop" ELSE "close_requests"
    /\ UNCHANGED <<pool, requests, open, driver, facts>>

ServiceCloses ==
    /\ \/ service = "close_requests" /\ service' = "close_replies"
          /\ open' = open \ {"request_receiver"}
       \/ service = "close_replies" /\ service' = "done" /\ open' = open \ {"reply_sender"}
    /\ UNCHANGED <<pool, requests, replies, driver, result, facts>>

DriverStep == Dispatch \/ NextPage \/ SendRequest \/ ReceiveReply \/ ReadPage
              \/ DriverUnwinds \/ DriverDrops \/ DriverReturns \/ Finish \/ DriverCloses

ServiceStep == ReceiveRequest \/ Serve \/ ServeUnwinds \/ ServiceDrops
               \/ ServiceReturns \/ SendReply \/ ServiceCloses

ReplayNext == DriverStep \/ ServiceStep

ReplaySpec == ReplayInit /\ [][ReplayNext]_replayVars

\* Both threads run and every poll of theirs ends.
ReplayFairSpec == ReplaySpec /\ WF_replayVars(DriverStep) /\ WF_replayVars(ServiceStep)

-----------------------------------------------------------------------------
(* One page is enough: a replay that asks for one page at a time is refused  *)
(* a lease only when the generations have run out, although the page goes    *)
(* through two threads, two rings and a drop outside the pool's lock         *)
(* (recovery_source_broker.rs:300-303).                                      *)
OnePageSuffices == exhausted > 0 => next_generation = MaxGeneration

(* What the driver replays is a prefix of the history, in order and whole,   *)
(* whatever fails on the way (recovery_source_broker.rs:308-316, 366-375;    *)
(* beryl-backend thread_injection/wire.rs:303-381).                          *)
ReplayIsPrefix == \A i \in DOMAIN replayed : replayed[i] = i

(* The capacities captured at the end show an idle broker: no page leased,   *)
(* nothing in a ring, and every page served was replayed, except at most the *)
(* last, at which the replay stopped (recovery_source_broker.rs:175-184,     *)
(* 376-379).                                                                 *)
FinalCapacityIdle ==
    \A i \in DOMAIN final_capacity : \E refused \in {0, 1} : final_capacity[i] =
        [leased |-> 0, requests |-> 0, replies |-> 0, pages |-> Len(replayed) + refused]

(* Nothing outlives the exchange: with both sides gone the page is in the    *)
(* pool, not in a ring nobody reads any more (recovery_source_broker.rs:     *)
(* 320-343, 384-402).                                                        *)
PageComesBack ==
    driver = "done" /\ service = "done" => leases = {} /\ available = <<"page">>

(* The replay is sound at every instant: the four facts above, and the one   *)
(* page is never lost, doubled, miscounted or seen with the bytes of another *)
(* lease while it goes round between the threads (page.rs:71-95, 215-225).   *)
ReplaySound ==
    /\ ReplayTypeOK /\ Pool!PoolSound
    /\ OnePageSuffices /\ ReplayIsPrefix /\ FinalCapacityIdle /\ PageComesBack

(* Neither side waits for a dead one: whichever ends first, by a rejection,  *)
(* an error, the end of the history or the unwinding of the driver's         *)
(* operation or of the service's closure, the other ends too                 *)
(* (recovery_source_broker.rs:312-314, 361-363).                             *)
BothEnd == <>(driver = "done" /\ service = "done")
=============================================================================
