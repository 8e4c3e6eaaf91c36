---------------------------- MODULE WorkerPool ----------------------------
(* The worker permits of one projection service
   (beryl-app/src/cas_projection/service_config.rs and
   service_config/preparation.rs).  Connections, scheduled ordinary turns and
   steering deliveries draw permits from one bounded pool.  One permit is kept
   back for steering.  A scheduler lane that is refused leaves its demand in
   the pool, one flag per lane, and the release that makes room for it takes
   the flag and wakes the scheduler after the pool is unlocked.

   The denial counters and the high-water mark are diagnostics and are left
   out, and so is the poisoned mutex. *)
EXTENDS Integers

CONSTANTS
    PoolCapacity,   \* ProjectionServiceConfig::worker_capacity
    MaxOwed         \* bound: releases of one lane past the pool's lock and not yet sent

\* CONNECTION_WORKER_PERMITS, SCHEDULED_ORDINARY_WORKER_PERMITS and
\* STEERING_CRITICAL_WORKER_RESERVE.
ConnectionPermits == 2
OrdinaryPermits == 1
SteeringReserve == 1

(* ProjectionServiceConfig refuses a capacity below MINIMUM_WORKER_CAPACITY. *)
ASSUME PoolCapacityAssumption ==
    PoolCapacity \in Nat /\ PoolCapacity >= ConnectionPermits + OrdinaryPermits + SteeringReserve

ASSUME MaxOwedAssumption == MaxOwed \in Nat \ {0}

\* The lanes that may leave a demand (ProjectionWorkerReleaseWaiter), and the
\* roles a permit is held in; a steering permit is provisional until
\* commit_steering_worker.
Lanes == {"steering", "ordinary", "cold", "warm"}
Roles == {"connection", "ordinary", "provisional", "committed"}
Steering == {"provisional", "committed"}

VARIABLES
    available,  \* permits not held
    active,     \* active_steering_critical
    held,       \* permits held in each role
    armed,      \* release_waiter: the lanes whose demand is recorded
    owed,       \* wakes a release has decided on and not yet sent, by lane
    pending,    \* the wake bits set in the scheduler's signal
    waiting     \* lanes refused a permit and not woken since

poolVars == <<available, active, held, armed, owed, pending, waiting>>

PoolTypeOK ==
    /\ available \in 0..PoolCapacity
    /\ active \in 0..PoolCapacity
    /\ held \in [Roles -> 0..PoolCapacity]
    /\ armed \subseteq Lanes
    /\ owed \in [Lanes -> 0..MaxOwed]
    /\ pending \subseteq {"WorkerReleased", "NextWorkerCapacityReleased", "ExecutionReady"}
    /\ waiting \subseteq Lanes

\* The bit a lane is woken by (wake_worker_release, and the ExecutionReady wake
\* of the preparation lanes).
Bit(lane) ==
    IF lane = "steering" THEN "WorkerReleased"
    ELSE IF lane = "ordinary" THEN "NextWorkerCapacityReleased"
    ELSE "ExecutionReady"

PoolInit ==
    /\ available = PoolCapacity
    /\ active = 0
    /\ held = [role \in Roles |-> 0]
    /\ armed = {}
    /\ owed = [lane \in Lanes |-> 0]
    /\ pending = {}
    /\ waiting = {}
-----------------------------------------------------------------------------
\* Mutant: the reserve is forgotten.
FitsAnywhere(free, steering, permits) == free >= permits

\* noncritical_role_fits, for a given pool.
FitsIn(free, steering, permits) ==
    free >= permits /\ (steering > 0 \/ free - permits >= SteeringReserve)

Fits(permits) == FitsIn(available, active, permits)

\* record_acquisition.
Hold(role, permits) ==
    /\ available' = available - permits
    /\ held' = [held EXCEPT ![role] = @ + permits]

\* try_acquire_pair: a connection outside preparation leaves no demand.
AcquirePair ==
    /\ Fits(ConnectionPermits)
    /\ Hold("connection", ConnectionPermits)
    /\ UNCHANGED <<active, armed, owed, pending, waiting>>

\* try_acquire_ordinary: a direct turn; success clears the role's demand.
DirectOrdinary ==
    /\ Fits(OrdinaryPermits)
    /\ Hold("ordinary", OrdinaryPermits)
    /\ armed' = armed \ {"ordinary"}
    /\ UNCHANGED <<active, owed, pending, waiting>>

\* A lane's refusal: its demand is recorded.
Refused(lane) ==
    /\ armed' = armed \cup {lane}
    /\ waiting' = waiting \cup {lane}
    /\ UNCHANGED <<available, active, held, owed, pending>>

\* A lane's success: its demand is withdrawn.
Granted(lane) ==
    /\ armed' = armed \ {lane}
    /\ waiting' = waiting \ {lane}
    /\ UNCHANGED <<owed, pending>>

\* try_acquire_scheduled_ordinary_or_arm.
ScheduleOrdinary ==
    \/ /\ Fits(OrdinaryPermits)
       /\ Hold("ordinary", OrdinaryPermits)
       /\ Granted("ordinary")
       /\ UNCHANGED active
    \/ ~Fits(OrdinaryPermits) /\ Refused("ordinary")

\* try_acquire_steering_critical_quiet_or_arm: steering may take the last
\* permit.
ScheduleSteering ==
    \/ /\ available > 0
       /\ Hold("provisional", 1)
       /\ active' = active + 1
       /\ Granted("steering")
    \/ available = 0 /\ Refused("steering")

\* reserve_preparation: a cold runtime takes two connection pairs, a warm one
\* takes one.
Prepare(lane) ==
    LET permits == IF lane = "cold" THEN 2 * ConnectionPermits ELSE ConnectionPermits
    IN  \/ /\ Fits(permits)
           /\ Hold("connection", permits)
           /\ Granted(lane)
           /\ UNCHANGED active
        \/ ~Fits(permits) /\ Refused(lane)

\* commit_steering_worker: the permit now belongs to a delivery worker.
Commit ==
    /\ held["provisional"] > 0
    /\ held' = [held EXCEPT !["provisional"] = @ - 1, !["committed"] = @ + 1]
    /\ UNCHANGED <<available, active, armed, owed, pending, waiting>>
-----------------------------------------------------------------------------
\* The room a lane's next attempt needs: a preparation attempt first takes an
\* ordinary permit.
Threshold(lane) ==
    OrdinaryPermits + IF lane = "cold" THEN 2 * ConnectionPermits
                      ELSE IF lane = "warm" THEN ConnectionPermits
                      ELSE 0

\* The demands a pool with this much room meets.
Served(free, steering) ==
    {lane \in armed : lane = "steering" \/ FitsIn(free, steering, Threshold(lane))}

\* Mutant: a demand is dropped when the room is there, and only a delivery
\* worker's release is announced.
ReleaseUnannounced(role) ==
    LET free == available + 1
        steering == IF role \in Steering THEN active - 1 ELSE active
        served == Served(free, steering)
    IN  /\ held[role] > 0
        /\ role = "committed" => owed["steering"] < MaxOwed
        /\ held' = [held EXCEPT ![role] = @ - 1]
        /\ available' = free
        /\ active' = steering
        /\ armed' = armed \ served
        /\ owed' = [owed EXCEPT !["steering"] = @ + IF role = "committed" THEN 1 ELSE 0]
        /\ UNCHANGED <<pending, waiting>>

\* ProjectionWorkerAdmission::drop up to the unlock.  A delivery worker's own
\* permit wakes the steering lane whether or not it left a demand.
Release(role) ==
    LET free == available + 1
        steering == IF role \in Steering THEN active - 1 ELSE active
        served == Served(free, steering)
        woken == served \cup IF role = "committed" THEN {"steering"} ELSE {}
    IN  /\ held[role] > 0
        /\ \A lane \in woken : owed[lane] < MaxOwed
        /\ held' = [held EXCEPT ![role] = @ - 1]
        /\ available' = free
        /\ active' = steering
        /\ armed' = armed \ served
        /\ owed' = [lane \in Lanes |-> IF lane \in woken THEN owed[lane] + 1 ELSE owed[lane]]
        /\ UNCHANGED <<pending, waiting>>

\* The rest of drop: wake_worker_release and wake(ExecutionReady).
Publish(lane) ==
    /\ owed[lane] > 0
    /\ owed' = [owed EXCEPT ![lane] = @ - 1]
    /\ pending' = pending \cup {Bit(lane)}
    /\ UNCHANGED <<available, active, held, armed, waiting>>

\* AcceptedInputSchedulerSignal::wait takes every bit; the lanes they open run.
TakeBits ==
    /\ pending # {}
    /\ pending' = {}
    /\ waiting' = {lane \in waiting : Bit(lane) \notin pending}
    /\ UNCHANGED <<available, active, held, armed, owed>>

PoolNext ==
    \/ AcquirePair
    \/ DirectOrdinary
    \/ ScheduleOrdinary
    \/ ScheduleSteering
    \/ \E lane \in {"cold", "warm"} : Prepare(lane)
    \/ Commit
    \/ \E role \in Roles : Release(role)
    \/ \E lane \in Lanes : Publish(lane)
    \/ TakeBits

PoolSpec == PoolInit /\ [][PoolNext]_poolVars
-----------------------------------------------------------------------------
(* Every permit is free or held, and the steering count is exactly the steering
   permits out: nothing the connections, the ordinary turns and the deliveries
   do in any order loses a permit or makes one (service_config.rs:266-283,
   427-467). *)
PermitsConserved ==
    /\ available + held["connection"] + held["ordinary"]
         + held["provisional"] + held["committed"] = PoolCapacity
    /\ active = held["provisional"] + held["committed"]

(* While no steering permit is out, one is free: connections and ordinary turns
   can never take the pool away from a steering pass, whatever the order in
   which the roles come and go (service_config.rs:267-272, 370). *)
ReserveKept == active = 0 => available >= SteeringReserve

(* A recorded demand is one the pool cannot meet: no acquisition makes room
   that a release did not announce, so a release that takes a demand is the
   first moment its lane could be served (service_config.rs:445-456). *)
ArmedIsUnserved ==
    \A lane \in armed :
        IF lane = "steering" THEN available = 0 ELSE ~Fits(Threshold(lane))

(* A lane that was refused is never forgotten: its demand is still recorded, or
   the wake that answers it is on its way or is in the scheduler's signal, even
   when another holder of the same role succeeds in between and clears the
   demand (service_config.rs:243-257, 381, 445-466). *)
RefusedIsTold ==
    \A lane \in waiting : lane \in armed \/ owed[lane] > 0 \/ Bit(lane) \in pending
=============================================================================
