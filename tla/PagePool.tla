------------------------------ MODULE PagePool ------------------------------
(* crates/beryl-stream/src/page.rs: a fixed pool of byte pages behind one    *)
(* mutex.  A lease owns one page until it is dropped; it may be moved to     *)
(* another thread meanwhile, so leases are taken, written and dropped by     *)
(* several threads at once.  Dropping takes the page out of the lease and    *)
(* zeroes it outside the mutex, then puts it back under it: two steps.       *)
(*                                                                           *)
(* The bytes of a page are modelled by what they hold: nothing (all zero),   *)
(* or the data some lease wrote, named by the generation of that lease.      *)
EXTENDS Integers, Sequences, FiniteSets

CONSTANTS
    Threads,
    Pages,            \* the pages allocated by PagePool::new
    MaxGeneration,    \* u64::MAX of next_generation
    CounterMax        \* u64::MAX, where the diagnostic counters saturate

PageCount == Cardinality(Pages)
Generations == 1..MaxGeneration
Zero == 0

VARIABLES
    available, leased, high_water, total_leases, exhausted, next_generation,
    bytes,     \* what every page holds
    leases     \* the PageLease values that still have to give their page back

counters == <<leased, high_water, total_leases, exhausted>>
pool == <<available, counters, next_generation, bytes, leases>>

\* A lease is live until its drop zeroes the page, then its page is in flight.
Lease == [page : Pages, generation : Generations, owner : Threads,
          filled : BOOLEAN, live : BOOLEAN]

\* One type invariant: PagePoolState and the leases.
TypeOK ==
    /\ available \in Seq(Pages) /\ Len(available) <= PageCount
    /\ leased \in 0..PageCount /\ high_water \in 0..PageCount
    /\ total_leases \in 0..CounterMax /\ exhausted \in 0..CounterMax
    /\ next_generation \in Generations
    /\ bytes \in [Pages -> {Zero} \cup Generations]
    /\ leases \subseteq Lease

Init ==
    /\ available \in [1..PageCount -> Pages]
    /\ \A i, j \in 1..PageCount : available[i] = available[j] => i = j
    /\ leased = 0 /\ high_water = 0 /\ total_leases = 0 /\ exhausted = 0
    /\ next_generation = 1
    /\ bytes = [p \in Pages |-> Zero]
    /\ leases = {}

-----------------------------------------------------------------------------
SaturatingAdd(n) == IF n < CounterMax THEN n + 1 ELSE n

\* u64 checked_add: no successor of the last value, hence no lease with it.
Successor(g) == IF g = MaxGeneration THEN 0 ELSE g + 1

PopPage == SubSeq(available, 1, Len(available) - 1)

CanLease == available # <<>> /\ Successor(next_generation) # 0

\* PagePool::try_lease that finds a page and a generation.
TryLease(t) ==
    /\ CanLease
    /\ next_generation' = Successor(next_generation)
    /\ available' = PopPage
    /\ leases' = leases \cup
        {[page |-> available[Len(available)], generation |-> next_generation, owner |-> t,
          filled |-> FALSE, live |-> TRUE]}
    /\ leased' = leased + 1
    /\ high_water' = IF leased' > high_water THEN leased' ELSE high_water
    /\ total_leases' = SaturatingAdd(total_leases)
    /\ UNCHANGED <<exhausted, bytes>>

\* PagePool::try_lease that finds the pool, or the generations, used up.
TryLeaseFails ==
    /\ ~CanLease
    /\ exhausted' = SaturatingAdd(exhausted)
    /\ UNCHANGED <<available, leased, high_water, total_leases, next_generation,
                   bytes, leases>>

Held(t) == {l \in leases : l.live /\ l.owner = t}

Replace(l, m) == leases' = (leases \ {l}) \cup {m}

\* buffer_mut and set_len: the owner writes the page and says how much is valid.
Fill(l) ==
    /\ bytes' = [bytes EXCEPT ![l.page] = l.generation]
    /\ Replace(l, [l EXCEPT !.filled = TRUE])
    /\ UNCHANGED <<available, counters, next_generation>>

\* PageLease::clear shortens the valid part; the bytes stay.
Clear(l) ==
    /\ Replace(l, [l EXCEPT !.filled = FALSE])
    /\ UNCHANGED <<available, counters, next_generation, bytes>>

\* The lease is moved to another thread.
Move(l, t) ==
    /\ Replace(l, [l EXCEPT !.owner = t])
    /\ UNCHANGED <<available, counters, next_generation, bytes>>

\* PageLease::drop up to the lock: the page leaves the lease and is zeroed.
DropLease(l) ==
    /\ bytes' = [bytes EXCEPT ![l.page] = Zero]
    /\ Replace(l, [l EXCEPT !.live = FALSE])
    /\ UNCHANGED <<available, counters, next_generation>>

\* The rest of the drop, under the lock.
ReturnPage(l) ==
    /\ leased' = leased - 1
    /\ available' = Append(available, l.page)
    /\ leases' = leases \ {l}
    /\ UNCHANGED <<high_water, total_leases, exhausted, next_generation, bytes>>

Next ==
    \/ \E t \in Threads : TryLease(t)
    \/ TryLeaseFails
    \/ \E t \in Threads : \E l \in Held(t) :
        Fill(l) \/ Clear(l) \/ (\E u \in Threads \ {t} : Move(l, u)) \/ DropLease(l)
    \/ \E l \in {m \in leases : ~m.live} : ReturnPage(l)

Spec == Init /\ [][Next]_pool

-----------------------------------------------------------------------------
(* No page is lost or handed out twice: at any moment every page is in the   *)
(* vector once or in exactly one lease, the leases being dropped included    *)
(* (page.rs:71-95, 215-225).                                                 *)
PagesConserved ==
    /\ \A p \in Pages :
        Cardinality({i \in DOMAIN available : available[i] = p})
            + Cardinality({l \in leases : l.page = p}) = 1
    /\ \A l, m \in leases : l.page = m.page => l = m

(* The diagnostics of any instant add up: the count under the mutex is the   *)
(* number of leases outstanding, and the high-water mark covers it           *)
(* (page.rs:85-86, 97-108, 222).                                             *)
LeasesCounted ==
    /\ leased = Cardinality(leases)
    /\ Len(available) + leased = PageCount
    /\ high_water \in leased..PageCount

(* A thread never finds another lease's bytes in a page: pages in the vector *)
(* are zero, and a leased page holds zeroes or what its own lease wrote      *)
(* (page.rs:195-197, 210-212, 217-223).                                      *)
NoForeignBytes ==
    /\ \A i \in DOMAIN available : bytes[available[i]] = Zero
    /\ \A l \in leases : bytes[l.page] \in {Zero, l.generation}

(* A generation names one lease: no two outstanding leases share one, and    *)
(* every lease outstanding is older than the next (page.rs:119-123).         *)
GenerationsDistinct ==
    /\ \A l \in leases : l.generation < next_generation
    /\ \A l, m \in leases : l.generation = m.generation => l = m

PoolSound == TypeOK /\ PagesConserved /\ LeasesCounted /\ NoForeignBytes /\ GenerationsDistinct
=============================================================================
