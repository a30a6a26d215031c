# Formal models of rfts

rfts ("RoCE-based fast transmission system") moves sensor data from nodes to a
server over RDMA. Work requests (WRs) and their buffers are allocated once and
circulate between threads through circular arrays, without locks. This directory
holds TLA+ models of those arrays, of the threads that share them, of the shared
memory and of how all these objects come and go; TLC configurations that check
the models on small instances; and TLAPS proofs, for all values of the constants,
of the safety of the four working pools, the queue, the composed server, the
shared memory and the ownership of arrays.
`PROJECT.json` lists the runs, the source lines behind every definition, the
hazards of the code, the findings, the main theorems, and one deliberate bug
(mutant) per checked property that the property must catch.

Source paths are relative to the repository; the code is in `src/`.

## 1. The system

### Components

| component | file | state | operations |
|---|---|---|---|
| `wr_pool<T>` | `src/wr_pool.hpp` | WRs, circular array of `__elenum + 1` slots, `__front`, atomic `__rear`, one atomic flag per slot | constructor, `get` (one thread), `put` (many threads), destructor |
| `spsc_sem_mem_pool` | `src/mem_pool.hpp:186-387` | array of `__elenum` slots, `__front`, `__rear`, semaphore `__count` | `get`, `tryget`, `timeget` (one thread), `put` (one thread), destructor |
| `mpsc_sem_mem_pool` | `src/mem_pool.hpp:391-620` | the same with atomic `__rear` and a flag per slot | the same, `put` by many threads |
| `spsc_atomic_mem_pool` | `src/mem_pool.hpp:631-853` | array of `__elenum + 1` slots, atomic `__front` and `__rear` | the same as spsc_sem, by polling |
| `mpsc_atomic_mem_pool` | `src/mem_pool.hpp:857-1102` | the same with a flag per slot | the same, `put` by many threads |
| `queue<T>` | `src/queue.hpp` | circular array, atomic `__front`, `__rear`, semaphore, and with `RFTS_SPMC` a flag per slot | `put` (one thread), `get` (one thread, or many with `RFTS_SPMC`), destructor |
| `posix_sem` | `src/sem.hpp` | a POSIX semaphore, named or not | `post`, `wait`, `trywait`, `timewait`, `getvalue`, destructor |
| `datahandle` | `src/handle_data.hpp` | worker threads | constructor (starts them), `__worker`, destructor (joins them) |
| `commu<T>` | `src/commu.cpp` | device resources, receive or send thread, semaphore `__sem` | constructor (acquires), `__send_or_recv`, destructor (releases); `__comp` is empty and `__comp_check` is not defined |
| `posix_shm` | `src/shm.hpp` | a shared mapping, its length, an atomic position | `seek`, `tell`, `read`, `write`, `clear`, `sync` |
| `trans_args` | `src/trans_args.hpp` | parameters | `get_elenum`, `get_elesize` |
| clocks | `src/get_clock_us.hpp`, `src/get_clock_ns.hpp` | none | cycle counter, calibration |

### How they interact

On the server, `commu::__send_or_recv` takes WRs from the `wr_pool`, posts them
to the NIC and puts them into a `queue` of receiving WRs; completions move them
to a `queue` of unhandled WRs; `datahandle`'s workers get them from there,
handle the data and put the WR back into the `wr_pool`. So the pool has one
consumer and many producers, the unhandled queue one producer and many
consumers. The pools of `mem_pool.hpp` offer the same contract to senders (one
producer) and receivers (several). A global `std::atomic<bool> start` tells all
threads to go on or to stop.

    wr_pool --get--> receive thread --put--> queue --> (NIC, completion)
       ^                                                     |
       +------put------ workers <----get---- queue <---put---+

### What is hard here

* `put` of the multi-producer pools and `get` of the queue are lock-free: a
  thread claims a slot by a compare-exchange on the slot's flag. The flag is
  chosen by one load of the index and the slot by a second one, so the claim may
  concern a slot that is no longer the current one (an ABA problem: the thread
  was delayed while the ring went round once).
* `wr_pool::get` does not check that there is anything to get.
* Getters clear the slot, the flag and advance the index in several steps, while
  producers look at the same flags.
* The semaphore pools publish in one step and post in another, so the order of
  publications and the order of posts differ.
* Destructors decide from indices or the semaphore alone that nobody is using
  the arrays.
* Every getter may end the process (`exit` in `PEIE` or after "too small").
* Deadlines are computed without carry into seconds.
* The receive thread posts a buffer before it enters it into the queue.
* Shutdown: threads that block in `get` or `wait` do not see `start`; the pool's
  destructor waits for buffers that the NIC keeps.
* `commu`'s constructor runs the destructor when a step fails and goes on.
* `posix_shm`: the position is moved by compare-exchange after the copy, and its
  checks add unsigned words.
* Named objects are unlinked by every destructor and by nothing else.

### What makes each component correct

* Pools: no WR in two places at once (two threads would use one buffer), none
  lost, FIFO order, no null pointer handed out, `put` never stores over a WR,
  "capacity too small" is said only when it is true, calls end, the destructor
  frees only when nobody uses the arrays.
* Queue: each element to exactly one worker, in order, none lost or overwritten.
* Server: the element that a completion takes from the queue is the one whose
  buffer was filled; the receives outstanding stay at their number; everything
  received is handled; shutdown frees nothing that is in use.
* `commu`: an object that is built is complete; nothing is released before what
  depends on it.
* `posix_shm`: what accesses reserve is inside the mapping and disjoint. (What
  they touch should be inside too; a read that is overtaken is not, finding 3.)
* All classes that own memory: each array deleted once, whatever is moved, and
  the destructor's wait over when, and only when, everything is back.

## 2. Modules

| module | models | state and actions |
|---|---|---|
| `FifoPool` | abstract specification of a pool | `free` (a sequence), `out` (a set); `FifoGet`, `FifoPut` |
| `FifoQueue` | abstract specification of the queue | `items`, `busy`; `Enqueue`, `Dequeue`, `Finish` |
| `RingArith` | the wrap-around `if (++i >= n) i -= n` | `Succ`; `Dist` and `Ahead` only describe |
| `SemGetter` | waiting in `get`/`tryget`/`timeget` of the semaphore pools, `posix_sem`, and their destructor | `count`, `pcC`, `op`, `tries`, `deadlineOk`, `exit` |
| `AtomicGetter` | waiting in the getters of the polling pools | `front`, `seen` (last `__rear` loaded), `tries`, ... |
| `FlagRing` | `put` of the multi-producer pools | `rear`, `rq`, `flags` and per producer `pcP`, `idx`, `elem` |
| `SpscSemPool` | `spsc_sem_mem_pool` = ring + `SemGetter` | |
| `MpscSemPool` | `mpsc_sem_mem_pool` = `FlagRing` + `SemGetter` | |
| `WrPool` | `wr_pool<T>` = `FlagRing` + unguarded `get` | |
| `SpscAtomicPool` | `spsc_atomic_mem_pool` = ring + `AtomicGetter` | |
| `MpscAtomicPool` | `mpsc_atomic_mem_pool` = `FlagRing` + `AtomicGetter`, up to its first access out of bounds | |
| `Queue` | `queue<T>`, with and without `RFTS_SPMC` (the variable `spmc`), and the end of a worker's use of an element | |
| `Server` | receive thread, workers, `start`, the destructors of `datahandle` and `wr_pool`; pool and queues as `FifoPool` and `FifoQueue` | `free`, `recving`, `nohand` (pool and queues), `posted` (QP), `sem`, `pcR`, `phase`, `pcW`, ...; one action per step of each thread |
| `CommuResources` | construction and destruction of a `commu` | `live` (objects that exist), `fields` (members not null), `pc`, `order` (what the destructor has yet to look at) |
| `PosixShm` | `seek`, `read`, `write`, `clear` by several threads | `cur`, and per thread `pc` and `call` (arguments, `temp`, where its copy began) |
| `Lifecycle` | construction, move and destruction of all classes that own memory; names in `/dev/shm` and crashes | `life`, `ptr`, `stored`, `permits`, `getting`, `putting` (calls between their two steps), `freed`, `bound`, `kernel`; the differences between the classes are in the records of `Classes` |
| `MCSpscSemPool` | the constants of the run `spsc_sem` | |
| `MCResources` | `CommuResources` and `Lifecycle` side by side for the run `resources` | `subject` says which of the two a behaviour is about; the other one stays still |
| `RingArithProofs`, `FlagRingProofs` | lemmas on indices and segments of a ring; on the owners of WRs and the steps of `put` | |
| `SpscSemPoolProofs`, `WrPoolProofs`, `QueueProofs` | theorems about the modules they are named after | |
| `MpscSemPoolProofs` | theorems about `MpscSemPool`, and one about `MpscAtomicPool` | |
| `ServerProofs` | theorems about `Server` and `CommuResources` | |
| `MemoryProofs` | theorems about `PosixShm`, `Lifecycle` and `SpscAtomicPool` | |

Conventions. A WR is its index in `__wrs`. Each action is one access to
memory that another thread can reach (an atomic, a flag, a slot, the semaphore)
together with the thread-local code that follows it; `pcC`, `pcP`, `pcW`, ... say
where in a call a thread is, and have the name of the next access. In `Server`,
where pool and queues are abstract, an action is one call on them. `held` is the
set of WRs that callers own: a `get` adds to it, `put(e)` takes its argument
from it, so callers give back only what they got. A definition called
"Mutant of X" is a plausible bug of X; only the mutation runs use it.

### Where the models cut

The pools and the queue:

* Interleavings are sequentially consistent. As long as there is no lap or
  overrun (below), accesses to one slot by two threads are ordered: a `put` is
  seen through `__rear` (release/acquire) or the semaphore; and a getter's clear,
  although it resets the flag with a relaxed store, comes before the next
  store into the same slot, because by counting one of the puts up to that store
  returned a WR got at or after that clear, and it published `__rear` or had the
  WR handed over through a queue. So the code has no data race there. After a lap
  it has; the model then interleaves whole accesses in program order, which is
  what the compiled code does on x86 when the compiler keeps the order of the two
  stores.
* `compare_exchange_weak` does not fail spuriously on x86 and is modelled so in
  the pools and the queue, where a spurious failure would be one more round of
  the loop. In `PosixShm` it may fail at any time.
* `lapped` (history): a claim hit a flag away from the current index.
  `overrun` (history): `wr_pool::get` was called with nothing to get. Both
  situations are reachable in the code. Which properties need their absence is
  said in each property: `~lapped =>` or `Regular =>`. Properties without it
  hold always.
* After such an event a `put`, getter or destructor may spin for ever; the last
  disjunct of `Next` stutters there, and after `exit` or destruction.
  So deadlock checking stays on in every run.
* `Queue` puts nothing more after a lap (an element may have been lost or
  duplicated and "in nobody's hands" is no longer well defined), and at most
  `__rqnum` elements circulate (`QueueAssumption`), which is what the equal
  formulas of `queue` and `trans_args::get_elenum` give. Without `RFTS_SPMC` only
  the worker `Single` gets.
* `MpscAtomicPool` stops at the first index outside its arrays: what happens
  then is undefined.
* The constructors of `mem_pool.hpp` read `transargs.elesize`, which
  `trans_args` does not have; they are read as meaning `get_elesize()`.
* Every call on a semaphore may fail for another reason than the expected ones
  (a signal, for instance) and `posix_sem` then ends the process: `SemFails` in
  the getters of the semaphore pools. `Queue` and `Server` leave this exit out;
  what they do until then is a prefix of a modelled behaviour. The same holds of
  a failing `post` everywhere.
* `wr_id` counters, buffer contents and error messages are left out.

`Server`:

* External: the NIC, which fills the posted buffers in their order; whoever
  turns a completion into an element of the unhandled queue and a post on
  `__sem` (`commu::__comp`, which should, is empty); and the program that
  clears `start` and destroys the objects. `commu`'s threads are declared but
  nothing starts them: the model has one receive thread.
* `get` from an empty pool, whose consequences `WrPool` shows, is an exit
  (`GetOverrun`); so is a failed post. The deadline of the drain may be invalid
  (no carry into seconds) at any time of the drain (`DrainInvalid`).
* A message that is faster than the receive thread's `put` waits in
  `queue::get`; so `Complete` needs `recving` to be non-empty.

`CommuResources`: `~commu()` in the helpers of the constructor is read as
`this->~commu()`, as evidently meant. The first use of a null or released object
ends the behaviour with the exit "undefined". The verbs library is external and
refuses to release an object on which another depends. Semaphores and threads
are members with their own life and are left out.

`PosixShm`: of the contents, the positions that each access copies; a copy is one
step. That a write which loses the race has already copied over the bytes of the
winner is therefore visible only in `Retry`, which leaves them, and in no property. Protection flags and null buffers are checked before anything happens and
are left out. `ShmAssumption`: no mapping fills more than a quarter of the
address space.

`Lifecycle`: nobody moves an object that is in use, and nobody begins a call on one
whose arrays are deleted. Of the ring, the number of elements. `get` takes a permit
and then the element, `put` stores the element and then posts, so that calls
may be between the two when the destructor looks at the semaphore; a call that
would go on in deleted arrays stops there. The queue is destroyed by the side
that puts, so with no `put` under way. Each object of a named class stands for a process of its own
when it comes to opening and leaving. What a crashed process had in a buffer
does not matter here.

## 3. Runs

| run | instance | states | checks |
|---|---|---|---|
| `spsc_sem` | 3 WRs, 2 tries, a clock whose deadline may or may not cross the second | 14 000 | types, accounting, conservation of WRs, destruction, "too small", refinement of `FifoPool`, calls return |
| `wr_pool` | 2 WRs, 3 slots, 2 producers | 157 000 | no aliasing (always); ring soundness with destruction, no `put` spinning in vain, refinement, progress of `put` (while regular) |
| `mpsc_sem` | 2 WRs, 2 slots, 2 producers | 36 000 | no aliasing and a truthful semaphore (always); ring soundness, refinement, getters return (until lapped) |
| `queue` | 3 slots, 3 elements, 2 workers; with and without flags | 70 000 | no double delivery, room for `put`, no `get` spinning in vain, drained when freed, refinement of `FifoQueue`, every element is handled |
| `spsc_atomic` | 3 WRs, 4 slots, 2 tries | 7 000 | accounting, each WR once, a stale `__rear` is safe, refinement, calls return |
| `server` | 3 WRs, 1 or 2 workers, 0 to 3 receives posted in advance, a QP with room for 2 | 287 000 | each WR in one place and the right one completed, receives outstanding, shutdown, contracts of pool and queues, everything received is handled, which threads end |
| `resources` | `commu`: all device lists of up to 2 of 3 names, 2 ports, MTU codes 1 and 5, element sizes 3 and 512, every step may fail; ownership: 4 objects, interchangeable, 2 elements, all ten classes | 72 000 | a `commu` that is built is complete, order of release, who is to blame for an abort; each array deleted once, destructors wait for the right moment, names shared until somebody leaves |
| `shm` | 2 threads, length 3, 4-bit words, accesses of 1 or 2 bytes, offsets -3 to 3 | 1 114 000 | no byte reserved twice or outside the mapping, what a read reserves is what it copied |
| `mpsc_sem_count` | as `mpsc_sem` | | finding 1 |
| `mpsc_atomic_bounds` | 2 WRs, 3 slots | | finding 2 |
| `shm_read` | as `shm` | | finding 3 |
| `shm_seek` | 2 threads, length 4 | | finding 4 |

Why these bounds are enough. The indices wrap after two or three operations, so
every run goes round its ring many times (nothing bounds the number of calls;
the state spaces are finite and are explored completely). Two producers or
workers suffice for every race on a flag, among them the lap: one is delayed
between its load and its compare-exchange while the other goes round. Three
WRs let one be at the getter, one in `put` and one in the ring. In `server`, three
WRs fill QP, queue and worker at once, and the QP is smaller than what may be
posted in advance, so that both exits happen; two workers are the least with
which the destructor of `datahandle` fails. In `shm`, the length exceeds the
larger access by one, so that an access fits, fits exactly, or does not; two
threads collide in every pair of loads and exchanges; 4-bit words wrap just
below position 0. In `resources`, four objects allow two allocations of which
each is moved, or chains of moves to a moved-from object's heir; they differ in
nothing but what happens to them, so states are counted up to renaming them. Its
two halves share no variable and no behaviour takes steps of both. For the safety
properties of all of them section 4 removes the bounds.

Each pool refines `FifoPool` under a mapping that reads the ring from `front`
on. It says where a call takes effect: `get` when it hands the WR over,
`put` when it advances `rear`. The mappings of the multi-producer
modules allow any step after a lap (or overrun). `Server` in turn uses
`FifoPool` and `FifoQueue`, and `Contracts` checks that it does so as they
demand: so the composition of the detailed modules is covered by the runs of
the parts plus this one, as long as nobody is lapped and the pool is not overrun.

### Fairness

* In the pools and the queue: weak fairness of each thread's steps inside a call
  (threads are scheduled), and, where getters must return, of the caller's
  beginning a `put` of a WR it owns (workers do give back what they handled,
  `src/handle_data.hpp:94`). No fairness for beginning a `get` or a destructor.
  Nothing assumes that one particular producer wins the race for a flag:
  `PutProgress` is lock-freedom, not wait-freedom, and `Handled` speaks of the
  element, not of the worker.
  A semaphore call that fails ends the process instead of the call; nothing
  forces it to and nothing rests on it: fairness is about the other steps, and
  the liveness properties count such an end as one.
* In `Server`: weak fairness of the receive thread and of each worker. None for
  messages, completions, or the program that stops the server. So `ThreadsEnd`
  says of the receive thread only that it ends once it drains: it notices that
  `start` was cleared only after the next message. And a worker that saw `start`
  set and waits in `get` may wait for ever.
* `CommuResources`, `PosixShm` and `Lifecycle` have safety properties only.

### Findings

1. `mpsc_sem_mem_pool::put` (`src/mem_pool.hpp:609`) claims the flag of an index
   it loaded earlier. A producer delayed for one round of the ring claims an old
   slot, enters the critical part beside another producer, both store into the
   same slot and both post: one WR is gone and `__count` promises one too many,
   against the comment on `__count` at line 113. `wr_pool::put` and
   `queue::get` contain the same pattern.
2. `mpsc_atomic_mem_pool` allocates `__elenum` slots (lines 868-869) and lets its
   indices run over `__elenum + 1`. The first `put` is outside, whatever the
   capacity: theorem `FirstPutIsOutside`.
3. `posix_shm::read` checks `temp + nbytes` against the length, but copies from
   `__cur`, which it loads again (`src/shm.hpp:248, 256`). Another access may have
   moved it on: a read of two bytes finds position 0 of a mapping of three, a write
   reserves bytes 0 and 1, and the read copies bytes 2 and 3. No `seek` is involved.
   Its compare-exchange then fails and it tries again, so a wrong result is never
   returned (`ReservedOnce`), but the byte outside has been read.
4. `posix_shm::seek(offset, SEEK_CUR)` (`src/shm.hpp:187-199`): the test for a
   negative result compares an unsigned sum and is never true, so a negative
   offset moves the position below zero, that is, far beyond the mapping. The
   run shows this. Further down, the branch ends with the store of `SEEK_END`, so
   that even without a negative result the position becomes `__length - 1 + offset`
   and may lie beyond the mapping.

What survives the first one: no WR ever gets into two places (`NoAlias` holds
without condition in `wr_pool` and `mpsc_sem`), and the semaphore still adds up
with the callers' holdings, so destruction stays safe (`PermitsAddUp`). What
survives the last two: unless the position has wrapped below zero, accesses
reserve bytes of the mapping only, and no byte twice (`ReservedOnce`).

Facts about the code that passing properties state, and that a reader of the
code may not expect:

* The destructor of a `commu` that was built never returns: nobody destroys the
  QP, so destroying the completion queue fails and ends the process
  (`ReleaseSafe`).
* `~datahandle` joins thread 0 only; with more than one worker, destroying the
  others, still joinable, terminates the process (`CleanShutdown`).
* The MTU check compares the code `active_mtu` (1 to 5) with a size in bytes
  (`CanSucceed` and `CanFail` in `CommuResources`).
* With receives posted in advance and no further messages, `~wr_pool` spins for
  ever, and rightly so: the NIC still has the buffers (`CleanShutdown`).
* The destructor of the queue returns while a worker that has a permit is still to
  read its element from the arrays that are being deleted (`src/queue.hpp:117`):
  `FreedDrained`, and `WaitsRight`, which for the pools says that nothing of
  the kind happens.

## 4. Proofs

All theorems are of the form `Spec => []P` or, for the refinements and
`ReservedOnce`, `Spec => [][A]_vars`; three refinements have the further hypothesis
that one thread alone puts, or gets (`Alone`). They hold for every value of the
constants that satisfies the assumptions named in the modules (`RingAssumption`,
`CapacityAssumption`, `GetterAssumption`, `PoolAssumption`, `QueueAssumption`,
`ServerAssumption`, `ShmAssumption`, `LifecycleAssumption`). None of the
properties is inductive as it stands. Each component has a strengthening (`IInv`, or
`CommuInv`, `ShmInv`, `LifeInv`, `PollInv` where a module holds several), one lemma per
action (or group of actions that treat the ring alike) shows that it is kept, `StepInv` puts them
together, `Invariance` is `Spec => []IInv`, and each property follows from `IInv`.

A proof module can extend several components only when they share no name; the
specifications of `CommuResources`, `PosixShm` and `Lifecycle` are called
`CommuSpec`, `ShmSpec` and `LifeSpec` for that reason. The two semaphore-free
pools do share the names of the others' variables: `SpscAtomicPool` is in
`MemoryProofs`, whose other modules have different ones, and `MpscSemPoolProofs`
takes `Atomic == INSTANCE MpscAtomicPool WITH Rqnum <- Elenum + 1`.

### The single-producer pools: `SpscSemPoolProofs`, `MemoryProofs`

`TypeCorrect`, `AlwaysAccounted`, `AlwaysConserved`, `DestroyIsSafe`,
`TooSmallIsTrue`, `Implements` (in `SpscSemPoolProofs`) are about `SpscSemPool`.

    IInv == TypeOK /\ Balance /\ RingContents /\ NoneLost /\ ControlFacts

`Balance` says that stored and handed-out WRs add up to `Elenum` and that
`rear` is `Stored` slots ahead of `front`: it shows that the slot at `rear` is
free when `put` stores, because a caller still holds the WR it puts.
`RingContents` says that the slots in the ring store WRs nobody holds, each once:
without it a `get` could create an alias. `NoneLost` is its converse.
`ControlFacts` links local variables to the ring, e.g. that the pointer `get` has
read is still in the slot it is about to clear. A step leaves the ring alone
(`RingUntouched`), takes its first WR (`TakeFront`) or adds one (`StoreRear`).

`PollingAccounted`, `PollingOnce` and `PollingImplements` (in `MemoryProofs`) state
`Accounting`, `EachOnce` and `ImplementsFifo` of `SpscAtomicPool`.
There is no count to rely on; `PollInv` says instead that the distance of the indices, the
callers' holdings and the put under way add up to `Elenum`, that the `__rear` a
getter has last seen is at most as far ahead as the present one (so that an
element it believes to be there is there), and that the filled slots, the one
that is stored but not published included, have one WR each.

### The multi-producer pools: `WrPoolProofs`, `MpscSemPoolProofs`

(`NeverAliased`, `Soundness`, `Implements`, `NeverSpinsInVain`, `NeverLapped`,
`OneProducerImplements`; in `MpscSemPoolProofs` also `Accounting` and
`FirstPutIsOutside`.) Here two parts have to be kept apart, because part of the promise
survives a lap:

    IInv == TypeOK /\ Carried /\ Apart(...) /\ ... /\ (Regular => Sound)

* Always: a producer in `put` carries a WR (`Carried`), and slots, producers,
  getter and callers have different WRs (`Apart`). No assumption about indices is
  needed, since each step hands a WR from one owner to the next or drops it.
* Until somebody is lapped (or `get` overruns): `Ring` says that the slots from
  `front` on are full and flagged, the others empty, and that the one claimed flag
  is the one at `rear` and belongs to the one producer behind the claim.
  `Somewhere` says that no WR has disappeared. `Balance` counts: the WRs in
  the ring and with the others add up to `Elenum`; this gives the room for the
  next store. In `MpscSemPool`, `Balance` is about permits and posts to come
  instead of slots and survives a lap: from it follows `PermitsAddUp`. There
  `Stored`, the ring's length, is permits plus posts still owed, because
  producers publish and post in different orders.

What both have in common is proved once, for the module they share, in
`FlagRingProofs`: an owner of a WR is unique (`OneOwner`), the steps of `put` keep
`Apart`, `Ring`, `Somewhere` (`PutApart`, `PutRing`, `PublishRing`,
`PutSomewhere`, ...), and how many producers are at a place (`AtMove`).

Three consequences of these invariants go beyond the runs' instances:

* `NeverSpinsInVain`, the safety half of lock-freedom: a `put` that finds its flag
  set has an index that is out of date, or a producer in front of it that is about
  to advance `__rear`. In `WrPool` the flag at `rear` is that of the slot that is
  always empty. `MpscSemPool` has no such slot: there it follows from `Balance`,
  because the WR that this `put` carries is missing in the ring. That the put in
  front then does advance is the liveness that TLC checks.
* `NeverLapped`: if only one thread puts, as on a server with one worker, no
  claim is ever late, and the theorems with the condition `~lapped` hold without
  it. `Unlapped` says why: at its compare-exchange the index of a lone producer is
  `__rear`. For `MpscSemPool` this gives `OneProducerImplements`: the pool is the
  FIFO pool, from beginning to end. `WrPool` needs in addition that no `get` finds
  it empty (`overrun`).
* `FirstPutIsOutside`, about `MpscAtomicPool`: its indices are in its arrays as long
  as no `put` has begun, and the first step of every `put` is outside. So finding 2
  is not one of small capacities, and there is nothing else to prove about that
  pool: its only defined behaviour is to hand out WRs and never to take one back.

### The queue: `QueueProofs`

(`DeliversOnce`, `AlwaysRoom`, `DrainsFirst`, `NeverSpinsInVain`, `Implements`,
`NeverLapped`, `AloneImplements`.) The
flags have the other role here: they serialise `get`, and it is a worker that may
be delayed for a round and claim an old slot.

    IInv == TypeOK /\ (freed => count = 0) /\ (~lapped => Sound)
    Sound == Claim1 /\ Ring /\ Apart /\ Balance

`Claim1`: at most one worker is between its claim and its publication of
`__front`, and what it has loaded is `__front`. `Ring`: `rear` is `Stored` slots
ahead of `front`, where `Stored` is permits plus posts to come plus workers that
have a permit and have not advanced `__front`; the slots in between are full, and
flagged unless claimed, for each stage of put and of the worker behind the claim.
So a permit means an element, and a queue whose semaphore is at zero holds only
what the gets under way will take. `Balance` counts the elements in the slots:
since there are no more elements than slots, a put finds room. `Apart`: the
elements in the slots and with the workers are different.
`NeverSpinsInVain`: a worker with a permit that finds its flag not set has an old
index or a worker in front of it; for a permit is posted after the flag is set.
`NeverLapped` says when the condition of the others is void: without
`RFTS_SPMC`, or with one worker, `lapped` stays false for ever. Then the queue is the
FIFO queue without condition (`AloneImplements`).

### The refinements

The free list (the queued elements) is a segment of the ring (`Segment` in
`RingArithProofs`); `SegmentPop` and `SegmentPush` say that advancing `front`
takes its head and that advancing `rear` appends. With the invariant, one step of
`get` (`GetReturn`; in the queue, the publication of `__front`) is the abstract
get, the publication of `put` is the abstract put, and everything else stutters.

### The server and its resources: `ServerProofs`

(`Located`, `Balanced`, `ShutsDownCleanly`, `KeepsContracts`; `ReleasesSafely`.)

    IInv == TypeOK /\ Hands /\ Places /\ Turns /\ Ends

`Places` says that the work requests in pool, receive thread, QP, unhandled queue
and workers are all of them, and that their number is `Elenum`: together, each is
in one place. It also says that the QP has what the queue of receiving WRs has,
plus the one the receive thread is about to enter: from it follows that a
completion takes the right element. `Turns` is the balance of receives, `Ends`
remembers why the process ended; `Ends` needs both when the pool is empty or the
QP full. `Hands` is what each thread has.

`KeepsContracts` is the other half of the composition: every step of the server's
threads is a step of `FifoPool` and of both `FifoQueue`s, whose promises the
detailed modules are proved to keep. What an abstract `put` demands, that its
argument is with a caller and not in the pool, follows by counting: five places
that have `Elenum` work requests together and miss none have none in common, and
none twice (`Tight`, `Apart`).

`CommuInv`, for the resources: while nothing has failed, the step tells exactly
which objects exist (`Smooth`), so every call finds what it uses; after a
failure, what is left of `Releases` tells what exists no more (`Broken`), and
once the destructor is through nothing is left, so the constructor, which goes on
behind it, does not get further than its next call. What depends on the next
object to be released was released before it, but for the QP (`OnlyTheQp`).

### Shared memory and ownership: `MemoryProofs`

(`Once`; `DeletedOnce`, `WaitsRightly`, `AlwaysShared`.)

    ShmInv == ShmTypeOK /\ Position /\ \A t \in Threads : Knows(t)

`Position`: unless a seek has gone below zero, the position is at most
`2 * Length - 1`, so that the sums of the checks do not wrap (here the
assumption on `Length` is used), and the bytes taken lie before it. `Knows(t)`:
what `t` loaded is within that bound, what it has checked still fits when it
exchanges, and while nobody sets the position it has only moved forward, so that
a successful exchange means that it has not moved at all.

`LifeInv`, for construction, move and destruction: an object has all arrays of an
allocation or none (`Together`), arrays in use were allocated and belong to the
object last moved to (`Known`), no two objects have the same (`Alone`), and an
allocation has been deleted once or is with somebody (`FreedOnce`). All of it
rests on one lemma about the records of the classes, `Kinds`: each names its
guard among its arrays and either transfers all pointers in a move or, like
`datahandle`, none. For the destructors' waits, `CallsBalance`: in an object that
has its arrays, elements and gets with a permit equal permits and puts yet to
post, in number, and never exceed the capacity; a semaphore at its full value therefore leaves no
room for a call between its steps. `DeletedWhole` carries what was true at the
deletion over the steps that follow it. For the names in `/dev/shm`, `Shared`: who has opened the
name has the object it denotes, unless it was unlinked meanwhile.

### Only model-checked

* All liveness (`CallsReturn`, `PutProgress`, `GetterReturns`, `Handled`,
  `ThreadsEnd`): the prover handles neither fairness nor ENABLED.
* The bounded instances in which the findings violate a property.

Every safety property and every refinement that a passing run checks is proved.
No module has a recursive operator, so nothing is left to TLC for that reason.

## 5. Not modelled, and the plan

Left out for good:

* the clocks (third-party counter reading and calibration), `magic_macro.hpp`
  (constants), `acq_data.hpp` (empty), the printing of `trans_args`, the
  benchmarks under `src/test`;
* `commu::__comp` (empty) and `__comp_check` (not defined); what the code around
  them needs from them is the external part of `Server`;
* the client's half of `__send_or_recv` (`src/commu.cpp:311-324`): both its ends,
  the acquisition that fills the queue and the completion that empties the other
  one, are missing from the source, so almost all of a model would be invented;
* `mpsc_atomic_mem_pool` beyond its first access out of bounds.

What could still be proved: one theorem that states the composition of the server
with the detailed pool and queues, instead of the refinements and
`KeepsContracts` side by side.
