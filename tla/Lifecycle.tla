----------------------------- MODULE Lifecycle -----------------------------
(***************************************************************************)
(* Construction, move and destruction of the classes that own memory: the  *)
(* pools, the queue, posix_sem, posix_shm and datahandle.  What they share *)
(* is one state machine; in what they differ, each has a record.           *)
(*                                                                         *)
(* posix_shm and a posix_sem with a name are opened by name with O_CREAT,  *)
(* by as many processes as there are objects.  Every destructor unlinks    *)
(* the name, and nothing else does: not exit, which does not destroy the   *)
(* objects of main, and not a constructor that fails.                      *)
(*                                                                         *)
(* Only the number of stored elements is kept of a ring, and of its        *)
(* semaphore the value, which a move reads and copies.  get takes a permit *)
(* and an element in two steps, put stores an element and posts in two; in *)
(* the pools without a semaphore the store of the index is both.  Nobody   *)
(* moves an object that is in use, and nobody begins a call once the       *)
(* arrays are deleted; a call under way by then is left where it is,       *)
(* because its next step would be in deleted memory.                       *)
(***************************************************************************)
EXTENDS Naturals, FiniteSets

CONSTANTS Objects,       \* the variables of these types a program has
          Capacity,      \* __elenum of the pools, __rqnum of the queue
          Null

ASSUME LifecycleAssumption == Capacity \in Nat \ {0} /\ Null \notin Objects

(* What a class allocates, in elements (buffers for addr); what its        *)
(* address and length getters report; which pointers the move constructor  *)
(* clears in its source and which in the new object; the pointer whose     *)
(* being null makes the destructor return; what the destructor waits for;  *)
(* which of get and put several threads may call.                          *)
Pool(ring, reported, flags, waits) ==
    LET arrays == {"addr", "wrs", "sg_lists", "rq"} \union flags
        size(r) == [f \in arrays |-> IF f \in {"rq", "flags"} THEN r ELSE Capacity]
    IN  [allocated |-> size(ring), reported |-> size(reported),
         cleared |-> arrays, dropped |-> {}, guard |-> "addr",
         full |-> TRUE, counts |-> waits, named |-> FALSE,
         many |-> IF flags = {} THEN {} ELSE {"put"}]

WrPool == Pool(Capacity + 1, Capacity + 1, {"flags"}, "ring")
SpscSem == Pool(Capacity, Capacity, {}, "permits")
MpscSem == Pool(Capacity, Capacity, {"flags"}, "permits")
SpscAtomic == Pool(Capacity + 1, Capacity + 1, {}, "ring")

(* The arrays have __elenum elements; the getters say __rqnum. *)
MpscAtomic == Pool(Capacity, Capacity + 1, {"flags"}, "ring")

(* Mutant of Queue: the flags are left with the source of a move. *)
QueueKeepsFlags == [allocated |-> [f \in {"rq", "flags"} |-> Capacity],
                    reported |-> [f \in {"rq", "flags"} |-> Capacity],
                    cleared |-> {"rq"}, dropped |-> {}, guard |-> "rq",
                    full |-> FALSE, counts |-> "permits", named |-> FALSE,
                    many |-> {"get"}]

Queue == [allocated |-> [f \in {"rq", "flags"} |-> Capacity],
          reported |-> [f \in {"rq", "flags"} |-> Capacity],
          cleared |-> {"rq", "flags"}, dropped |-> {}, guard |-> "rq",
          full |-> FALSE, counts |-> "permits", named |-> FALSE,
          many |-> {"get"}]

Holder(f, cleared, dropped, named) ==
    [allocated |-> [g \in {f} |-> 1], reported |-> [g \in {f} |-> 1],
     cleared |-> cleared, dropped |-> dropped, guard |-> f,
     full |-> FALSE, counts |-> "nothing", named |-> named, many |-> {}]

PosixSem == Holder("sem", {"sem"}, {}, FALSE)
NamedSem == Holder("sem", {"sem"}, {}, TRUE)
PosixShm == Holder("addr", {"addr"}, {}, TRUE)

(* The move constructor clears the pointer of the new object. *)
DataHandle == Holder("threads", {}, {"threads"}, FALSE)

Classes == [wr_pool |-> WrPool, spsc_sem |-> SpscSem, mpsc_sem |-> MpscSem,
            spsc_atomic |-> SpscAtomic, mpsc_atomic |-> MpscAtomic, queue |-> Queue,
            posix_sem |-> PosixSem, named_sem |-> NamedSem, posix_shm |-> PosixShm,
            datahandle |-> DataHandle]

VARIABLES
    class,          \* the class this behaviour is about
    life,           \* each object: "none", "alive" or "dead"
    ptr,            \* each object: its pointers; an array is named after the
                    \* object that allocated it
    stored,         \* each object: elements from __front to __rear
    permits,        \* each object: value of its __count
    getting,        \* each object: gets that have a permit and no element yet
    putting,        \* each object: puts that have stored and not yet posted
    freed,          \* how often each array has been deleted
    heir,           \* history: for each allocation, the last object moved to
    bound,          \* the kernel object the name denotes, 0 if it denotes none
    created,        \* how many kernel objects have been created
    kernel,         \* for each allocation, the kernel object it has open
    parted,         \* history: allocations during which the name was unlinked
    abandoned       \* history: has a process ended without unlinking?

counts == <<stored, permits, getting, putting>>
names == <<bound, created, kernel, parted, abandoned>>
lifeVars == <<class, life, ptr, counts, freed, heir, names>>

C == Classes[class]
Arrays == DOMAIN C.allocated
Counting == C.counts # "nothing"

(* What a pool holds when all its work requests are back; the queue's      *)
(* destructor waits until nothing is left.                                 *)
Whole == IF C.full THEN Capacity ELSE 0

LifeInit == /\ class \in DOMAIN Classes
            /\ life = [o \in Objects |-> "none"]
            /\ ptr = [o \in Objects |-> [f \in Arrays |-> Null]]
            /\ stored = [o \in Objects |-> 0] /\ permits = [o \in Objects |-> 0]
            /\ getting = [o \in Objects |-> 0] /\ putting = [o \in Objects |-> 0]
            /\ freed = [o \in Objects |-> [f \in Arrays |-> 0]]
            /\ heir = [o \in Objects |-> Null]
            /\ bound = 0 /\ created = 0 /\ kernel = [o \in Objects |-> 0]
            /\ parted = {} /\ abandoned = FALSE

(* sem_open or shm_open with O_CREAT: the existing object, or a new one. *)
Lookup == IF bound # 0 THEN UNCHANGED <<bound, created>>
          ELSE created' = created + 1 /\ bound' = created'
-----------------------------------------------------------------------------
Construct(o) == /\ life[o] = "none"
                /\ life' = [life EXCEPT ![o] = "alive"]
                /\ ptr' = [ptr EXCEPT ![o] = [f \in Arrays |-> o]]
                /\ stored' = [stored EXCEPT ![o] = Whole]
                /\ permits' = [permits EXCEPT ![o] = IF C.counts = "permits" THEN Whole ELSE 0]
                /\ UNCHANGED <<getting, putting>>
                /\ heir' = [heir EXCEPT ![o] = o]
                /\ IF C.named THEN Lookup /\ kernel' = [kernel EXCEPT ![o] = bound']
                              ELSE UNCHANGED <<bound, created, kernel>>
                /\ UNCHANGED <<class, freed, parted, abandoned>>

(* ftruncate or mmap fails after shm_open: close and exit. *)
OpenFails(o) == /\ life[o] = "none" /\ class = "posix_shm"
                /\ Lookup
                /\ life' = [life EXCEPT ![o] = "dead"] /\ abandoned' = TRUE
                /\ UNCHANGED <<class, ptr, counts, freed, heir, kernel, parted>>

InUse(o) == getting[o] + putting[o] > 0

(* Mutant of CopyCount: the semaphore of the new object starts at zero. *)
CopyCountForgotten(ref) == 0

(* __count(0, ref.__count.getvalue()) *)
CopyCount(ref) == permits[ref]

(* o is constructed from std::move(ref), which may have been moved before. *)
Move(ref, o) ==
    /\ life[ref] = "alive" /\ life[o] = "none" /\ ~InUse(ref)
    /\ life' = [life EXCEPT ![o] = "alive"]
    /\ ptr' = [ptr EXCEPT
         ![o] = [f \in Arrays |-> IF f \in C.dropped THEN Null ELSE ptr[ref][f]],
         ![ref] = [f \in Arrays |-> IF f \in C.cleared THEN Null ELSE @[f]]]
    /\ stored' = [stored EXCEPT ![o] = stored[ref]]
    /\ permits' = [permits EXCEPT ![o] = CopyCount(ref)]
    /\ heir' = [a \in Objects |-> IF heir[a] = ref THEN o ELSE heir[a]]
    /\ UNCHANGED <<class, freed, names, getting, putting>>

Owns(o) == life[o] = "alive" /\ ptr[o][C.guard] # Null

(* get: a permit first, then the element and the index __front ...         *)
TakePermit(o) == /\ Owns(o) /\ C.counts = "permits"
                 /\ getting[o] = 0 \/ "get" \in C.many
                 /\ permits[o] > 0
                 /\ permits' = [permits EXCEPT ![o] = @ - 1]
                 /\ getting' = [getting EXCEPT ![o] = @ + 1]
                 /\ UNCHANGED <<class, life, ptr, stored, putting, freed, heir, names>>

Get(o) == /\ Owns(o) /\ Counting
          /\ stored[o] > 0
          /\ stored' = [stored EXCEPT ![o] = @ - 1]
          /\ IF C.counts = "ring" THEN UNCHANGED getting
             ELSE getting[o] > 0 /\ getting' = [getting EXCEPT ![o] = @ - 1]
          /\ UNCHANGED <<class, life, ptr, permits, putting, freed, heir, names>>

(* ... put: the element and the index __rear first, then the permit.  No   *)
(* more elements are in circulation than the ring has room for.            *)
Put(o) == /\ Owns(o) /\ Counting
          /\ putting[o] = 0 \/ "put" \in C.many
          /\ stored[o] < Capacity
          /\ stored' = [stored EXCEPT ![o] = @ + 1]
          /\ IF C.counts = "ring" THEN UNCHANGED putting
             ELSE putting' = [putting EXCEPT ![o] = @ + 1]
          /\ UNCHANGED <<class, life, ptr, permits, getting, freed, heir, names>>

Post(o) == /\ Owns(o) /\ putting[o] > 0
           /\ putting' = [putting EXCEPT ![o] = @ - 1]
           /\ permits' = [permits EXCEPT ![o] = @ + 1]
           /\ UNCHANGED <<class, life, ptr, stored, getting, freed, heir, names>>

(* The loop at the beginning of the destructor is over. *)
Waited(o) == /\ C.counts = "permits" => permits[o] = Whole
             /\ C.counts = "ring" => stored[o] = Whole

Allocated == {a \in Objects : heir[a] # Null}
Holders(a, f) == {o \in Objects : life[o] = "alive" /\ ptr[o][f] = a}

Delete(o) == freed' = [a \in Objects |-> [f \in Arrays |->
                           freed[a][f] + IF ptr[o][f] = a THEN 1 ELSE 0]]

(* Mutant of Unlink: the name stays. *)
UnlinkForgotten(o) == UNCHANGED <<bound, parted>>

Unlink(o) == /\ bound' = 0
             /\ parted' = Allocated

(* The queue is destroyed by the side that puts, with no put under way.    *)
Destruct(o) ==
    /\ life[o] = "alive"
    /\ C.full \/ putting[o] = 0
    /\ Owns(o) => Waited(o)
    /\ life' = [life EXCEPT ![o] = "dead"]
    /\ IF Owns(o) THEN Delete(o) ELSE UNCHANGED freed
    /\ IF Owns(o) /\ C.named THEN Unlink(o) ELSE UNCHANGED <<bound, parted>>
    /\ UNCHANGED <<class, ptr, counts, heir, created, kernel, abandoned>>

(* exit(errno) of PEIE anywhere in the process, or a crash: what it had    *)
(* mapped or open is released, the name stays.                             *)
Exit(o) == /\ Owns(o) /\ C.named
           /\ life' = [life EXCEPT ![o] = "dead"] /\ Delete(o)
           /\ abandoned' = TRUE
           /\ UNCHANGED <<class, ptr, counts, heir, bound, created, kernel, parted>>

LifeNext == \/ \E o \in Objects : \/ Construct(o) \/ OpenFails(o)
                                  \/ TakePermit(o) \/ Get(o) \/ Put(o) \/ Post(o)
                                  \/ Destruct(o) \/ Exit(o)
            \/ \E ref, o \in Objects : Move(ref, o)
            \/ (\A o \in Objects : life[o] = "dead") /\ UNCHANGED lifeVars

LifeSpec == LifeInit /\ [][LifeNext]_lifeVars
-----------------------------------------------------------------------------
(* Whatever is moved where and destroyed in whatever order, an array is    *)
(* deleted once: until then one live object has it, all arrays of an       *)
(* allocation the same one, afterwards none.  It is the object last moved  *)
(* to, except in datahandle, where a move transfers nothing.  The lengths  *)
(* its getters report fit the arrays, but for mpsc_atomic_mem_pool.        *)
ReleasedOnce ==
    \A a \in Allocated, f \in Arrays :
       /\ Cardinality(Holders(a, f)) + freed[a][f] = 1
       /\ Holders(a, f) = Holders(a, C.guard)
       /\ Holders(a, f) \subseteq {heir[a]} \/ class = "datahandle"
       /\ C.reported[f] <= C.allocated[f] \/ class = "mpsc_atomic"

(* Moves keep the semaphore at what the ring holds (mem_pool.hpp:255, 463, *)
(* queue.hpp:104), so that the loop of the destructor ends exactly when it *)
(* should: an object that is complete and idle can be destroyed, wherever  *)
(* it was moved to; and when the arrays of a pool are deleted, all work    *)
(* requests are back and no call is under way, a put that has yet to post  *)
(* included (mem_pool.hpp:268, 477, wr_pool.hpp:151).  The queue promises  *)
(* less: an element whose permit a worker has taken is still in the arrays *)
(* when they are deleted, and the worker reads it from there               *)
(* (queue.hpp:117).                                                        *)
WaitsRight == Counting => \A o \in Objects :
    /\ Owns(o) /\ stored[o] = Whole /\ ~InUse(o) => Waited(o)
    /\ life[o] = "dead" /\ ptr[o][C.guard] # Null =>
          /\ putting[o] = 0
          /\ stored[o] = Whole + getting[o]
          /\ C.full => getting[o] = 0

(* sem.hpp:51, 90, shm.hpp:58, 143: processes that open the same name      *)
(* share one object as long as none of them has destroyed it, for then the *)
(* name is gone and the next one opens another object; and a name that     *)
(* nobody has open denotes no left-over object, with a left-over value,    *)
(* unless a process ended without its destructor.                          *)
SharedUntilLeft == C.named =>
    LET open == {a \in Allocated : Holders(a, C.guard) # {}}
    IN  /\ \A a \in open \ parted : kernel[a] = bound
        /\ open = {} /\ bound # 0 => abandoned
=============================================================================
