---------------------------- MODULE SpscSemPool ----------------------------
(***************************************************************************)
(* rfts::spsc_sem_mem_pool (mem_pool.hpp): a pool of send work requests.   *)
(* One thread takes work requests out (get, tryget, timeget), one thread   *)
(* gives them back (put); a POSIX semaphore counts the free ones.          *)
(*                                                                         *)
(* A work request is its index in __wrs.  Each action is one access to     *)
(* memory that the other thread can reach (the semaphore or a slot of      *)
(* __ringqueue) with the thread-local code that follows it.                *)
(***************************************************************************)
EXTENDS RingArith, SemGetter, FiniteSets, Sequences

CONSTANTS Elenum,        \* __elenum: capacity, and number of work requests
          Nullptr        \* the null work-request pointer

Wrs == 0 .. Elenum - 1
Slots == 0 .. Elenum - 1

ASSUME PoolAssumption == /\ Elenum \in Nat \ {0}
                         /\ Nullptr \notin Wrs

VARIABLES
    front, rear,    \* __front (consumer's), __rear (producer's)
    ringqueue,      \* __ringqueue
    temp,           \* get: the pointer it has read
    pcP,            \* producer: control state
    held            \* work requests handed out and not yet given back

ringVars == <<front, rear, ringqueue, temp, pcP, held>>

vars == <<ringVars, semVars>>

(* The constructor's loop: slot i gets &__wrs[i], one post per slot, and   *)
(* __rear is back at 0 after the last.                                     *)
Init == /\ front = 0
        /\ rear = 0
        /\ ringqueue = [i \in Slots |-> i]
        /\ temp = Nullptr
        /\ pcP = "idle"
        /\ held = {}
        /\ GetterInit(Elenum)
-----------------------------------------------------------------------------
(* The consumer thread.  Waiting for a permit is in SemGetter. *)

BeginGet == CallStep /\ UNCHANGED ringVars

WaitPermit == WaitStep /\ UNCHANGED ringVars

(* Mutant of Hand: __front is not advanced. *)
HandStays(w) == /\ held' = held \union {w}
                /\ front' = front
                /\ Return

(* The getter returns w: __front advances and the caller owns w. *)
Hand(w) == /\ held' = held \union {w}
           /\ front' = Succ(front, Elenum)
           /\ Return

(* get reads the slot and clears it with a later store ... *)
Read == /\ pcC = "take" /\ op = "get"
        /\ temp' = ringqueue[front]
        /\ pcC' = "clear"
        /\ UNCHANGED <<front, rear, ringqueue, pcP, held, count, callVars, exit>>

Clear == /\ pcC = "clear"
         /\ ringqueue' = [ringqueue EXCEPT ![front] = Nullptr]
         /\ temp' = Nullptr
         /\ Hand(temp)
         /\ UNCHANGED <<rear, pcP>>

(* ... tryget and timeget leave the old pointer in the slot. *)
Take == /\ pcC = "take" /\ op \in {"tryget", "timeget"}
        /\ Hand(ringqueue[front])
        /\ UNCHANGED <<rear, ringqueue, temp, pcP>>

BeginDestroy == Destroy /\ UNCHANGED ringVars

FreeArrays == Free(Elenum) /\ UNCHANGED ringVars
-----------------------------------------------------------------------------
(* The producer thread: put(e) for a work request the callers hold. *)

(* Mutant of PutStore: __rear is not advanced. *)
PutStoreStays == /\ pcP = "idle"
                 /\ \E e \in held :
                      /\ ringqueue' = [ringqueue EXCEPT ![rear] = e]
                      /\ held' = held \ {e}
                 /\ pcP' = "post"
                 /\ UNCHANGED <<front, rear, temp, semVars>>

PutStore == /\ pcP = "idle"
            /\ \E e \in held :
                 /\ ringqueue' = [ringqueue EXCEPT ![rear] = e]
                 /\ held' = held \ {e}
            /\ rear' = Succ(rear, Elenum)
            /\ pcP' = "post"
            /\ UNCHANGED <<front, temp, semVars>>

PutPost == /\ pcP = "post"
           /\ Post
           /\ pcP' = "idle"
           /\ UNCHANGED <<front, rear, ringqueue, temp, held>>
-----------------------------------------------------------------------------
Getter == WaitPermit \/ Read \/ Clear \/ Take

Consumer == BeginGet \/ Getter \/ BeginDestroy \/ FreeArrays

Producer == PutStore \/ PutPost

Next == \/ Running(Consumer \/ Producer)
        \/ Stopped /\ UNCHANGED vars

Spec == Init /\ [][Next]_vars

(* Threads keep running, and callers give back what they took.  A getter   *)
(* may fail in its semaphore, but does not count on it.                    *)
Fairness == /\ WF_vars(Running(Getter) /\ exit' # "failed")
            /\ WF_vars(Running(FreeArrays))
            /\ WF_vars(Running(PutStore))
            /\ WF_vars(Running(PutPost))

FairSpec == Spec /\ Fairness
-----------------------------------------------------------------------------
TypeOK == /\ front \in Slots /\ rear \in Slots
          /\ ringqueue \in [Slots -> Wrs \union {Nullptr}]
          /\ temp \in Wrs \union {Nullptr}
          /\ pcP \in {"idle", "post"}
          /\ held \subseteq Wrs
          /\ GetterTypeOK(Elenum)

(* The free work requests: those the consumer may read, and the one that   *)
(* put has stored but not posted yet.                                      *)
Stored == IF pcP = "post" THEN Permits + 1 ELSE Permits

InRing(i) == Dist(front, i, Elenum) < Stored

(* The semaphore, the two indices and the callers agree: what the ring     *)
(* stores and what is handed out make up all work requests, __rear is      *)
(* exactly that many slots ahead of __front, so put (mem_pool.hpp:383)     *)
(* never stores into a slot that a getter has yet to read, and a permit    *)
(* stands for a slot that was stored before the post, so no getter hands   *)
(* out a null pointer.                                                     *)
Accounting == /\ Stored + Cardinality(held) = Elenum
              /\ rear = Ahead(front, Stored, Elenum)
              /\ \A i \in Slots :
                    Dist(front, i, Elenum) < Permits => ringqueue[i] \in Wrs

(* mem_pool.hpp:381-387 against 326-378: whatever the interleaving of put  *)
(* and a getter, no work request is in two slots between __front and       *)
(* __rear, and none that the callers hold is still there to be handed out  *)
(* a second time.                                                          *)
NoAlias == /\ \A i \in Slots : InRing(i) => ringqueue[i] \notin held
           /\ \A i, j \in Slots :
                 InRing(i) /\ InRing(j) /\ ringqueue[i] = ringqueue[j] => i = j

(* None is overwritten by put or forgotten by a getter that leaves its     *)
(* slot as it is.                                                          *)
NoneLost == \A w \in Wrs :
               w \in held \/ \E i \in Slots : InRing(i) /\ ringqueue[i] = w

(* Every work request is once in the ring or with the callers. *)
Conserved == NoAlias /\ NoneLost

(* mem_pool.hpp:268: when the destructor has seen __count reach __elenum   *)
(* and frees the arrays, no put is still on its way and nothing is out.    *)
DestroyedQuiet == pcC = "freed" => pcP = "idle" /\ held = {}

(* mem_pool.hpp:345,367 print MEM_POOL_CAPACITY_SCALE too small only when  *)
(* that is so: at most the work request of a put in progress is in the     *)
(* pool, all the others are with the callers.                              *)
TooSmallMeansExhausted == exit = "too_small" => Cardinality(held) >= Elenum - 1

(* The free work requests in the order in which they will be handed out. *)
FreeList == [k \in 1 .. Stored |-> ringqueue[Ahead(front, k - 1, Elenum)]]

(* The pool is the FIFO pool: the ring from __front on is the free list. *)
Fifo == INSTANCE FifoPool WITH free <- FreeList, out <- held

ImplementsFifo == Fifo!FifoSpec

(* A getter that has been called ends, by returning or by ending the       *)
(* process, and so does the destructor: work requests do come back.        *)
CallsReturn == /\ pcC = "wait" ~> (pcC = "idle" \/ exit # "no")
               /\ pcC = "dtor" ~> (pcC = "freed" \/ exit # "no")
=============================================================================
