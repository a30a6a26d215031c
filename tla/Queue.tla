------------------------------- MODULE Queue -------------------------------
(***************************************************************************)
(* rfts::queue<T> (queue.hpp): how completed work requests travel from the *)
(* completion thread, which puts, to the workers, which get.               *)
(*                                                                         *)
(* With RFTS_SPMC the workers claim a slot by turning its flag from true   *)
(* to false; as in FlagRing the flag is chosen by one load of __front and  *)
(* the slot by a later one.  Without it one worker may get, and there is   *)
(* no flag.                                                                *)
(*                                                                         *)
(* put does not check for room: the elements in circulation are never more *)
(* than __rqnum (the formulas of queue and of trans_args::get_elenum are   *)
(* the same).                                                              *)
(***************************************************************************)
EXTENDS RingArith, FiniteSets, Sequences

CONSTANTS Rqnum,         \* __rqnum
          Elems,         \* the elements in circulation
          Consumers,     \* the workers
          Single,        \* the one that gets if RFTS_SPMC is not defined
          Nullptr

Slots == 0 .. Rqnum - 1

ASSUME QueueAssumption ==
    /\ Rqnum \in Nat \ {0}
    /\ IsFiniteSet(Elems) /\ Cardinality(Elems) <= Rqnum
    /\ Nullptr \notin Elems
    /\ IsFiniteSet(Consumers) /\ Single \in Consumers

VARIABLES
    spmc,           \* is RFTS_SPMC defined?
    front, rear,    \* __front, __rear
    rq, flags,      \* __rq, __rq_flags
    count,          \* value of the semaphore __count
    pcP,            \* the producer's control state
    pcC,            \* each consumer: control state
    idx,            \* each consumer: the value of __front it has loaded
    temp,           \* each consumer: the element it has read
    lapped          \* history: has a claim ever hit a flag away from __front?

prodVars == <<rear, pcP>>
consVars == <<front, pcC, idx, temp, lapped>>
vars == <<spmc, prodVars, consVars, rq, flags, count>>

Init == /\ spmc \in BOOLEAN
        /\ front = 0 /\ rear = 0
        /\ rq = [i \in Slots |-> Nullptr]
        /\ flags = [i \in Slots |-> FALSE]
        /\ count = 0
        /\ pcP = "idle"
        /\ pcC = [c \in Consumers |-> "idle"]
        /\ idx = [c \in Consumers |-> 0]
        /\ temp = [c \in Consumers |-> Nullptr]
        /\ lapped = FALSE
-----------------------------------------------------------------------------
InSlots == {rq[i] : i \in Slots}
WithWorkers == {temp[c] : c \in Consumers}

(* put(e) for an element that is in nobody's hands.  After a lap elements  *)
(* may have been lost or duplicated; the model then puts no more.          *)
PutStore == /\ pcP = "idle"
            /\ ~lapped
            /\ \E e \in Elems \ (InSlots \union WithWorkers) :
                  rq' = [rq EXCEPT ![rear] = e]
            /\ pcP' = "flag"
            /\ UNCHANGED <<rear, flags, count, consVars>>

(* Mutant of PutFlag: __rear is not advanced. *)
PutFlagStays == /\ pcP = "flag"
                /\ flags' = IF spmc THEN [flags EXCEPT ![rear] = TRUE] ELSE flags
                /\ pcP' = "post"
                /\ UNCHANGED <<rear, rq, count, consVars>>

(* Mutant of PutFlag: the flag is set in the wrong variant. *)
PutFlagUnset == /\ pcP = "flag"
                /\ flags' = IF spmc THEN flags ELSE [flags EXCEPT ![rear] = TRUE]
                /\ rear' = Succ(rear, Rqnum)
                /\ pcP' = "post"
                /\ UNCHANGED <<rq, count, consVars>>

PutFlag == /\ pcP = "flag"
           /\ flags' = IF spmc THEN [flags EXCEPT ![rear] = TRUE] ELSE flags
           /\ rear' = Succ(rear, Rqnum)
           /\ pcP' = "post"
           /\ UNCHANGED <<rq, count, consVars>>

PutPost == /\ pcP = "post"
           /\ count' = count + 1
           /\ pcP' = "idle"
           /\ UNCHANGED <<rear, rq, flags, consVars>>

(* The destructor, by the producer's side: it spins until the semaphore is *)
(* zero and frees the arrays.                                              *)
Destroy == /\ pcP = "idle"
           /\ pcP' = "dtor"
           /\ UNCHANGED <<rear, rq, flags, count, consVars>>

(* Mutant of Free: the destructor does not wait. *)
FreeAtOnce == /\ pcP = "dtor"
              /\ pcP' = "freed"
              /\ UNCHANGED <<rear, rq, flags, count, consVars>>

Free == /\ pcP = "dtor"
        /\ count = 0
        /\ pcP' = "freed"
        /\ UNCHANGED <<rear, rq, flags, count, consVars>>
-----------------------------------------------------------------------------
Goto(c, l) == pcC' = [pcC EXCEPT ![c] = l]

LoadFront(c) == idx' = [idx EXCEPT ![c] = front]

(* Mutant of Wait: the test of the wait is inverted. *)
WaitInverted(c) == /\ pcC[c] = "idle"
                   /\ count > 0
                   /\ UNCHANGED vars

(* get: __count.wait() returns. *)
Wait(c) == /\ pcC[c] = "idle" /\ (spmc \/ c = Single)
           /\ count > 0
           /\ count' = count - 1
           /\ Goto(c, IF spmc THEN "load" ELSE "reload")
           /\ UNCHANGED <<front, idx, temp, lapped, prodVars, rq, flags>>

Load(c) == /\ pcC[c] = "load"
           /\ LoadFront(c)
           /\ Goto(c, "cas")
           /\ UNCHANGED <<front, temp, lapped, prodVars, rq, flags, count>>

(* The compare-exchange fails: the flag is false. *)
Busy(c) == /\ pcC[c] = "cas"
           /\ ~flags[idx[c]]
           /\ Goto(c, "load")
           /\ UNCHANGED <<front, idx, temp, lapped, prodVars, rq, flags, count>>

(* Mutant of Claim: an exchange instead of a compare-exchange. *)
ClaimBlind(c) == /\ pcC[c] = "cas"
                 /\ flags' = [flags EXCEPT ![idx[c]] = FALSE]
                 /\ lapped' = (lapped \/ idx[c] # front)
                 /\ Goto(c, "reload")
                 /\ UNCHANGED <<front, idx, temp, prodVars, rq, count>>

(* It succeeds, wherever __front is by now. *)
Claim(c) == /\ pcC[c] = "cas"
            /\ flags[idx[c]]
            /\ flags' = [flags EXCEPT ![idx[c]] = FALSE]
            /\ lapped' = (lapped \/ idx[c] # front)
            /\ Goto(c, "reload")
            /\ UNCHANGED <<front, idx, temp, prodVars, rq, count>>

Reload(c) == /\ pcC[c] = "reload"
             /\ LoadFront(c)
             /\ Goto(c, "read")
             /\ UNCHANGED <<front, temp, lapped, prodVars, rq, flags, count>>

Read(c) == /\ pcC[c] = "read"
           /\ temp' = [temp EXCEPT ![c] = rq[idx[c]]]
           /\ Goto(c, "clear")
           /\ UNCHANGED <<front, idx, lapped, prodVars, rq, flags, count>>

(* Mutant of Clear: the pointer stays in the slot. *)
ClearForgotten(c) == /\ pcC[c] = "clear"
                     /\ Goto(c, "advance")
                     /\ UNCHANGED <<front, idx, temp, lapped, prodVars, rq, flags, count>>

Clear(c) == /\ pcC[c] = "clear"
            /\ rq' = [rq EXCEPT ![idx[c]] = Nullptr]
            /\ Goto(c, "advance")
            /\ UNCHANGED <<front, idx, temp, lapped, prodVars, flags, count>>

(* __front.store(); get returns and the worker handles the element. *)
Advance(c) == /\ pcC[c] = "advance"
              /\ front' = Succ(idx[c], Rqnum)
              /\ Goto(c, "work")
              /\ UNCHANGED <<idx, temp, lapped, prodVars, rq, flags, count>>

(* The worker has finished with its element and may call get again.  With  *)
(* a null pointer it would have crashed.                                   *)
Finish(c) == /\ pcC[c] = "work"
             /\ temp[c] # Nullptr
             /\ temp' = [temp EXCEPT ![c] = Nullptr]
             /\ Goto(c, "idle")
             /\ UNCHANGED <<front, idx, lapped, prodVars, rq, flags, count>>

Get(c) == \/ Wait(c) \/ Load(c) \/ Busy(c) \/ Claim(c) \/ Reload(c)
          \/ Read(c) \/ Clear(c) \/ Advance(c)
-----------------------------------------------------------------------------
Producer == PutStore \/ PutFlag \/ PutPost \/ Destroy \/ Free

Alive(A) == pcP # "freed" /\ A /\ UNCHANGED spmc

(* The last disjunct: the queue is gone, or, once a worker has been lapped *)
(* and an element lost, some get spins for ever.                           *)
Next == \/ Alive(Producer \/ \E c \in Consumers : Get(c) \/ Finish(c))
        \/ (pcP = "freed" \/ lapped) /\ UNCHANGED vars

Spec == Init /\ [][Next]_vars

(* A put that has begun goes on; workers keep working. *)
Fairness == /\ WF_vars(Alive(PutFlag \/ PutPost))
            /\ WF_vars(Alive(Free))
            /\ \A c \in Consumers : /\ WF_vars(Alive(Get(c)))
                                    /\ WF_vars(Alive(Finish(c)))

FairSpec == Spec /\ Fairness
-----------------------------------------------------------------------------
(* The workers that have a permit and have not advanced __front yet, and   *)
(* among them the ones that have claimed a slot.                           *)
Permitted == {c \in Consumers : pcC[c] \notin {"idle", "work"}}
Claimants == {c \in Consumers : pcC[c] \in {"reload", "read", "clear", "advance"}}

(* The elements that are in the queue. *)
Stored == count + Cardinality(Permitted) + IF pcP = "post" THEN 1 ELSE 0

(* queue.hpp:139-161: as long as no worker was lapped, one worker at a     *)
(* time is at work on the ring, an element is in one slot or with one      *)
(* worker, never both, and get returns no null pointer: no completed work  *)
(* request is handled twice.                                               *)
NoDoubleDelivery ==
    ~lapped =>
      /\ \A c, d \in Claimants : c = d
      /\ \A e \in Elems :
            Cardinality({<<"slot", i>> : i \in {i \in Slots : rq[i] = e /\
                              \A c \in Consumers : ~(pcC[c] = "clear" /\ idx[c] = i)}}
                        \union {<<"worker", c>> : c \in {c \in Consumers : temp[c] = e}}) <= 1
      /\ \A c \in Consumers :
            pcC[c] \in {"clear", "advance", "work"} => temp[c] # Nullptr

(* __rear is as many slots ahead of __front as elements are in the queue,  *)
(* so put, which does not look, never stores over one.                     *)
RoomForPut == ~lapped => /\ rear = Ahead(front, Stored, Rqnum)
                         /\ pcP = "idle" => Stored = Cardinality(InSlots \ {Nullptr})
                                               + Cardinality({c \in Consumers : pcC[c] = "advance"})

(* A worker whose compare-exchange fails goes round either because __front *)
(* has moved since it was loaded, or behind a worker that is going to move *)
(* it: a permit is never taken before the flag that it stands for is set   *)
(* (queue.hpp:128-153).                                                    *)
SpinsForCause == ~lapped => \A c \in Consumers :
    pcC[c] = "cas" /\ ~flags[idx[c]] => idx[c] # front \/ Claimants # {}

(* queue.hpp:117: when the destructor frees the ring, every element in it  *)
(* belongs to a get that is under way; none is left behind.                *)
FreedDrained == pcP = "freed" /\ ~lapped =>
                   Cardinality(InSlots \ {Nullptr}) <= Cardinality(Permitted)

(* What is in the queue: from __front on, as many slots as elements are    *)
(* stored; the worker that has cleared its slot has the first.             *)
Items == [k \in 1 .. Stored |->
            LET late == {c \in Consumers : pcC[c] = "advance"}
            IN  IF k = 1 /\ late # {} THEN temp[CHOOSE c \in late : TRUE]
                ELSE rq[Ahead(front, k - 1, Rqnum)]]

(* What the workers have got and not finished with. *)
InWork == {temp[c] : c \in {c \in Consumers : pcC[c] = "work"}}

Fifo == INSTANCE FifoQueue WITH items <- Items, busy <- InWork

(* Until a worker is lapped it is the FIFO queue: a put takes effect when  *)
(* it has set the flag, a get when it advances __front.                    *)
ImplementsFifo == Fifo!QueueInit /\ [][Fifo!QueueNext \/ lapped]_<<Fifo!queueVars>>

(* What was put is handled, unless the queue is destroyed.                 *)
Handled == \A e \in Elems :
    e \in InSlots ~> (e \notin InSlots \/ lapped \/ pcP = "freed")
=============================================================================
