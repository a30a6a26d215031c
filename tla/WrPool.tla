------------------------------- MODULE WrPool -------------------------------
(***************************************************************************)
(* rfts::wr_pool<T> (wr_pool.hpp): the pool of work requests that commu    *)
(* uses.  One completion thread calls get, the worker threads call put.    *)
(* The header defines RFTS_SERVER itself, so the flags are always there.   *)
(*                                                                         *)
(* get does not look whether there is anything to get: when __front is at  *)
(* __rear it dereferences a null pointer, or takes a work request that put *)
(* has stored but not published yet.  What the pool guarantees, it does as *)
(* long as its callers avoid this (overrun) and no producer is delayed for *)
(* a full round of the ring (lapped).                                      *)
(***************************************************************************)
EXTENDS FlagRing

VARIABLES
    front,          \* __front
    pcC, temp,      \* get: control state and the pointer it has read
    crashed,        \* has get dereferenced a null pointer?
    overrun         \* history: has get ever been called with __front at __rear?

getVars == <<front, pcC, temp, crashed, overrun>>

vars == <<putVars, getVars>>

ASSUME CapacityAssumption == Rqnum = Elenum + 1      \* __rqnum(__elenum + 1)

Init == /\ RingInit
        /\ front = 0
        /\ pcC = "idle" /\ temp = Nullptr
        /\ crashed = FALSE
        /\ overrun = FALSE
-----------------------------------------------------------------------------
GetRead == /\ pcC = "idle"
           /\ temp' = rq[front]
           /\ pcC' = "clear"
           /\ overrun' = (overrun \/ front = rear)
           /\ UNCHANGED <<putVars, front, crashed>>

(* Mutant of GetClear: the pointer stays in the slot. *)
GetClearForgotten == /\ pcC = "clear"
                     /\ pcC' = "flag"
                     /\ UNCHANGED <<putVars, front, temp, crashed, overrun>>

GetClear == /\ pcC = "clear"
            /\ rq' = [rq EXCEPT ![front] = Nullptr]
            /\ pcC' = "flag"
            /\ UNCHANGED <<rear, flags, pcP, idx, elem, held, lapped,
                           front, temp, crashed, overrun>>

(* Mutant of GetReturn: the flag is not cleared. *)
GetReturnFlagged == /\ pcC = "flag"
                    /\ front' = Succ(front, Rqnum)
                    /\ crashed' = (temp = Nullptr)
                    /\ held' = held \union ({temp} \ {Nullptr})
                    /\ temp' = Nullptr
                    /\ pcC' = "idle"
                    /\ UNCHANGED <<rear, rq, flags, pcP, idx, elem, lapped, overrun>>

(* The flag is cleared, __front advances, and temp->wr_id is written. *)
GetReturn == /\ pcC = "flag"
             /\ flags' = [flags EXCEPT ![front] = FALSE]
             /\ front' = Succ(front, Rqnum)
             /\ crashed' = (temp = Nullptr)
             /\ held' = held \union ({temp} \ {Nullptr})
             /\ temp' = Nullptr
             /\ pcC' = "idle"
             /\ UNCHANGED <<rear, rq, pcP, idx, elem, lapped, overrun>>

(* The destructor, by the thread that called get, spins until all slots    *)
(* but one are between __front and __rear.                                 *)
Destroy == /\ pcC = "idle"
           /\ pcC' = "dtor"
           /\ UNCHANGED <<putVars, front, temp, crashed, overrun>>

Free == /\ pcC = "dtor"
        /\ Dist(front, rear, Rqnum) = Elenum
        /\ pcC' = "freed"
        /\ UNCHANGED <<putVars, front, temp, crashed, overrun>>

Begin(p) == PutCall(p) /\ UNCHANGED getVars

Advance(p) == /\ PutStep(p) \/ PutPublish(p, "idle")
              /\ UNCHANGED getVars

Consumer == GetRead \/ GetClear \/ GetReturn \/ Destroy \/ Free

Stopped == crashed \/ pcC = "freed"

(* Neither of the two misfortunes has happened. *)
Regular == ~lapped /\ ~overrun

(* The last disjunct: nothing runs any more, or, once work requests have   *)
(* been lost, a put or the destructor spins for ever.                      *)
Next == \/ ~Stopped /\ (Consumer \/ \E p \in Producers : Begin(p) \/ Advance(p))
        \/ (Stopped \/ ~Regular) /\ UNCHANGED vars

Spec == Init /\ [][Next]_vars

(* Threads keep running; workers give back what they were handed. *)
Fairness == /\ WF_vars(~Stopped /\ (GetClear \/ GetReturn))
            /\ WF_vars(~Stopped /\ Free)
            /\ \A p \in Producers : /\ WF_vars(~Stopped /\ Begin(p))
                                    /\ WF_vars(~Stopped /\ Advance(p))

FairSpec == Spec /\ Fairness
-----------------------------------------------------------------------------
TypeOK == /\ RingTypeOK
          /\ front \in Slots
          /\ pcC \in {"idle", "clear", "flag", "dtor", "freed"}
          /\ temp \in Wrs \union {Nullptr}
          /\ crashed \in BOOLEAN
          /\ overrun \in BOOLEAN

(* The ring from __front up to __rear: what can still be got. *)
InRing(i) == Dist(front, i, Rqnum) < Dist(front, rear, Rqnum)

(* Between its two steps get finds in the slot what it has just read. *)
OwnersNow(w) == Owners(w, IF pcC = "clear" THEN Slots \ {front} ELSE Slots,
                          IF pcC \in {"clear", "flag"} THEN {temp} ELSE {})

(* No work request is ever in two places: no receive buffer is posted to   *)
(* the NIC while a worker reads it, not even after a producer was lapped   *)
(* (wr_pool.hpp:237-264).                                                  *)
NoAlias == \A w \in Wrs : Cardinality(OwnersNow(w)) <= 1

(* As long as nothing irregular happens (wr_pool.hpp:237-264)              *)
(*   - the flags serialise put: between a claim and its publication no     *)
(*     other producer works on the ring;                                   *)
(*   - the slots from __front up to __rear are full and flagged, the       *)
(*     others, but for the one a put is working on, empty and unflagged;   *)
(*   - no work request disappears and get finds no null pointer;           *)
(*   - when the destructor has counted all work requests and frees the     *)
(*     ring (146-153), no put is still using it.                           *)
RingSound ==
    Regular =>
      /\ ClaimExclusive
      /\ \A i \in Slots : InRing(i) => flags[i] /\ (rq[i] \in Wrs \/ (pcC = "flag" /\ i = front))
      /\ \A i \in Slots : ~InRing(i) /\ i # rear => ~flags[i] /\ rq[i] = Nullptr
      /\ \A w \in Wrs : OwnersNow(w) # {}
      /\ ~crashed
      /\ pcC = "freed" => held = {} /\ \A p \in Producers : pcP[p] = "idle"

(* A put never spins for a flag that nobody is going to clear, or in front *)
(* of a __rear that nobody is going to move (wr_pool.hpp:253-264).         *)
SpinsForCause == Regular => SpinsBehind

(* The pool is the FIFO pool.  A get takes effect when it returns, a put   *)
(* when it publishes.                                                      *)
Size == Dist(front, rear, Rqnum)

(* At "flag" the oldest free work request is in the hands of get. *)
Content(i) == IF i = front /\ pcC = "flag" THEN temp ELSE rq[i]

FreeList == [k \in 1 .. Size |-> Content(Ahead(front, k - 1, Rqnum))]

Fifo == INSTANCE FifoPool WITH free <- FreeList, out <- Out

ImplementsFifo == Fifo!FifoInit
                  /\ [][Fifo!FifoNext \/ ~Regular']_(Fifo!fifoVars)

(* put is lock-free: among the producers in put some one always finishes.  *)
PutProgress == \A r \in Slots :
    (rear = r /\ \E p \in Producers : pcP[p] # "idle")
        ~> (rear # r \/ ~Regular)

=============================================================================
