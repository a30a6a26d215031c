---------------------------- MODULE MpscSemPool ----------------------------
(***************************************************************************)
(* rfts::mpsc_sem_mem_pool (mem_pool.hpp): the pool of receive work        *)
(* requests.  One thread gets, several threads put; the flags of FlagRing  *)
(* keep the producers apart and a semaphore counts what can be got.        *)
(***************************************************************************)
EXTENDS FlagRing, SemGetter

VARIABLES
    front,          \* __front
    temp,           \* the pointer a getter has read
    crashed         \* has a getter dereferenced a null pointer?

getVars == <<front, temp, crashed>>

vars == <<putVars, semVars, getVars>>

ASSUME CapacityAssumption == Rqnum = Elenum    \* __ringqueue(new ...[__elenum])

Init == /\ RingInit
        /\ GetterInit(Elenum)
        /\ front = 0
        /\ temp = Nullptr
        /\ crashed = FALSE
-----------------------------------------------------------------------------
(* The consumer.  The three getters differ only in how they wait. *)

BeginGet == CallStep /\ UNCHANGED <<putVars, getVars>>

WaitPermit == WaitStep /\ UNCHANGED <<putVars, getVars>>

GetRead == /\ pcC = "take"
           /\ temp' = rq[front]
           /\ pcC' = "clear"
           /\ UNCHANGED <<putVars, count, callVars, exit, front, crashed>>

(* Mutant of GetClear: the pointer stays in the slot. *)
GetClearForgotten == /\ pcC = "clear"
                     /\ pcC' = "flag"
                     /\ UNCHANGED <<putVars, count, callVars, exit, getVars>>

GetClear == /\ pcC = "clear"
            /\ rq' = [rq EXCEPT ![front] = Nullptr]
            /\ pcC' = "flag"
            /\ UNCHANGED <<rear, flags, pcP, idx, elem, held, lapped,
                           count, callVars, exit, getVars>>

(* The flag is cleared, __front advances, and temp->wr_id is written. *)
GetReturn == /\ pcC = "flag"
             /\ flags' = [flags EXCEPT ![front] = FALSE]
             /\ front' = Succ(front, Rqnum)
             /\ crashed' = (temp = Nullptr)
             /\ held' = held \union ({temp} \ {Nullptr})
             /\ temp' = Nullptr
             /\ Return
             /\ UNCHANGED <<rear, rq, pcP, idx, elem, lapped>>

BeginDestroy == Destroy /\ UNCHANGED <<putVars, getVars>>

FreeArrays == Free(Elenum) /\ UNCHANGED <<putVars, getVars>>
-----------------------------------------------------------------------------
(* A producer: put, and the post that ends it. *)

BeginPut(p) == PutCall(p) /\ UNCHANGED <<semVars, getVars>>

(* Mutant of PutPost: two permits for one work request. *)
PutPostTwice(p) == /\ pcP[p] = "post"
                   /\ Goto(p, "idle")
                   /\ count' = count + 2
                   /\ UNCHANGED <<pcC, callVars, exit>>
                   /\ UNCHANGED <<rear, rq, flags, idx, elem, held, lapped, getVars>>

PutPost(p) == /\ pcP[p] = "post"
              /\ Goto(p, "idle")
              /\ Post
              /\ UNCHANGED <<rear, rq, flags, idx, elem, held, lapped, getVars>>

Advance(p) == \/ (PutStep(p) \/ PutPublish(p, "post")) /\ UNCHANGED <<semVars, getVars>>
              \/ PutPost(p)
-----------------------------------------------------------------------------
Getter == WaitPermit \/ GetRead \/ GetClear \/ GetReturn

Consumer == BeginGet \/ Getter \/ BeginDestroy \/ FreeArrays

Halted == Stopped \/ crashed

(* The last disjunct: nothing runs any more, or, once a producer has been  *)
(* lapped and work requests lost, a put or a getter waits for ever.        *)
Next == \/ ~Halted /\ (Consumer \/ \E p \in Producers : BeginPut(p) \/ Advance(p))
        \/ (Halted \/ lapped) /\ UNCHANGED vars

Spec == Init /\ [][Next]_vars

(* No getter is owed a failure of its semaphore. *)
Fairness == /\ WF_vars(~Halted /\ Getter /\ exit' # "failed")
            /\ WF_vars(~Halted /\ FreeArrays)
            /\ \A p \in Producers : /\ WF_vars(~Halted /\ BeginPut(p))
                                    /\ WF_vars(~Halted /\ Advance(p))

FairSpec == Spec /\ Fairness
-----------------------------------------------------------------------------
TypeOK == /\ RingTypeOK
          /\ GetterTypeOK(Elenum)
          /\ front \in Slots
          /\ temp \in Wrs \union {Nullptr}
          /\ crashed \in BOOLEAN

Posting == {p \in Producers : pcP[p] = "post"}

(* Published work requests from __front on, posted or not. *)
Stored == Permits + Cardinality(Posting)

InRing(i) == Dist(front, i, Rqnum) < Stored

(* Between its two steps a getter finds in the slot what it has just read. *)
OwnersNow(w) == Owners(w, IF pcC = "clear" THEN Slots \ {front} ELSE Slots,
                          IF pcC \in {"clear", "flag"} THEN {temp} ELSE {})

(* No work request is ever in two places, lapped producers or not          *)
(* (mem_pool.hpp:547-620).                                                 *)
NoAlias == \A w \in Wrs : Cardinality(OwnersNow(w)) <= 1

(* As long as no producer was lapped, puts are serialised, no work request *)
(* disappears, the ring is full from __front for as many slots as there    *)
(* are permits and pending posts, __rear is right after them, and a getter *)
(* that has a permit finds no null pointer.                                *)
RingSound == ~lapped => /\ ClaimExclusive
                        /\ ~crashed
                        /\ \A w \in Wrs : OwnersNow(w) # {}
                        /\ \A i \in Slots : InRing(i) <=> flags[i] /\ ~(i = rear /\ Claimants # {})
                        /\ rear = Ahead(front, Stored, Rqnum)

(* The semaphore stays truthful whatever happens to the ring: permits and  *)
(* work requests out of the pool add up to all of them.  So the destructor *)
(* (mem_pool.hpp:477) frees the ring only when no put is using it, and the *)
(* process ends with MEM_POOL_CAPACITY_SCALE too small (566, 590) only     *)
(* when every work request is out or in a put not yet posted.              *)
PermitsAddUp ==
    /\ ~crashed => Stored + Cardinality(held) + Cardinality(Carriers)
                     + Cardinality({p \in Producers : pcP[p] = "publish"}) = Elenum
    /\ pcC = "freed" => held = {} /\ \A p \in Producers : pcP[p] = "idle"
    /\ exit = "too_small" =>
          Cardinality(held) + Cardinality({p \in Producers : pcP[p] # "idle"}) = Elenum

(* mem_pool.hpp:113, of __count: it counts the remaining work requests and *)
(* synchronises producers and consumer.  So a permit is a work request     *)
(* that can be got.                                                        *)
CountIsRemaining ==
    count <= Cardinality({i \in Slots : rq[i] # Nullptr})

(* At "flag" the oldest free work request is in the hands of a getter. *)
Content(i) == IF i = front /\ pcC = "flag" THEN temp ELSE rq[i]

FreeList == [k \in 1 .. Stored |-> Content(Ahead(front, k - 1, Rqnum))]

Fifo == INSTANCE FifoPool WITH free <- FreeList, out <- Out

(* Until a producer is lapped the pool is the FIFO pool: a get takes       *)
(* effect when it returns, a put when it publishes.                        *)
ImplementsFifo == Fifo!FifoInit /\ [][Fifo!FifoNext \/ lapped]_(Fifo!fifoVars)

(* A getter ends, by returning or by ending the process.                   *)
GetterReturns == pcC = "wait" ~> (pcC = "idle" \/ lapped \/ Halted)

=============================================================================
