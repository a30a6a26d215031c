--------------------------- MODULE SpscAtomicPool ---------------------------
(***************************************************************************)
(* rfts::spsc_atomic_mem_pool (mem_pool.hpp): the pool of send work        *)
(* requests without a semaphore.  One thread gets, one thread puts, and    *)
(* each learns of the other through __front and __rear alone.              *)
(***************************************************************************)
EXTENDS RingArith, AtomicGetter, FiniteSets, Sequences

CONSTANTS Elenum,        \* __elenum: number of work requests
          Nullptr        \* the null work-request pointer

Wrs == 0 .. Elenum - 1
Rqnum == Elenum + 1                \* __rqnum
Slots == 0 .. Rqnum - 1

ASSUME PoolAssumption == /\ Elenum \in Nat \ {0}
                         /\ Nullptr \notin Wrs

VARIABLES
    rear,           \* __rear
    ringqueue,      \* __ringqueue
    temp,           \* the pointer a getter has read
    pcP,            \* producer: control state
    held            \* work requests handed out and not yet given back

ringVars == <<rear, ringqueue, temp, pcP, held>>

vars == <<ringVars, getterVars>>

Init == /\ GetterInit
        /\ rear = Elenum
        /\ ringqueue = [i \in Slots |-> IF i < Elenum THEN i ELSE Nullptr]
        /\ temp = Nullptr
        /\ pcP = "idle"
        /\ held = {}
-----------------------------------------------------------------------------
BeginGet == /\ \E o \in {"get", "tryget", "timeget"} : Call(o, rear)
            /\ UNCHANGED ringVars

AwaitWr == (Poll(rear) \/ GiveUp \/ Expire \/ Found) /\ UNCHANGED ringVars

GetRead == /\ Step("take", "clear")
           /\ temp' = ringqueue[front]
           /\ UNCHANGED <<front, rear, ringqueue, pcP, held>>

GetClear == /\ Step("clear", "advance")
            /\ ringqueue' = [ringqueue EXCEPT ![front] = Nullptr]
            /\ UNCHANGED <<front, rear, temp, pcP, held>>

(* __front.store() and return. *)
GetReturn == /\ Step("advance", "idle")
             /\ front' = Succ(front, Rqnum)
             /\ held' = held \union {temp}
             /\ temp' = Nullptr
             /\ UNCHANGED <<rear, ringqueue, pcP>>

BeginDestroy == Destroy /\ UNCHANGED ringVars

FreeArrays == Free(Dist(front, rear, Rqnum) = Elenum) /\ UNCHANGED ringVars

(* Mutant of PutStore: __ringqueue[++rear] for __ringqueue[rear++]. *)
PutStoreNext == /\ pcP = "idle"
                /\ \E e \in held :
                     /\ ringqueue' = [ringqueue EXCEPT ![Succ(rear, Rqnum)] = e]
                     /\ held' = held \ {e}
                /\ pcP' = "publish"
                /\ UNCHANGED <<rear, temp, getterVars>>

(* put(e): the slot, then __rear.store(). *)
PutStore == /\ pcP = "idle"
            /\ \E e \in held : /\ ringqueue' = [ringqueue EXCEPT ![rear] = e]
                               /\ held' = held \ {e}
            /\ pcP' = "publish"
            /\ UNCHANGED <<rear, temp, getterVars>>

PutPublish == /\ pcP = "publish"
              /\ rear' = Succ(rear, Rqnum)
              /\ pcP' = "idle"
              /\ UNCHANGED <<ringqueue, temp, held, getterVars>>
-----------------------------------------------------------------------------
Getter == AwaitWr \/ GetRead \/ GetClear \/ GetReturn

Next == \/ Running(BeginGet \/ Getter \/ BeginDestroy \/ FreeArrays
                   \/ PutStore \/ PutPublish)
        \/ Stopped /\ UNCHANGED vars

Spec == Init /\ [][Next]_vars

(* Both threads keep running, and callers give back what they took. *)
Fairness == /\ WF_vars(Running(Getter))
            /\ WF_vars(Running(FreeArrays))
            /\ WF_vars(Running(PutStore))
            /\ WF_vars(Running(PutPublish))

FairSpec == Spec /\ Fairness
-----------------------------------------------------------------------------
TypeOK == /\ GetterTypeOK(Slots)
          /\ rear \in Slots
          /\ ringqueue \in [Slots -> Wrs \union {Nullptr}]
          /\ temp \in Wrs \union {Nullptr}
          /\ pcP \in {"idle", "publish"}
          /\ held \subseteq Wrs

Size == Dist(front, rear, Rqnum)

InRing(i) == Dist(front, i, Rqnum) < Size

(* The oldest free work request is in temp once get has cleared its slot. *)
Content(i) == IF pcC = "advance" /\ i = front THEN temp ELSE ringqueue[i]

(* The two indices and the callers agree, one slot always stays empty, and *)
(* so put never stores where a getter reads (mem_pool.hpp:778-853).  When  *)
(* the destructor (712-720) frees the ring, all is back and put is done.   *)
Accounting ==
    /\ Size + Cardinality(held) + (IF pcP = "publish" THEN 1 ELSE 0) = Elenum
    /\ pcC \in {"take", "clear", "advance"} => front # rear
    /\ pcC = "freed" => held = {} /\ pcP = "idle"

(* Every work request is either once in the ring, or with a caller, or in  *)
(* the slot that put has stored and not yet published: none is handed out  *)
(* twice and none is lost.  A getter that believes there is something to   *)
(* get is right, however old its copy of __rear is.                        *)
EachOnce ==
    /\ \A w \in Wrs :
          Cardinality({i \in Slots : Content(i) = w
                                      /\ (InRing(i) \/ (pcP = "publish" /\ i = rear))})
          = IF w \in held THEN 0 ELSE 1
    /\ pcC \in {"take", "clear", "advance"} => Content(front) \in Wrs

FreeList == [k \in 1 .. Size |-> Content(Ahead(front, k - 1, Rqnum))]

Out == held \union (IF pcP = "publish" THEN {ringqueue[rear]} ELSE {})

Fifo == INSTANCE FifoPool WITH free <- FreeList, out <- Out

(* The pool is the FIFO pool: a get takes effect when it stores __front, a *)
(* put when it stores __rear.                                              *)
ImplementsFifo == Fifo!FifoSpec

(* A getter ends, by returning or by ending the process; so does the       *)
(* destructor.                                                             *)
CallsReturn == /\ pcC = "wait" ~> (pcC = "idle" \/ exit # "no")
               /\ pcC = "dtor" ~> (pcC = "freed" \/ exit # "no")
=============================================================================
