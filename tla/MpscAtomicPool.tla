--------------------------- MODULE MpscAtomicPool ---------------------------
(***************************************************************************)
(* rfts::mpsc_atomic_mem_pool (mem_pool.hpp): the pool of receive work     *)
(* requests with flags and without a semaphore.  Its indices run over      *)
(* __rqnum = __elenum + 1 slots, its arrays are allocated with __elenum.   *)
(* What an access beyond them does is undefined: the model stops there.    *)
(***************************************************************************)
EXTENDS FlagRing, AtomicGetter

VARIABLE temp       \* the pointer a getter has read

vars == <<putVars, getterVars, temp>>

(* __ringqueue(new ...[__elenum]()), __rq_flag(new ...[__elenum]()) *)
Allocated == 0 .. Elenum - 1

Init == /\ RingInit
        /\ GetterInit
        /\ temp = Nullptr
-----------------------------------------------------------------------------
BeginGet == /\ \E o \in {"get", "tryget", "timeget"} : Call(o, rear)
            /\ UNCHANGED <<putVars, temp>>

(* get and timeget poll __rear.  The loop of tryget has an empty body: it  *)
(* compares the first value GET_TRY_NUM times.                             *)
AwaitWr == /\ \/ op # "tryget" /\ (Poll(rear) \/ Expire)
              \/ op = "tryget" /\ Poll(seen)
              \/ GiveUp
              \/ Found
           /\ UNCHANGED <<putVars, temp>>

GetRead == /\ Step("take", "clear")
           /\ temp' = rq[front]
           /\ UNCHANGED <<front, putVars>>

GetClear == /\ Step("clear", "flag")
            /\ rq' = [rq EXCEPT ![front] = Nullptr]
            /\ UNCHANGED <<front, rear, flags, pcP, idx, elem, held, lapped, temp>>

GetFlag == /\ Step("flag", "advance")
           /\ flags' = [flags EXCEPT ![front] = FALSE]
           /\ UNCHANGED <<front, rear, rq, pcP, idx, elem, held, lapped, temp>>

GetReturn == /\ Step("advance", "idle")
             /\ front' = Succ(front, Rqnum)
             /\ held' = held \union ({temp} \ {Nullptr})
             /\ temp' = Nullptr
             /\ UNCHANGED <<rear, rq, flags, pcP, idx, elem, lapped>>

BeginDestroy == Destroy /\ UNCHANGED <<putVars, temp>>

FreeArrays == /\ Free(Dist(front, rear, Rqnum) = Elenum)
              /\ UNCHANGED <<putVars, temp>>

Put(p) == /\ PutCall(p) \/ PutStep(p) \/ PutPublish(p, "idle")
          /\ UNCHANGED <<getterVars, temp>>
-----------------------------------------------------------------------------
(* mem_pool.hpp:146 calls __rqnum the number of elements of the queue: so  *)
(* every index below it that a thread uses is a slot of the arrays.        *)
IndicesInArrays ==
    /\ pcC \in {"take", "clear", "flag"} => front \in Allocated
    /\ \A p \in Producers : pcP[p] \in {"cas", "store"} => idx[p] \in Allocated

Next == \/ /\ exit = "no" /\ pcC # "freed" /\ IndicesInArrays
           /\ \/ BeginGet \/ AwaitWr \/ GetRead \/ GetClear \/ GetFlag \/ GetReturn
              \/ BeginDestroy \/ FreeArrays
              \/ \E p \in Producers : Put(p)
        \/ (Stopped \/ ~IndicesInArrays) /\ UNCHANGED vars

Spec == Init /\ [][Next]_vars
=============================================================================
