------------------------------ MODULE FlagRing ------------------------------
(***************************************************************************)
(* The producers' half of the multi-producer pools: a circular array, one  *)
(* flag per slot, and put, which claims a slot by turning its flag from    *)
(* false to true.  wr_pool<T> and mpsc_sem_mem_pool contain the same code  *)
(* for different capacities; the consumer's half is in their modules.      *)
(*                                                                         *)
(* put evaluates __rear once to choose the flag and once more after the    *)
(* compare-exchange to choose the slot, so the two may differ.  Each       *)
(* action is one atomic access and the local code after it.                *)
(***************************************************************************)
EXTENDS RingArith, FiniteSets, Sequences

CONSTANTS Elenum,        \* __elenum: number of work requests
          Rqnum,         \* slots in the circular array
          Producers,     \* the threads that call put
          Nullptr        \* the null work-request pointer

Wrs == 0 .. Elenum - 1
Slots == 0 .. Rqnum - 1

ASSUME RingAssumption == /\ Elenum \in Nat \ {0}
                         /\ Rqnum \in Nat /\ Rqnum >= Elenum
                         /\ Nullptr \notin Wrs
                         /\ IsFiniteSet(Producers)

VARIABLES
    rear,           \* __rear
    rq, flags,      \* __rq / __ringqueue, and __rq_flags / __rq_flag
    pcP,            \* each producer: control state
    idx,            \* each producer: the value of __rear it has loaded
    elem,           \* each producer: e, the argument of put
    held,           \* work requests handed out and not yet given back
    lapped          \* history: has a claim ever hit a flag away from __rear?

putVars == <<rear, rq, flags, pcP, idx, elem, held, lapped>>

(* After the constructor: Elenum work requests in slots 0, 1, ... *)
RingInit == /\ rear = IF Elenum = Rqnum THEN 0 ELSE Elenum
            /\ rq = [i \in Slots |-> IF i < Elenum THEN i ELSE Nullptr]
            /\ flags = [i \in Slots |-> i < Elenum]
            /\ pcP = [p \in Producers |-> "idle"]
            /\ idx = [p \in Producers |-> 0]
            /\ elem = [p \in Producers |-> Nullptr]
            /\ held = {}
            /\ lapped = FALSE

Goto(p, l) == pcP' = [pcP EXCEPT ![p] = l]

(* __rear.load(): into idx. *)
LoadRear(p) == idx' = [idx EXCEPT ![p] = rear]

(* put(e) is called and loads __rear for its first attempt. *)
PutCall(p) == /\ pcP[p] = "idle"
              /\ \E e \in held : /\ elem' = [elem EXCEPT ![p] = e]
                                 /\ held' = held \ {e}
              /\ LoadRear(p)
              /\ Goto(p, "cas")
              /\ UNCHANGED <<rear, rq, flags, lapped>>

(* Mutant of PutBusy: the loop tries the same flag again, without loading  *)
(* __rear.                                                                 *)
PutBusyStuck(p) == /\ pcP[p] = "cas"
                   /\ flags[idx[p]]
                   /\ UNCHANGED putVars

(* The compare-exchange fails: the flag is true.  Go round again. *)
PutBusy(p) == /\ pcP[p] = "cas"
              /\ flags[idx[p]]
              /\ Goto(p, "again")
              /\ UNCHANGED <<rear, rq, flags, idx, elem, held, lapped>>

PutAgain(p) == /\ pcP[p] = "again"
               /\ LoadRear(p)
               /\ Goto(p, "cas")
               /\ UNCHANGED <<rear, rq, flags, elem, held, lapped>>

(* Mutant of PutClaim: an exchange instead of a compare-exchange. *)
PutClaimBlind(p) == /\ pcP[p] = "cas"
                    /\ flags' = [flags EXCEPT ![idx[p]] = TRUE]
                    /\ lapped' = (lapped \/ idx[p] # rear)
                    /\ Goto(p, "reload")
                    /\ UNCHANGED <<rear, rq, idx, elem, held>>

(* The compare-exchange succeeds.  Nothing in it compares idx with __rear: *)
(* a producer delayed for a full round of the ring claims an old slot.     *)
PutClaim(p) == /\ pcP[p] = "cas"
               /\ ~flags[idx[p]]
               /\ flags' = [flags EXCEPT ![idx[p]] = TRUE]
               /\ lapped' = (lapped \/ idx[p] # rear)
               /\ Goto(p, "reload")
               /\ UNCHANGED <<rear, rq, idx, elem, held>>

PutReload(p) == /\ pcP[p] = "reload"
                /\ LoadRear(p)
                /\ Goto(p, "store")
                /\ UNCHANGED <<rear, rq, flags, elem, held, lapped>>

(* Mutant of PutStore: __rq[++rear] for __rq[rear++]. *)
PutStoreNext(p) == /\ pcP[p] = "store"
                   /\ rq' = [rq EXCEPT ![Succ(idx[p], Rqnum)] = elem[p]]
                   /\ elem' = [elem EXCEPT ![p] = Nullptr]
                   /\ Goto(p, "publish")
                   /\ UNCHANGED <<rear, flags, idx, held, lapped>>

PutStore(p) == /\ pcP[p] = "store"
               /\ rq' = [rq EXCEPT ![idx[p]] = elem[p]]
               /\ elem' = [elem EXCEPT ![p] = Nullptr]
               /\ Goto(p, "publish")
               /\ UNCHANGED <<rear, flags, idx, held, lapped>>

(* __rear.store(); next is where put goes on. *)
PutPublish(p, next) == /\ pcP[p] = "publish"
                       /\ rear' = Succ(idx[p], Rqnum)
                       /\ Goto(p, next)
                       /\ UNCHANGED <<rq, flags, idx, elem, held, lapped>>

PutStep(p) == \/ PutBusy(p) \/ PutAgain(p) \/ PutClaim(p)
              \/ PutReload(p) \/ PutStore(p)
-----------------------------------------------------------------------------
RingTypeOK == /\ rear \in Slots
              /\ rq \in [Slots -> Wrs \union {Nullptr}]
              /\ flags \in [Slots -> BOOLEAN]
              /\ pcP \in [Producers -> {"idle", "cas", "again", "reload",
                                        "store", "publish", "post"}]
              /\ idx \in [Producers -> Slots]
              /\ elem \in [Producers -> Wrs \union {Nullptr}]
              /\ held \subseteq Wrs
              /\ lapped \in BOOLEAN

(* The producers between claiming a slot and publishing it. *)
Claimants == {p \in Producers : pcP[p] \in {"reload", "store", "publish"}}

(* The producers that carry a work request that is not in the ring yet. *)
Carriers == {p \in Producers : pcP[p] \in {"cas", "again", "reload", "store"}}

(* The work requests a caller has, or a put that has not published yet. *)
Out == held \union {elem[p] : p \in Carriers}
            \union {rq[rear] : p \in {p \in Producers : pcP[p] = "publish"}}

(* Everyone who may use work request w: the slots of S that store it, the  *)
(* producers that carry it, the callers that hold it, and get.             *)
Owners(w, S, inGet) ==
    {<<"slot", i>> : i \in {i \in S : rq[i] = w}}
    \union {<<"put", p>> : p \in {p \in Producers : elem[p] = w}}
    \union {<<"callers", w>> : h \in held \intersect {w}}
    \union {<<"get", w>> : t \in inGet \intersect {w}}

(* The flags serialise put: one producer at a time is between its claim    *)
(* and its publication, and it works on the slot at __rear.  True as long  *)
(* as no claim has hit a flag away from __rear.                            *)
ClaimExclusive ==
    ~lapped => /\ \A p, q \in Claimants : p = q
               /\ \A p \in Claimants : /\ flags[rear]
                                       /\ pcP[p] # "reload" => idx[p] = rear

(* A put whose compare-exchange fails goes round either because __rear has *)
(* moved since it was loaded, or behind a put that is going to move it: no *)
(* flag is left set that nobody will clear.                                *)
SpinsBehind == \A p \in Producers :
    pcP[p] = "cas" /\ flags[idx[p]] => idx[p] # rear \/ Claimants # {}
=============================================================================
