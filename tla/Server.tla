------------------------------- MODULE Server -------------------------------
(***************************************************************************)
(* The server: the receive thread (commu::__send_or_recv), the workers     *)
(* (datahandle) and the objects they share.  The wr_pool and the queues    *)
(* are the abstract FifoPool and FifoQueue; Contracts says that they are   *)
(* used as those specifications demand.                                    *)
(*                                                                         *)
(* Not in the source, hence external: the NIC, whoever turns a completion  *)
(* into an element of the queue of unhandled work requests and a post on   *)
(* __sem (commu::__comp is empty), and the program that owns the objects.  *)
(* What follows a get from an empty pool is in WrPool; here it is an exit. *)
(***************************************************************************)
EXTENDS Naturals, Sequences, FiniteSets

CONSTANTS Elenum,        \* number of work requests; also __rqnum of the queues
          MaxWorkers,    \* the largest __th_num
          MaxQpWr,       \* max_qp_wr of the device
          QpCapacity,    \* cap.max_recv_wr of the QP
          None

Wrs == 0 .. Elenum - 1
Workers == 0 .. MaxWorkers - 1

ASSUME ServerAssumption == /\ Elenum \in Nat \ {0} /\ MaxWorkers \in Nat \ {0}
                           /\ MaxQpWr \in Nat /\ QpCapacity \in Nat
                           /\ None \notin Wrs

VARIABLES
    free,               \* wr_pool
    recving, nohand,    \* nosend_or_recving and sending_or_nohand of queues
    posted,             \* the QP's receive queue
    owed, sem,          \* completions not yet posted on __sem; __sem
    pre, done,          \* pre_recv_wr; i
    pcR, phase, hand,   \* the receive thread, the loop it is in, recv_wr
    start,              \* rfts::start
    thnum, pcW, elem,   \* __th_num; the workers, and their recv_wr
    joined, pcD,        \* ~datahandle: threads joined; control state
    pcPool,             \* ~wr_pool
    exit                \* why the process ended, if it has

qpVars == <<posted, owed, sem>>
recvVars == <<pre, done, pcR, phase, hand>>
workVars == <<thnum, pcW, elem>>
stopVars == <<start, joined, pcD, pcPool>>
vars == <<free, recving, nohand, qpVars, recvVars, workVars, stopVars, exit>>

Clamp(k) == IF k > MaxQpWr THEN MaxQpWr ELSE k

(* pre_recv_wr is ceil(__rqnum * pre_rr_scale) for a scale in 0 .. 1. *)
Init == /\ free = [k \in 1 .. Elenum |-> k - 1]
        /\ recving = <<>> /\ nohand = <<>>
        /\ posted = <<>> /\ owed = 0 /\ sem = 0
        /\ pre \in {Clamp(k) : k \in 0 .. Elenum} /\ done = 0
        /\ pcR = "next" /\ phase = "pre" /\ hand = None
        /\ start = TRUE
        /\ thnum \in 1 .. MaxWorkers
        /\ pcW = [w \in Workers |-> IF w < thnum THEN "check" ELSE "none"]
        /\ elem = [w \in Workers |-> None]
        /\ joined = {} /\ pcD = "no" /\ pcPool = "no"
        /\ exit = "no"
-----------------------------------------------------------------------------
(* The receive thread. *)
Receive(from, to) == /\ pcR = from /\ pcR' = to
                     /\ UNCHANGED <<nohand, owed, pre, workVars, stopVars, exit>>

Die(why) == /\ exit' = why
            /\ UNCHANGED <<free, recving, nohand, qpVars, recvVars, workVars, stopVars>>

PreNext == /\ phase = "pre"
           /\ IF done < pre THEN Receive("next", "get") /\ done' = done + 1 /\ phase' = phase
                            ELSE Receive("next", "next") /\ done' = done /\ phase' = "loop"
           /\ UNCHANGED <<free, recving, posted, sem, hand>>

(* Mutant of LoopNext: the wait on __sem is forgotten. *)
LoopNoWait == /\ phase = "loop"
              /\ Receive("next", IF start THEN "get" ELSE "wait")
              /\ phase' = IF start THEN "loop" ELSE "drain"
              /\ UNCHANGED <<free, recving, posted, sem, done, hand>>

LoopNext == /\ phase = "loop"
            /\ Receive("next", "wait")
            /\ phase' = IF start THEN "loop" ELSE "drain"
            /\ UNCHANGED <<free, recving, posted, sem, done, hand>>

DrainNext == /\ phase = "drain"
             /\ Receive("next", "wait")
             /\ UNCHANGED <<free, recving, posted, sem, done, phase, hand>>

(* __sem.wait() or __sem.timewait() returns with a permit. *)
SemTaken == /\ Receive("wait", "get")
            /\ sem > 0 /\ sem' = sem - 1
            /\ UNCHANGED <<free, recving, posted, done, phase, hand>>

DrainExpires == /\ phase = "drain" /\ sem = 0
                /\ Receive("wait", "done")
                /\ UNCHANGED <<free, recving, posted, sem, done, phase, hand>>

(* tv_nsec + sys_lat * 2000 may be a second or more: EINVAL. *)
DrainInvalid == phase = "drain" /\ pcR = "wait" /\ Die("einval")

GetWr == /\ Receive("get", "post")
         /\ free # <<>>
         /\ hand' = Head(free) /\ free' = Tail(free)
         /\ UNCHANGED <<recving, posted, sem, done, phase>>

GetOverrun == pcR = "get" /\ free = <<>> /\ Die("overrun")

PostRecv == /\ Receive("post", "put")
            /\ Len(posted) < QpCapacity
            /\ posted' = Append(posted, hand)
            /\ UNCHANGED <<free, recving, sem, done, phase, hand>>

PostFails == pcR = "post" /\ Len(posted) >= QpCapacity /\ Die("post")

(* Mutant of PutRecving: a failed claim puts the element in front. *)
PutRecvingFront == /\ Receive("put", "next")
                   /\ recving' = <<hand>> \o recving /\ hand' = None
                   /\ UNCHANGED <<free, posted, sem, done, phase>>

PutRecving == /\ Receive("put", "next")
              /\ recving' = Append(recving, hand) /\ hand' = None
              /\ UNCHANGED <<free, posted, sem, done, phase>>

Receiver == \/ PreNext \/ LoopNext \/ DrainNext \/ SemTaken \/ DrainExpires \/ DrainInvalid
            \/ GetWr \/ GetOverrun \/ PostRecv \/ PostFails \/ PutRecving
-----------------------------------------------------------------------------
(* A message fills the oldest buffer of the QP and completes, in the order *)
(* of the posts.  queue::get waits for the receive thread's put when the   *)
(* message was faster.                                                     *)
Complete == /\ posted # <<>> /\ recving # <<>>
            /\ posted' = Tail(posted) /\ owed' = owed + 1
            /\ nohand' = Append(nohand, Head(recving)) /\ recving' = Tail(recving)
            /\ UNCHANGED <<free, sem, recvVars, workVars, stopVars, exit>>

Signal == /\ owed > 0
          /\ owed' = owed - 1 /\ sem' = sem + 1
          /\ UNCHANGED <<free, recving, nohand, posted, recvVars, workVars, stopVars, exit>>

Environment == Complete \/ Signal
-----------------------------------------------------------------------------
(* The workers. *)
Work(w, from, to) == /\ pcW[w] = from /\ pcW' = [pcW EXCEPT ![w] = to]
                     /\ UNCHANGED <<recving, qpVars, recvVars, thnum, stopVars, exit>>

(* Mutant of LoadStart: start is tested the wrong way round. *)
LoadStartInverted(w) == /\ Work(w, "check", IF start THEN "count" ELSE "get")
                        /\ UNCHANGED <<free, nohand, elem>>

LoadStart(w) == /\ Work(w, "check", IF start THEN "get" ELSE "count")
                /\ UNCHANGED <<free, nohand, elem>>

(* get_rq_elenum() is not zero: continue, without taking anything. *)
Busy(w) == /\ nohand # <<>>
           /\ Work(w, "count", "check") \/ Work(w, "recount", "check")
           /\ UNCHANGED <<free, nohand, elem>>

(* Mutant of Quiet: continue instead of break. *)
QuietStays(w) == /\ nohand = <<>>
                 /\ Work(w, "count", "recount") \/ Work(w, "recount", "check")
                 /\ UNCHANGED <<free, nohand, elem>>

(* It is zero: sleep for sys_lat, look again, and end. *)
Quiet(w) == /\ nohand = <<>>
            /\ Work(w, "count", "recount") \/ Work(w, "recount", "ended")
            /\ UNCHANGED <<free, nohand, elem>>

Take(w) == /\ nohand # <<>>
           /\ Work(w, "get", "put")
           /\ elem' = [elem EXCEPT ![w] = Head(nohand)] /\ nohand' = Tail(nohand)
           /\ UNCHANGED free

(* Mutant of GiveBack: the work request taken last is used first. *)
GiveBackFront(w) == /\ Work(w, "put", "check")
                    /\ free' = <<elem[w]>> \o free
                    /\ elem' = [elem EXCEPT ![w] = None]
                    /\ UNCHANGED nohand

GiveBack(w) == /\ Work(w, "put", "check")
               /\ free' = Append(free, elem[w])
               /\ elem' = [elem EXCEPT ![w] = None]
               /\ UNCHANGED nohand

Worker(w) == LoadStart(w) \/ Busy(w) \/ Quiet(w) \/ Take(w) \/ GiveBack(w)
-----------------------------------------------------------------------------
(* The program that owns all this clears start, then destroys it.          *)
Quit == UNCHANGED <<free, recving, nohand, qpVars, recvVars, workVars>>

Stop == start' = FALSE /\ Quit /\ UNCHANGED <<joined, pcD, pcPool, exit>>

BeginJoin == /\ pcD = "no" /\ ~start
             /\ pcD' = "join" /\ Quit /\ UNCHANGED <<start, joined, pcPool, exit>>

(* The loop joins a thread only while thread 0 is joinable: thread 0.      *)
Join == /\ pcD = "join" /\ joined = {} /\ pcW[0] = "ended"
        /\ joined' = {0} /\ Quit /\ UNCHANGED <<start, pcD, pcPool, exit>>

(* delete [] __threads: a thread that was not joined ends the process.     *)
DeleteThreads == /\ pcD = "join" /\ joined # {}
                 /\ IF \A w \in Workers : w < thnum => w \in joined
                       THEN pcD' = "freed" /\ exit' = exit
                       ELSE pcD' = pcD /\ exit' = "terminate"
                 /\ Quit /\ UNCHANGED <<start, joined, pcPool>>

(* Mutant of FreePool: one work request too few. *)
FreePoolEarly == /\ pcD = "freed" /\ pcR = "done" /\ pcPool = "no"
                 /\ Len(free) >= Elenum - 1
                 /\ pcPool' = "freed" /\ Quit /\ UNCHANGED <<start, joined, pcD, exit>>

(* ~wr_pool, when the threads are gone, spins until the pool is full.      *)
FreePool == /\ pcD = "freed" /\ pcR = "done" /\ pcPool = "no"
            /\ Len(free) = Elenum
            /\ pcPool' = "freed" /\ Quit /\ UNCHANGED <<start, joined, pcD, exit>>

Shutdown == Stop \/ BeginJoin \/ Join \/ DeleteThreads \/ FreePool
-----------------------------------------------------------------------------
Alive == exit = "no" /\ pcPool = "no"

(* The last disjunct: the process has ended, or what is left of a stopped  *)
(* server waits or spins for ever.                                         *)
Next == \/ Alive /\ (Receiver \/ Environment \/ Shutdown \/ \E w \in Workers : Worker(w))
        \/ (~Alive \/ ~start) /\ UNCHANGED vars

Spec == Init /\ [][Next]_vars

(* Threads run.  Nothing makes messages arrive or the program stop. *)
Fairness == /\ WF_vars(Alive /\ Receiver)
            /\ \A w \in Workers : WF_vars(Alive /\ Worker(w))

FairSpec == Spec /\ Fairness
-----------------------------------------------------------------------------
Elements(s) == {s[k] : k \in DOMAIN s}
Working == {w \in Workers : elem[w] # None}

(* Every work request is in exactly one place: the pool, the receive       *)
(* thread, the QP, the queue of unhandled ones, or a worker.  And although *)
(* the receive thread posts to the QP before it puts into the queue, the   *)
(* element that a completion takes from the queue is the one that was      *)
(* filled (commu.cpp:285-306).                                             *)
OnePlace ==
    LET inHand == IF pcR = "post" THEN <<hand>> ELSE <<>>
        late == IF pcR = "put" THEN <<hand>> ELSE <<>>
        all == free \o inHand \o posted \o nohand
    IN  /\ Len(all) + Cardinality(Working) = Elenum
        /\ Elements(all) \union {elem[w] : w \in Working} = Wrs
        /\ posted = recving \o late

(* The receive thread is at a place where it owes the QP a post. *)
InTurn == IF pcR \in {"get", "post"} THEN 1 ELSE 0

(* Each completion is answered by one post, so the receives outstanding    *)
(* and those still to be posted stay at pre_recv_wr.  Hence the pool runs  *)
(* empty (commu.cpp:293) only if more than its other work requests wait    *)
(* for the workers, and a post fails (294) only if pre_recv_wr, which was  *)
(* cut to the device's limit (281), is beyond the QP's own (115).          *)
Outstanding ==
    /\ Len(posted) + owed + sem + InTurn = done
    /\ phase # "pre" => done = pre
    /\ exit = "overrun" => Len(nohand) + Cardinality(Working) > Elenum - pre
    /\ exit = "post" => pre > QpCapacity

(* ~datahandle (handle_data.hpp:62-72) returns only if it had one worker,  *)
(* and with more ends the process; ~wr_pool never frees a buffer that the  *)
(* QP may still write to or a queue refers to.                             *)
CleanShutdown ==
    /\ pcD = "freed" => thnum = 1 /\ pcW[0] = "ended"
    /\ exit = "terminate" => thnum > 1 /\ pcW[0] = "ended"
    /\ pcPool = "freed" => posted = <<>> /\ recving = <<>> /\ nohand = <<>> /\ Working = {}

Pool == INSTANCE FifoPool WITH out <- Wrs \ Elements(free)

Unhandled == INSTANCE FifoQueue WITH Elems <- Wrs, items <- nohand,
                                     busy <- {elem[w] : w \in Working}

(* An element leaves the hands of the queue's user when it is in the pool. *)
Recving == INSTANCE FifoQueue WITH
               Elems <- Wrs, items <- recving,
               busy <- Elements(nohand) \union {elem[w] : w \in Working}

(* Together the threads use the pool and the queues as their contracts     *)
(* require: only work requests that are out are put into the pool, only    *)
(* elements that are nowhere else into a queue, and what they see is FIFO. *)
Contracts == /\ Pool!FifoInit /\ [][Pool!FifoNext]_<<free>>
             /\ Unhandled!QueueInit /\ [][Unhandled!QueueNext]_<<nohand, elem>>
             /\ Recving!QueueInit /\ [][Recving!QueueNext]_<<recving, Recving!queueVars>>

(* While the server runs, what is received is handled and comes back to    *)
(* the pool (handle_data.hpp:78-94).                                       *)
Handled == \A e \in Wrs : (e \in Elements(nohand))
               ~> (e \in Elements(free) \/ ~start \/ ~Alive)

(* After start is cleared a worker outside get ends, or else spins because *)
(* something is left in the queue (handle_data.hpp:97-107); and a receive  *)
(* thread that has noticed drains __sem and ends (commu.cpp:301).          *)
ThreadsEnd ==
    /\ \A w \in Workers : (~start /\ pcW[w] \in {"check", "count", "recount", "put"})
                              ~> (pcW[w] = "ended" \/ nohand # <<>> \/ ~Alive)
    /\ (phase = "drain") ~> (pcR = "done" \/ ~Alive)
=============================================================================
