----------------------------- MODULE SemGetter -----------------------------
(***************************************************************************)
(* The waiting half of get, tryget and timeget of the semaphore pools of   *)
(* mem_pool.hpp, with the operations of rfts::posix_sem (sem.hpp) it uses. *)
(* What a getter does once it has a permit is in the module of each pool.  *)
(***************************************************************************)
EXTENDS Integers

CONSTANTS GetTryNum,     \* GET_TRY_NUM
          NsPerSec,      \* nanoseconds in a second (scaled down for TLC)
          GetWaitTime    \* GET_WAIT_TIME, in the same unit

ASSUME GetterAssumption == /\ GetTryNum \in Nat \ {0}
                           /\ NsPerSec \in Nat \ {0}
                           /\ GetWaitTime \in Nat

VARIABLES
    count,          \* value of the semaphore __count
    pcC, op,        \* consumer: control state, and the getter it is in
    tries,          \* i in tryget
    deadlineOk,     \* timeget: is timeout.tv_nsec a valid number of ns?
    exit            \* why the process has called exit, if it has

callVars == <<op, tries, deadlineOk>>

semVars == <<count, pcC, callVars, exit>>

(* After the constructor has posted n permits. *)
GetterInit(n) == /\ count = n
                 /\ pcC = "idle"
                 /\ op = "get" /\ tries = 0 /\ deadlineOk = TRUE
                 /\ exit = "no"

Call(o, ok) == /\ pcC = "idle"
               /\ pcC' = "wait" /\ op' = o /\ tries' = 0 /\ deadlineOk' = ok
               /\ UNCHANGED <<count, exit>>

CallGet == Call("get", TRUE)

CallTryget == Call("tryget", TRUE)

(* timeout = now; timeout.tv_nsec += GET_WAIT_TIME, with no carry into     *)
(* tv_sec.                                                                 *)
CallTimeget == \E nsec \in 0 .. NsPerSec - 1 :
                  Call("timeget", nsec + GetWaitTime < NsPerSec)

(* Mutant of SemTaken: the result of the wait is tested the wrong way, so a *)
(* permit sends the getter round again.                                    *)
SemTakenInverted == /\ pcC = "wait"
                    /\ count > 0
                    /\ UNCHANGED semVars

(* sem_wait, sem_trywait or sem_timedwait takes a permit. *)
SemTaken == /\ pcC = "wait"
            /\ count > 0
            /\ count' = count - 1
            /\ pcC' = "take"
            /\ UNCHANGED <<callVars, exit>>

(* Mutant of TrywaitAgain: any failure of a try is taken for EAGAIN. *)
TrywaitImpatient == /\ pcC = "wait" /\ op = "tryget"
                    /\ tries' = tries + 1
                    /\ exit' = IF tries + 1 >= GetTryNum THEN "too_small" ELSE exit
                    /\ UNCHANGED <<count, pcC, op, deadlineOk>>

(* tryget: trywait says EAGAIN; after GET_TRY_NUM of them the process ends. *)
TrywaitAgain == /\ pcC = "wait" /\ op = "tryget"
                /\ count = 0
                /\ tries' = tries + 1
                /\ exit' = IF tries + 1 >= GetTryNum THEN "too_small" ELSE exit
                /\ UNCHANGED <<count, pcC, op, deadlineOk>>

(* timeget: sem_timedwait gives up and the process ends. *)
TimedwaitExpires == /\ pcC = "wait" /\ op = "timeget"
                    /\ deadlineOk
                    /\ count = 0
                    /\ exit' = "too_small"
                    /\ UNCHANGED <<count, pcC, callVars>>

(* timeget: sem_timedwait rejects tv_nsec; posix_sem::timewait exits.      *)
(* POSIX leaves open whether it does so when a permit is available.        *)
TimedwaitInvalid == /\ pcC = "wait" /\ op = "timeget"
                    /\ ~deadlineOk
                    /\ exit' = "einval"
                    /\ UNCHANGED <<count, pcC, callVars>>

(* sem_wait, sem_trywait or sem_timedwait fails for another reason, as when *)
(* a signal interrupts it: posix_sem ends the process, permit or not.      *)
SemFails == /\ pcC = "wait"
            /\ exit' = "failed"
            /\ UNCHANGED <<count, pcC, callVars>>

CallStep == CallGet \/ CallTryget \/ CallTimeget

WaitStep == SemTaken \/ TrywaitAgain \/ TimedwaitExpires \/ TimedwaitInvalid \/ SemFails

(* The getter has its work request and returns. *)
Return == /\ pcC' = "idle"
          /\ UNCHANGED <<count, callVars, exit>>

Post == /\ count' = count + 1
        /\ UNCHANGED <<pcC, callVars, exit>>

(* The destructor of a pool, run by the consumer's side once it gets no    *)
(* more: it spins until the semaphore shows that all n work requests are   *)
(* back, then frees the arrays.                                            *)
Destroy == /\ pcC = "idle"
           /\ pcC' = "dtor"
           /\ UNCHANGED <<count, callVars, exit>>

(* Mutant of Free: the destructor does not wait. *)
FreeAtOnce(n) == /\ pcC = "dtor"
                 /\ pcC' = "freed"
                 /\ UNCHANGED <<count, callVars, exit>>

Free(n) == /\ pcC = "dtor"
           /\ count = n
           /\ pcC' = "freed"
           /\ UNCHANGED <<count, callVars, exit>>

(* exit() ends all threads; after the destructor nobody uses the pool. *)
Stopped == exit # "no" \/ pcC = "freed"

(* An action A of a thread that keeps running until the process exits. *)
Running(A) == exit = "no" /\ A

(* Permits: free work requests the consumer may still read, the one it has *)
(* a permit for included.                                                  *)
Permits == IF pcC \in {"take", "clear", "flag"} THEN count + 1 ELSE count

GetterTypeOK(n) ==
    /\ count \in 0 .. n
    /\ pcC \in {"idle", "wait", "take", "clear", "flag", "dtor", "freed"}
    /\ op \in {"get", "tryget", "timeget"}
    /\ tries \in 0 .. GetTryNum
    /\ deadlineOk \in BOOLEAN
    /\ exit \in {"no", "too_small", "einval", "failed"}
=============================================================================
