---------------------------- MODULE AtomicGetter ----------------------------
(***************************************************************************)
(* The waiting half of get, tryget and timeget of the pools of             *)
(* mem_pool.hpp that use no semaphore: they compare their own __front with *)
(* the __rear they have last loaded, until the two differ.                 *)
(* r stands for the value __rear has now.                                  *)
(***************************************************************************)
EXTENDS Integers

CONSTANT GetTryNum       \* GET_TRY_NUM

ASSUME TryAssumption == GetTryNum \in Nat \ {0}

VARIABLES
    front,          \* __front
    pcC, op,        \* consumer: control state, and the getter it is in
    seen,           \* the value of __rear it has loaded
    tries,          \* i in tryget
    exit            \* why the process has called exit, if it has

getterVars == <<front, pcC, op, seen, tries, exit>>

GetterInit == /\ front = 0
              /\ pcC = "idle" /\ op = "get"
              /\ seen = 0 /\ tries = 0
              /\ exit = "no"

Call(o, r) == /\ pcC = "idle"
              /\ pcC' = "wait" /\ op' = o /\ seen' = r /\ tries' = 0
              /\ UNCHANGED <<front, exit>>

(* Mutant of Poll: __rear is not loaded again. *)
PollStale(r) == /\ pcC = "wait" /\ seen = front
                /\ op = "tryget" => tries < GetTryNum
                /\ tries' = IF op = "tryget" THEN tries + 1 ELSE tries
                /\ UNCHANGED <<front, pcC, op, seen, exit>>

(* The pool looked empty: load __rear again. *)
Poll(r) == /\ pcC = "wait" /\ seen = front
           /\ op = "tryget" => tries < GetTryNum
           /\ tries' = IF op = "tryget" THEN tries + 1 ELSE tries
           /\ seen' = r
           /\ UNCHANGED <<front, pcC, op, exit>>

(* tryget gives up after GET_TRY_NUM loads, whatever the last one said. *)
GiveUp == /\ pcC = "wait" /\ op = "tryget"
          /\ tries >= GetTryNum
          /\ exit' = "too_small"
          /\ UNCHANGED <<front, pcC, op, seen, tries>>

(* timeget: the pool looked empty and the clock says it is too late. *)
Expire == /\ pcC = "wait" /\ op = "timeget"
          /\ seen = front
          /\ exit' = "too_small"
          /\ UNCHANGED <<front, pcC, op, seen, tries>>

(* Mutant of Found: the test for an empty pool is missing. *)
FoundAlways == /\ pcC = "wait"
               /\ op = "tryget" => tries < GetTryNum
               /\ pcC' = "take"
               /\ UNCHANGED <<front, op, seen, tries, exit>>

Found == /\ pcC = "wait" /\ seen # front
         /\ op = "tryget" => tries < GetTryNum
         /\ pcC' = "take"
         /\ UNCHANGED <<front, op, seen, tries, exit>>

(* The destructor of a pool, by the consumer's side, spins until the       *)
(* indices show that all work requests are back, then frees the arrays.    *)
Destroy == /\ pcC = "idle"
           /\ pcC' = "dtor"
           /\ UNCHANGED <<front, op, seen, tries, exit>>

Free(allBack) == /\ pcC = "dtor"
                 /\ allBack
                 /\ pcC' = "freed"
                 /\ UNCHANGED <<front, op, seen, tries, exit>>

(* One of the steps of a getter that has the work request. *)
Step(from, to) == /\ pcC = from
                  /\ pcC' = to
                  /\ UNCHANGED <<op, seen, tries, exit>>

Stopped == exit # "no" \/ pcC = "freed"

Running(A) == exit = "no" /\ A

GetterTypeOK(slots) ==
    /\ front \in slots /\ seen \in slots
    /\ pcC \in {"idle", "wait", "take", "clear", "flag", "advance", "dtor", "freed"}
    /\ op \in {"get", "tryget", "timeget"}
    /\ tries \in 0 .. GetTryNum
    /\ exit \in {"no", "too_small"}
=============================================================================
