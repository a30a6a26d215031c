------------------------- MODULE SpscSemPoolProofs --------------------------
(***************************************************************************)
(* Safety of spsc_sem_mem_pool, and that it implements the FIFO pool: for  *)
(* every capacity, every GET_TRY_NUM and GET_WAIT_TIME.                    *)
(***************************************************************************)
EXTENDS SpscSemPool, RingArithProofs, FiniteSetTheorems, TLAPS

(* The semaphore, the indices and the callers' holdings agree.             *)
Balance == /\ Stored + Cardinality(held) = Elenum
           /\ rear = Ahead(front, Stored, Elenum)

(* What is in the ring: work requests nobody holds, each in one slot.      *)
RingContents ==
    /\ \A i \in Slots : InRing(i) => ringqueue[i] \in Wrs \ held
    /\ \A i, j \in Slots :
          InRing(i) /\ InRing(j) /\ ringqueue[i] = ringqueue[j] => i = j

(* What the threads know locally. *)
ControlFacts ==
    /\ pcC = "clear" => temp = ringqueue[front]
    /\ pcC = "freed" => count = Elenum
    /\ exit = "too_small" => count = 0 /\ pcC = "wait"
    /\ exit = "no" => tries < GetTryNum

IInv == TypeOK /\ Balance /\ RingContents /\ NoneLost /\ ControlFacts
-----------------------------------------------------------------------------
(* The callers' holdings are a finite set, and change by one at a time. *)
LEMMA WrsFinite == IsFiniteSet(Wrs) /\ Cardinality(Wrs) = Elenum
BY PoolAssumption, FS_Interval DEF Wrs

LEMMA HeldFinite == ASSUME NEW S \in SUBSET Wrs
                    PROVE  /\ IsFiniteSet(S)
                           /\ Cardinality(S) \in Nat
                           /\ \A w \in Wrs \ S : Cardinality(S \union {w}) = Cardinality(S) + 1
                           /\ \A w \in S : Cardinality(S \ {w}) = Cardinality(S) - 1
<1>1. IsFiniteSet(S) /\ Cardinality(S) \in Nat
  BY WrsFinite, FS_Subset, FS_CardinalityType
<1>2. ASSUME NEW w \in Wrs \ S PROVE Cardinality(S \union {w}) = Cardinality(S) + 1
  BY <1>1, FS_AddElement
<1>3. ASSUME NEW w \in S PROVE Cardinality(S \ {w}) = Cardinality(S) - 1
  BY <1>1, FS_RemoveElement
<1> QED BY <1>1, <1>2, <1>3

LEMMA InitIInv == Init => IInv
<1> SUFFICES ASSUME Init PROVE IInv
  OBVIOUS
<1> USE PoolAssumption, GetterAssumption DEF PoolAssumption, GetterAssumption, Init, GetterInit
<1>1. Stored = Elenum /\ Permits = Elenum
  BY DEF Stored, Permits
<1>2. TypeOK
  BY DEF TypeOK, GetterTypeOK, Slots, Wrs
<1>3. Balance
  BY <1>1, FS_EmptySet DEF Balance, Ahead
<1>4. RingContents
  BY <1>1 DEF RingContents, Slots, Wrs
<1>5. \A i \in Slots : InRing(i)
  BY <1>1 DEF InRing, Dist, Slots
<1>6. NoneLost
  BY <1>5 DEF NoneLost, Slots, Wrs
<1>7. ControlFacts
  BY DEF ControlFacts
<1> QED BY <1>2, <1>3, <1>4, <1>6, <1>7 DEF IInv
-----------------------------------------------------------------------------
(* Steps that touch neither the ring nor the callers' holdings, and leave  *)
(* the number of free work requests as it is.                              *)
LEMMA RingUntouched ==
    ASSUME IInv, UNCHANGED <<front, rear, ringqueue, held>>, Stored' = Stored
    PROVE  Balance' /\ RingContents' /\ NoneLost'
<1>1. \A i : InRing(i)' <=> InRing(i)
  BY DEF InRing
<1> QED
  BY <1>1 DEF IInv, Balance, RingContents, NoneLost

(* A getter takes the work request w at __front out of the ring.           *)
LEMMA TakeFront ==
    ASSUME IInv, Permits > 0, NEW w, w = ringqueue[front],
           held' = held \union {w}, front' = Succ(front, Elenum), rear' = rear,
           \A i \in Slots \ {front} : ringqueue'[i] = ringqueue[i],
           Stored' = Stored - 1
    PROVE  Balance' /\ RingContents' /\ NoneLost' /\ front' \in Slots /\ held' \subseteq Wrs
<1> USE PoolAssumption
<1>1. /\ front \in Slots /\ Slots = 0 .. Elenum - 1 /\ held \in SUBSET Wrs
      /\ Stored \in 1 .. Elenum
  <2>1. count \in 0 .. Elenum /\ front \in Slots /\ held \in SUBSET Wrs
    BY DEF IInv, TypeOK, GetterTypeOK
  <2>2. Stored \in Nat /\ Stored > 0
    BY <2>1 DEF Stored, Permits
  <2>3. Stored + Cardinality(held) = Elenum /\ Cardinality(held) \in Nat
    BY <2>1, HeldFinite DEF IInv, Balance
  <2> QED BY <2>1, <2>2, <2>3 DEF Slots
<1>2. InRing(front)
  BY <1>1, DistSelf DEF InRing
<1>3. w \in Wrs \ held
  BY <1>1, <1>2 DEF IInv, RingContents
<1>4. front' \in Slots
  BY <1>1, SuccType
<1>5. \A i \in Slots : InRing(i)' <=> InRing(i) /\ i # front
  <2> SUFFICES ASSUME NEW i \in Slots PROVE InRing(i)' <=> InRing(i) /\ i # front
    OBVIOUS
  <2>1. CASE i = front
    <3>1. Dist(front', i, Elenum) = Elenum - 1
      BY <1>1, <2>1, DistLeft
    <3> QED BY <1>1, <2>1, <3>1 DEF InRing
  <2>2. CASE i # front
    <3>1. Dist(front', i, Elenum) = Dist(front, i, Elenum) - 1
      BY <1>1, <2>2, DistSucc
    <3>2. Dist(front, i, Elenum) \in Int
      BY <1>1, DistRange
    <3> QED BY <1>1, <2>2, <3>1, <3>2 DEF InRing
  <2> QED BY <2>1, <2>2
<1>6. Balance'
  <2>1. Cardinality(held') = Cardinality(held) + 1 /\ Cardinality(held) \in Nat
    BY <1>1, <1>3, HeldFinite
  <2>2. rear' = Ahead(front', Stored', Elenum)
    <3>1. rear = Ahead(front, (Stored - 1) + 1, Elenum)
      BY <1>1 DEF IInv, Balance
    <3> QED BY <1>1, <3>1, AheadSucc
  <2> QED BY <1>1, <2>1, <2>2 DEF IInv, Balance
<1>7. RingContents'
  <2>1. \A i \in Slots : InRing(i)' => ringqueue'[i] \in Wrs \ held'
    BY <1>1, <1>2, <1>5 DEF IInv, RingContents
  <2>2. \A i, j \in Slots :
           InRing(i)' /\ InRing(j)' /\ ringqueue'[i] = ringqueue'[j] => i = j
    BY <1>5 DEF IInv, RingContents
  <2> QED BY <2>1, <2>2 DEF RingContents
<1>8. NoneLost'
  <2> SUFFICES ASSUME NEW v \in Wrs
               PROVE  v \in held' \/ \E i \in Slots : InRing(i)' /\ ringqueue'[i] = v
    BY DEF NoneLost
  <2>1. CASE v \in held
    BY <2>1
  <2>2. CASE \E i \in Slots : InRing(i) /\ ringqueue[i] = v
    BY <2>2, <1>5
  <2> QED BY <2>1, <2>2 DEF IInv, NoneLost
<1> QED BY <1>1, <1>3, <1>4, <1>6, <1>7, <1>8

(* put appends the work request e, which a caller held, at __rear.         *)
LEMMA StoreRear ==
    ASSUME IInv, NEW e \in held,
           held' = held \ {e}, rear' = Succ(rear, Elenum), front' = front,
           ringqueue' = [ringqueue EXCEPT ![rear] = e],
           Stored' = Stored + 1
    PROVE  /\ Balance' /\ RingContents' /\ NoneLost' /\ rear' \in Slots
           /\ ~InRing(rear)
<1> USE PoolAssumption
<1>1. /\ front \in Slots /\ rear \in Slots /\ Slots = 0 .. Elenum - 1
      /\ held \in SUBSET Wrs /\ e \in Wrs
      /\ ringqueue \in [Slots -> Wrs \union {Nullptr}]
      /\ Stored \in 0 .. Elenum - 1
  <2>1. /\ count \in 0 .. Elenum /\ held \in SUBSET Wrs
        /\ front \in Slots /\ rear \in Slots
        /\ ringqueue \in [Slots -> Wrs \union {Nullptr}]
    BY DEF IInv, TypeOK, GetterTypeOK
  <2>2. Stored \in Nat
    BY <2>1 DEF Stored, Permits
  <2>3. Cardinality(held \ {e}) = Cardinality(held) - 1 /\ Cardinality(held \ {e}) \in Nat
    BY <2>1, HeldFinite
  <2>4. Stored + Cardinality(held) = Elenum /\ Cardinality(held) \in Nat
    BY <2>1, HeldFinite DEF IInv, Balance
  <2> QED BY <2>1, <2>2, <2>3, <2>4 DEF Slots
<1>2. rear = Ahead(front, Stored, Elenum)
  BY DEF IInv, Balance
<1>3. Dist(front, rear, Elenum) = Stored
  BY <1>1, <1>2, DistAhead
<1>4. ~InRing(rear)
  BY <1>1, <1>3 DEF InRing
<1>5. \A i \in Slots : InRing(i)' <=> InRing(i) \/ i = rear
  <2> SUFFICES ASSUME NEW i \in Slots PROVE InRing(i)' <=> InRing(i) \/ i = rear
    OBVIOUS
  <2>1. Dist(front, i, Elenum) \in Int
    BY <1>1, DistRange
  <2>2. Dist(front, i, Elenum) = Stored <=> i = rear
    BY <1>1, <1>2, DistAhead
  <2> QED BY <1>1, <2>1, <2>2 DEF InRing
<1>6. ringqueue'[rear] = e /\ \A i \in Slots \ {rear} : ringqueue'[i] = ringqueue[i]
  BY <1>1
<1>7. Balance'
  <2>1. Cardinality(held') = Cardinality(held) - 1 /\ Cardinality(held) \in Nat
    BY <1>1, HeldFinite
  <2>2. rear' = Ahead(front', Stored', Elenum)
    BY <1>1, <1>2, AheadSucc
  <2> QED BY <1>1, <2>1, <2>2 DEF IInv, Balance
<1>8. RingContents'
  <2>1. \A i \in Slots : InRing(i)' => ringqueue'[i] \in Wrs \ held'
    BY <1>1, <1>5, <1>6 DEF IInv, RingContents
  <2>2. \A i, j \in Slots :
           InRing(i)' /\ InRing(j)' /\ ringqueue'[i] = ringqueue'[j] => i = j
    <3> SUFFICES ASSUME NEW i \in Slots, NEW j \in Slots, InRing(i)', InRing(j)',
                        ringqueue'[i] = ringqueue'[j]
                 PROVE  i = j
      OBVIOUS
    <3>1. CASE i # rear /\ j # rear
      BY <1>5, <1>6, <3>1 DEF IInv, RingContents
    <3>2. CASE i = rear /\ j # rear
      BY <1>5, <1>6, <3>2 DEF IInv, RingContents
    <3>3. CASE i # rear /\ j = rear
      BY <1>5, <1>6, <3>3 DEF IInv, RingContents
    <3> QED BY <3>1, <3>2, <3>3
  <2> QED BY <2>1, <2>2 DEF RingContents
<1>9. NoneLost'
  <2> SUFFICES ASSUME NEW v \in Wrs
               PROVE  v \in held' \/ \E i \in Slots : InRing(i)' /\ ringqueue'[i] = v
    BY DEF NoneLost
  <2>1. CASE v = e
    BY <2>1, <1>1, <1>5, <1>6
  <2>2. CASE v \in held /\ v # e
    BY <2>2
  <2>3. CASE \E i \in Slots : InRing(i) /\ ringqueue[i] = v
    BY <2>3, <1>4, <1>5, <1>6
  <2> QED BY <2>1, <2>2, <2>3 DEF IInv, NoneLost
<1> QED BY <1>1, <1>4, <1>7, <1>8, <1>9, SuccType
-----------------------------------------------------------------------------
LEMMA StepIInv == IInv /\ [Next]_vars => IInv'
<1> SUFFICES ASSUME IInv, [Next]_vars PROVE IInv'
  OBVIOUS
<1> USE PoolAssumption, GetterAssumption DEF PoolAssumption, GetterAssumption
<1>t. TypeOK /\ GetterTypeOK(Elenum)
  BY DEF IInv, TypeOK
<1>c. ControlFacts
  BY DEF IInv
<1>1. CASE Running(BeginGet)
  <2>0. exit = "no" /\ exit' = exit /\ pcC = "idle" /\ pcC' = "wait" /\ count' = count
        /\ UNCHANGED ringVars /\ op' \in {"get", "tryget", "timeget"}
        /\ tries' = 0 /\ deadlineOk' \in BOOLEAN
    <3>1. ASSUME NEW ok \in BOOLEAN, NEW o \in {"get", "tryget", "timeget"}, Call(o, ok)
          PROVE  /\ pcC = "idle" /\ pcC' = "wait" /\ count' = count /\ exit' = exit
                 /\ op' \in {"get", "tryget", "timeget"} /\ tries' = 0 /\ deadlineOk' \in BOOLEAN
      BY <3>1 DEF Call
    <3>2. CASE CallGet \/ CallTryget
      BY <1>1, <3>1, <3>2 DEF Running, BeginGet, CallGet, CallTryget
    <3>3. CASE CallTimeget
      <4>1. PICK nsec \in 0 .. NsPerSec - 1 : Call("timeget", nsec + GetWaitTime < NsPerSec)
        BY <3>3 DEF CallTimeget
      <4>2. (nsec + GetWaitTime < NsPerSec) \in BOOLEAN
        BY SMT
      <4> QED BY <1>1, <3>1, <4>1, <4>2, Zenon DEF Running, BeginGet
    <3> QED BY <1>1, <3>2, <3>3 DEF Running, BeginGet, CallStep
  <2>1. TypeOK'
    BY <1>t, <2>0 DEF TypeOK, GetterTypeOK, ringVars
  <2>2. Stored' = Stored
    BY <2>0 DEF Stored, Permits, ringVars
  <2>3. Balance' /\ RingContents' /\ NoneLost'
    BY <2>0, <2>2, RingUntouched DEF ringVars
  <2>4. ControlFacts'
    BY <1>t, <2>0 DEF ControlFacts
  <2> QED BY <2>1, <2>3, <2>4 DEF IInv
<1>2. CASE Running(WaitPermit)
  <2>0. exit = "no" /\ pcC = "wait" /\ UNCHANGED ringVars
    BY <1>2 DEF Running, WaitPermit, WaitStep, SemTaken, TrywaitAgain,
                TimedwaitExpires, TimedwaitInvalid, SemFails
  <2>1. CASE SemTaken
    <3>1. TypeOK'
      BY <1>t, <2>0, <2>1 DEF TypeOK, GetterTypeOK, ringVars, SemTaken, callVars
    <3>2. Stored' = Stored
      BY <1>t, <2>0, <2>1 DEF GetterTypeOK, Stored, Permits, ringVars, SemTaken
    <3>3. Balance' /\ RingContents' /\ NoneLost'
      BY <2>0, <3>2, RingUntouched DEF ringVars
    <3>4. ControlFacts'
      BY <1>c, <2>0, <2>1 DEF ControlFacts, SemTaken, callVars
    <3> QED BY <3>1, <3>3, <3>4 DEF IInv
  <2>2. CASE TrywaitAgain \/ TimedwaitExpires \/ TimedwaitInvalid \/ SemFails
    <3>0. /\ UNCHANGED <<count, pcC>>
          /\ exit' = "too_small" => count = 0
          /\ exit' \in {"no", "too_small", "einval", "failed"}
          /\ UNCHANGED <<op, deadlineOk>>
          /\ tries' = tries \/ (tries' = tries + 1 /\ (tries + 1 >= GetTryNum => exit' # "no"))
      BY <2>0, <2>2 DEF TrywaitAgain, TimedwaitExpires, TimedwaitInvalid, SemFails, callVars
    <3>1. TypeOK'
      BY <1>t, <1>c, <2>0, <3>0 DEF TypeOK, GetterTypeOK, ringVars, ControlFacts
    <3>2. Stored' = Stored
      BY <2>0, <3>0 DEF Stored, Permits, ringVars
    <3>3. Balance' /\ RingContents' /\ NoneLost'
      BY <2>0, <3>2, RingUntouched DEF ringVars
    <3>4. ControlFacts'
      BY <1>t, <1>c, <2>0, <3>0 DEF GetterTypeOK, ControlFacts
    <3> QED BY <3>1, <3>3, <3>4 DEF IInv
  <2> QED BY <1>2, <2>1, <2>2 DEF Running, WaitPermit, WaitStep
<1>3. CASE Running(Read)
  <2>0. exit = "no" /\ exit' = exit /\ pcC = "take" /\ pcC' = "clear"
        /\ temp' = ringqueue[front] /\ count' = count /\ UNCHANGED callVars
        /\ UNCHANGED <<front, rear, ringqueue, pcP, held>>
    BY <1>3 DEF Running, Read
  <2>1. TypeOK'
    BY <1>t, <2>0 DEF TypeOK, GetterTypeOK, callVars
  <2>2. Stored' = Stored
    BY <2>0 DEF Stored, Permits
  <2>3. Balance' /\ RingContents' /\ NoneLost'
    BY <2>0, <2>2, RingUntouched
  <2>4. ControlFacts'
    BY <1>c, <2>0 DEF ControlFacts, callVars
  <2> QED BY <2>1, <2>3, <2>4 DEF IInv
<1>4. CASE Running(Clear)
  <2>0. /\ exit = "no" /\ exit' = exit /\ pcC = "clear" /\ pcC' = "idle"
        /\ ringqueue' = [ringqueue EXCEPT ![front] = Nullptr] /\ temp' = Nullptr
        /\ held' = held \union {temp} /\ front' = Succ(front, Elenum)
        /\ UNCHANGED <<rear, pcP, count>> /\ UNCHANGED callVars
    BY <1>4 DEF Running, Clear, Hand, Return
  <2>1. Permits > 0 /\ Stored' = Stored - 1 /\ temp = ringqueue[front]
    BY <1>t, <1>c, <2>0 DEF GetterTypeOK, Stored, Permits, ControlFacts
  <2>2. \A i \in Slots \ {front} : ringqueue'[i] = ringqueue[i]
    BY <1>t, <2>0 DEF TypeOK
  <2>3. /\ Balance' /\ RingContents' /\ NoneLost'
        /\ front' \in Slots /\ held' \subseteq Wrs
    BY <2>0, <2>1, <2>2, TakeFront
  <2>4. TypeOK'
    BY <1>t, <2>0, <2>3 DEF TypeOK, GetterTypeOK, callVars
  <2>5. ControlFacts'
    BY <1>c, <2>0 DEF ControlFacts, callVars
  <2> QED BY <2>3, <2>4, <2>5 DEF IInv
<1>5. CASE Running(Take)
  <2>0. /\ exit = "no" /\ exit' = exit /\ pcC = "take" /\ pcC' = "idle"
        /\ held' = held \union {ringqueue[front]} /\ front' = Succ(front, Elenum)
        /\ UNCHANGED <<rear, ringqueue, temp, pcP, count>> /\ UNCHANGED callVars
    BY <1>5 DEF Running, Take, Hand, Return
  <2>1. Permits > 0 /\ Stored' = Stored - 1
    BY <1>t, <2>0 DEF GetterTypeOK, Stored, Permits
  <2>3. /\ Balance' /\ RingContents' /\ NoneLost'
        /\ front' \in Slots /\ held' \subseteq Wrs
    BY <2>0, <2>1, TakeFront
  <2>4. TypeOK'
    BY <1>t, <2>0, <2>3 DEF TypeOK, GetterTypeOK, callVars
  <2>5. ControlFacts'
    BY <1>c, <2>0 DEF ControlFacts, callVars
  <2> QED BY <2>3, <2>4, <2>5 DEF IInv
<1>6. CASE Running(BeginDestroy) \/ Running(FreeArrays)
  <2>0. /\ exit = "no" /\ exit' = exit /\ pcC \in {"idle", "dtor"} /\ pcC' \in {"dtor", "freed"}
        /\ pcC' = "freed" => count = Elenum
        /\ count' = count /\ UNCHANGED ringVars /\ UNCHANGED callVars
    BY <1>6 DEF Running, BeginDestroy, Destroy, FreeArrays, Free
  <2>1. TypeOK'
    BY <1>t, <2>0 DEF TypeOK, GetterTypeOK, ringVars, callVars
  <2>2. Stored' = Stored
    BY <2>0 DEF Stored, Permits, ringVars
  <2>3. Balance' /\ RingContents' /\ NoneLost'
    BY <2>0, <2>2, RingUntouched DEF ringVars
  <2>4. ControlFacts'
    BY <1>c, <2>0 DEF ControlFacts, callVars
  <2> QED BY <2>1, <2>3, <2>4 DEF IInv
<1>7. CASE Running(PutStore)
  <2>0. PICK e \in held : ringqueue' = [ringqueue EXCEPT ![rear] = e] /\ held' = held \ {e}
    BY <1>7 DEF Running, PutStore
  <2>1. /\ exit = "no" /\ pcP = "idle" /\ pcP' = "post" /\ rear' = Succ(rear, Elenum)
        /\ UNCHANGED <<front, temp, count, pcC, op, tries, deadlineOk, exit>>
    BY <1>7 DEF Running, PutStore, semVars, callVars
  <2>2. Stored' = Stored + 1
    BY <2>1 DEF Stored, Permits
  <2>3. /\ Balance' /\ RingContents' /\ NoneLost' /\ rear' \in Slots
        /\ ~InRing(rear)
    BY <2>0, <2>1, <2>2, StoreRear
  <2>4. TypeOK'
    BY <1>t, <2>0, <2>1, <2>3 DEF TypeOK, GetterTypeOK
  <2>5. pcC = "clear" => InRing(front)
    <3>1. Dist(front, front, Elenum) = 0
      BY <1>t, DistSelf DEF TypeOK, Slots
    <3> QED BY <1>t, <2>1, <3>1 DEF GetterTypeOK, InRing, Stored, Permits
  <2>6. pcC = "clear" => ringqueue'[front] = ringqueue[front]
    BY <1>t, <2>0, <2>3, <2>5 DEF TypeOK
  <2>7. ControlFacts'
    BY <1>c, <2>1, <2>6 DEF ControlFacts
  <2> QED BY <2>3, <2>4, <2>7 DEF IInv
<1>8. CASE Running(PutPost)
  <2>0. /\ exit = "no" /\ pcP = "post" /\ pcP' = "idle" /\ count' = count + 1
        /\ UNCHANGED <<front, rear, ringqueue, temp, held, pcC, op, tries, deadlineOk, exit>>
    BY <1>8 DEF Running, PutPost, Post, callVars
  <2>1. Stored' = Stored
    BY <1>t, <2>0 DEF GetterTypeOK, Stored, Permits
  <2>2. Balance' /\ RingContents' /\ NoneLost'
    BY <2>0, <2>1, RingUntouched
  <2>3. count + 1 <= Elenum
    <3>1. Cardinality(held) \in Nat /\ Stored + Cardinality(held) = Elenum
      BY <1>t, HeldFinite DEF IInv, TypeOK, Balance
    <3> QED BY <1>t, <2>0, <3>1 DEF GetterTypeOK, Stored, Permits
  <2>4. TypeOK'
    BY <1>t, <2>0, <2>3 DEF TypeOK, GetterTypeOK
  <2>5. pcC # "freed"
    BY <1>t, <1>c, <2>0, <2>3 DEF ControlFacts, GetterTypeOK
  <2>6. ControlFacts'
    BY <1>c, <2>0, <2>5 DEF ControlFacts
  <2> QED BY <2>2, <2>4, <2>6 DEF IInv
<1>9. CASE UNCHANGED vars
  <2>1. Stored' = Stored
    BY <1>9 DEF vars, ringVars, semVars, callVars, Stored, Permits
  <2>2. Balance' /\ RingContents' /\ NoneLost'
    BY <1>9, <2>1, RingUntouched DEF vars, ringVars
  <2>3. TypeOK' /\ ControlFacts'
    BY <1>9, <1>t, <1>c DEF vars, ringVars, semVars, callVars, TypeOK, GetterTypeOK,
                            ControlFacts
  <2> QED BY <2>2, <2>3 DEF IInv
<1> QED
  BY <1>1, <1>2, <1>3, <1>4, <1>5, <1>6, <1>7, <1>8, <1>9
     DEF Next, Consumer, Getter, Producer, Running
-----------------------------------------------------------------------------
(* What the invariant says of the properties that the runs check. *)
LEMMA Consequences == IInv => /\ Accounting /\ Conserved
                              /\ DestroyedQuiet /\ TooSmallMeansExhausted
<1> SUFFICES ASSUME IInv
             PROVE  Accounting /\ Conserved /\ DestroyedQuiet /\ TooSmallMeansExhausted
  OBVIOUS
<1> USE PoolAssumption
<1>1. /\ front \in Slots /\ count \in 0 .. Elenum /\ held \in SUBSET Wrs
      /\ pcP \in {"idle", "post"}
      /\ IsFiniteSet(held) /\ Cardinality(held) \in Nat
      /\ Stored + Cardinality(held) = Elenum
  BY HeldFinite DEF IInv, TypeOK, GetterTypeOK, Balance
<1>2. Conserved
  BY DEF IInv, RingContents, Conserved, NoAlias
<1>3. Accounting
  <2> SUFFICES ASSUME NEW i \in Slots, Dist(front, i, Elenum) < Permits
               PROVE  ringqueue[i] \in Wrs
    BY DEF IInv, Balance, Accounting
  <2>1. Dist(front, i, Elenum) \in Int
    BY <1>1, DistRange DEF Slots
  <2>2. InRing(i)
    BY <1>1, <2>1 DEF InRing, Stored, Permits
  <2> QED BY <2>2 DEF IInv, RingContents
<1>4. DestroyedQuiet
  <2> SUFFICES ASSUME pcC = "freed" PROVE pcP = "idle" /\ held = {}
    BY DEF DestroyedQuiet
  <2>1. count = Elenum
    BY DEF IInv, ControlFacts
  <2>2. pcP = "idle" /\ Cardinality(held) = 0
    BY <1>1, <2>1 DEF Stored, Permits
  <2> QED BY <1>1, <2>2, FS_EmptySet
<1>5. TooSmallMeansExhausted
  <2> SUFFICES ASSUME exit = "too_small" PROVE Cardinality(held) >= Elenum - 1
    BY DEF TooSmallMeansExhausted
  <2>1. count = 0 /\ pcC = "wait"
    BY DEF IInv, ControlFacts
  <2> QED BY <1>1, <2>1 DEF Stored, Permits
<1> QED BY <1>2, <1>3, <1>4, <1>5

LEMMA Invariance == Spec => []IInv
BY InitIInv, StepIInv, PTL DEF Spec

(* Every variable stays within its type; in particular the indices stay    *)
(* inside __ringqueue and the semaphore between 0 and __elenum.            *)
THEOREM TypeCorrect == Spec => []TypeOK
<1>1. IInv => TypeOK
  BY DEF IInv
<1> QED BY Invariance, <1>1, PTL

(* mem_pool.hpp:326-387: the semaphore, __front, __rear and what is handed *)
(* out always agree, so put never stores over an unread slot, and a getter *)
(* with a permit never reads a null pointer.                               *)
THEOREM AlwaysAccounted == Spec => []Accounting
<1>1. IInv => Accounting
  BY Consequences
<1> QED BY Invariance, <1>1, PTL

(* mem_pool.hpp:326-387: every work request is once in the ring or with    *)
(* the callers; none is handed out twice and none disappears.              *)
THEOREM AlwaysConserved == Spec => []Conserved
<1>1. IInv => Conserved
  BY Consequences
<1> QED BY Invariance, <1>1, PTL

(* The destructor frees the arrays only when nobody uses them.             *)
THEOREM DestroyIsSafe == Spec => []DestroyedQuiet
<1>1. IInv => DestroyedQuiet
  BY Consequences
<1> QED BY Invariance, <1>1, PTL

(* The process gives up on an exhausted pool only when it is exhausted.    *)
THEOREM TooSmallIsTrue == Spec => []TooSmallMeansExhausted
<1>1. IInv => TooSmallMeansExhausted
  BY Consequences
<1> QED BY Invariance, <1>1, PTL
-----------------------------------------------------------------------------
(* The pool implements the FIFO pool.  A getter takes its step of FifoPool *)
(* when it hands the work request over (Clear, Take), put when it stores   *)
(* it (PutStore); all other steps leave the free list and the callers'     *)
(* holdings alone.                                                         *)

(* The slots of the ring as a sequence of work requests. *)
FreeListShape == /\ Stored \in 0 .. Elenum
                 /\ FreeList \in Seq(Wrs)
                 /\ Len(FreeList) = Stored
                 /\ \A k \in 1 .. Stored :
                       FreeList[k] = ringqueue[Ahead(front, k - 1, Elenum)]

LEMMA FreeListSeq == IInv => FreeListShape
<1> SUFFICES ASSUME IInv PROVE FreeListShape
  OBVIOUS
<1> USE PoolAssumption
<1>1. front \in 0 .. Elenum - 1 /\ Slots = 0 .. Elenum - 1 /\ Stored \in 0 .. Elenum
  <2>1. count \in 0 .. Elenum /\ front \in Slots /\ held \in SUBSET Wrs
    BY DEF IInv, TypeOK, GetterTypeOK
  <2>2. Stored \in Nat
    BY <2>1 DEF Stored, Permits
  <2>3. Stored + Cardinality(held) = Elenum /\ Cardinality(held) \in Nat
    BY <2>1, HeldFinite DEF IInv, Balance
  <2> QED BY <2>1, <2>2, <2>3 DEF Slots
<1>2. ASSUME NEW k \in 1 .. Stored
      PROVE  ringqueue[Ahead(front, k - 1, Elenum)] \in Wrs
  <2> DEFINE i == Ahead(front, k - 1, Elenum)
  <2>1. k - 1 \in 0 .. Elenum - 1 /\ k - 1 < Stored
    BY <1>1
  <2>2. i \in 0 .. Elenum - 1
    BY <1>1, <2>1 DEF Ahead
  <2>3. Dist(front, i, Elenum) = k - 1
    BY <1>1, <2>1, <2>2, DistAhead
  <2>4. i \in Slots /\ InRing(i)
    BY <1>1, <2>1, <2>2, <2>3 DEF InRing
  <2> QED BY <2>4 DEF IInv, RingContents
<1>3. FreeList \in [1 .. Stored -> Wrs]
  BY <1>2 DEF FreeList
<1> QED BY <1>1, <1>3 DEF FreeList, FreeListShape

LEMMA FreeListSeqNext == IInv' => FreeListShape'
BY FreeListSeq, PTL

(* The constructor's ring is the initial free list. *)
LEMMA InitRefines == Init => Fifo!FifoInit
<1> SUFFICES ASSUME Init PROVE Fifo!FifoInit
  OBVIOUS
<1> USE PoolAssumption
<1>1. Stored = Elenum /\ front = 0 /\ held = {} /\ ringqueue = [i \in Slots |-> i]
  BY DEF Init, GetterInit, Stored, Permits
<1>2. DOMAIN FreeList = {w + 1 : w \in Wrs}
  <2>1. DOMAIN FreeList = 1 .. Elenum
    BY <1>1 DEF FreeList
  <2>2. ASSUME NEW x PROVE x \in 1 .. Elenum <=> x \in {w + 1 : w \in Wrs}
    <3>1. ASSUME x \in 1 .. Elenum PROVE x \in {w + 1 : w \in Wrs}
      <4>1. x - 1 \in Wrs /\ x = (x - 1) + 1
        BY <3>1 DEF Wrs
      <4> QED BY <4>1
    <3> QED BY <3>1 DEF Wrs
  <2> QED BY <2>1, <2>2
<1>3. ASSUME NEW w \in Wrs PROVE FreeList[w + 1] = w
  <2>1. w \in 0 .. Elenum - 1 /\ w + 1 \in 1 .. Stored /\ (w + 1) - 1 = w
    BY <1>1 DEF Wrs
  <2>2. Ahead(front, w, Elenum) = w
    BY <1>1, <2>1 DEF Ahead
  <2> QED BY <1>1, <2>1, <2>2 DEF FreeList, Slots
<1> QED BY <1>1, <1>2, <1>3 DEF Fifo!FifoInit

(* A step that leaves ring, indices and holdings alone is a stutter. *)
LEMMA StutterRefines ==
    ASSUME UNCHANGED <<front, ringqueue, held>>, Stored' = Stored
    PROVE  UNCHANGED Fifo!fifoVars
<1>1. FreeList' = FreeList
  BY DEF FreeList
<1> QED BY <1>1 DEF Fifo!fifoVars

(* Taking the work request at __front is FifoGet. *)
LEMMA GetRefines ==
    ASSUME IInv, IInv', Permits > 0,
           held' = held \union {ringqueue[front]}, front' = Succ(front, Elenum),
           \A i \in Slots \ {front} : ringqueue'[i] = ringqueue[i],
           Stored' = Stored - 1
    PROVE  Fifo!FifoGet
<1> USE PoolAssumption
<1>1. /\ Stored \in 1 .. Elenum /\ front \in 0 .. Elenum - 1 /\ Slots = 0 .. Elenum - 1
      /\ count \in Nat
  <2>1. count \in 0 .. Elenum /\ front \in Slots
    BY DEF IInv, TypeOK, GetterTypeOK
  <2>2. Stored > 0
    BY <2>1 DEF Stored, Permits
  <2> QED BY <2>1, <2>2, FreeListSeq DEF Slots, FreeListShape
<1>2. /\ FreeList \in Seq(Wrs) /\ Len(FreeList) = Stored /\ FreeList # <<>>
      /\ \A k \in 1 .. Stored : FreeList[k] = ringqueue[Ahead(front, k - 1, Elenum)]
  <2>1. FreeList \in Seq(Wrs) /\ Len(FreeList) = Stored
    BY FreeListSeq DEF FreeListShape
  <2>2. FreeList # <<>>
    BY <1>1, <2>1
  <2> QED BY <2>1, <2>2, FreeListSeq DEF FreeListShape
<1>3. /\ FreeList' \in Seq(Wrs) /\ Len(FreeList') = Stored - 1
      /\ \A k \in 1 .. Stored - 1 :
            FreeList'[k] = ringqueue'[Ahead(front', k - 1, Elenum)]
  <2>1. /\ FreeList' \in Seq(Wrs)' /\ Len(FreeList') = Stored'
        /\ \A k \in 1 .. Stored' :
              FreeList'[k] = ringqueue'[Ahead(front', k - 1, Elenum)]
    BY FreeListSeqNext DEF FreeListShape
  <2> QED BY <2>1 DEF Wrs
<1>4. Head(FreeList) = ringqueue[front]
  <2>1. Ahead(front, 1 - 1, Elenum) = front
    BY <1>1 DEF Ahead
  <2>2. FreeList[1] = ringqueue[front]
    BY <1>1, <1>2, <2>1
  <2> QED BY <1>2, <2>2
<1>5. FreeList' = Tail(FreeList)
  <2>1. /\ Tail(FreeList) \in Seq(Wrs) /\ Len(Tail(FreeList)) = Stored - 1
        /\ \A k \in 1 .. Stored - 1 : Tail(FreeList)[k] = FreeList[k + 1]
    BY <1>2, HeadTailProperties
  <2>2. ASSUME NEW k \in 1 .. Stored - 1 PROVE FreeList'[k] = Tail(FreeList)[k]
    <3>1. /\ k \in Int /\ k + 1 \in 1 .. Stored /\ k \in 1 .. Elenum - 1
          /\ k - 1 \in 0 .. Elenum - 1 /\ (k - 1) + 1 = k /\ (k + 1) - 1 = k
      BY <1>1
    <3>2. Ahead(front', k - 1, Elenum) = Ahead(front, k, Elenum)
      BY <1>1, <3>1, AheadSucc
    <3>3. Ahead(front, k, Elenum) \in Slots \ {front}
      BY <1>1, <3>1 DEF Ahead
    <3>4. FreeList'[k] = ringqueue[Ahead(front, k, Elenum)]
      BY <1>3, <3>2, <3>3
    <3>5. FreeList[k + 1] = ringqueue[Ahead(front, k, Elenum)]
      BY <1>2, <3>1
    <3> QED BY <2>1, <3>4, <3>5
  <2> QED BY <1>3, <2>1, <2>2, SeqEqual
<1> QED BY <1>2, <1>4, <1>5 DEF Fifo!FifoGet

(* Storing a work request at __rear is FifoPut. *)
LEMMA PutRefines ==
    ASSUME IInv, IInv', NEW e \in held,
           held' = held \ {e}, front' = front,
           ringqueue' = [ringqueue EXCEPT ![rear] = e],
           Stored' = Stored + 1
    PROVE  Fifo!FifoPut
<1> USE PoolAssumption
<1>1. /\ Stored \in 0 .. Elenum - 1 /\ front \in 0 .. Elenum - 1 /\ Slots = 0 .. Elenum - 1
      /\ rear \in Slots /\ ringqueue \in [Slots -> Wrs \union {Nullptr}] /\ e \in Wrs
      /\ rear = Ahead(front, Stored, Elenum)
  <2>1. /\ front \in Slots /\ rear \in Slots /\ held \subseteq Wrs
        /\ ringqueue \in [Slots -> Wrs \union {Nullptr}]
        /\ rear = Ahead(front, Stored, Elenum)
    BY DEF IInv, TypeOK, Balance
  <2>2. Stored \in 0 .. Elenum
    BY FreeListSeq DEF FreeListShape
  <2>3. Stored' <= Elenum
    <3>1. Stored' \in 0 .. Elenum
      BY FreeListSeqNext DEF FreeListShape
    <3> QED BY <3>1
  <2> QED BY <2>1, <2>2, <2>3 DEF Slots
<1>2. /\ FreeList \in Seq(Wrs) /\ Len(FreeList) = Stored
      /\ \A k \in 1 .. Stored : FreeList[k] = ringqueue[Ahead(front, k - 1, Elenum)]
  BY FreeListSeq DEF FreeListShape
<1>3. /\ FreeList' \in Seq(Wrs) /\ Len(FreeList') = Stored + 1
      /\ \A k \in 1 .. Stored + 1 :
            FreeList'[k] = ringqueue'[Ahead(front, k - 1, Elenum)]
  <2>1. /\ FreeList' \in Seq(Wrs)' /\ Len(FreeList') = Stored'
        /\ \A k \in 1 .. Stored' :
              FreeList'[k] = ringqueue'[Ahead(front', k - 1, Elenum)]
    BY FreeListSeqNext DEF FreeListShape
  <2> QED BY <2>1 DEF Wrs
<1>4. FreeList' = Append(FreeList, e)
  <2>1. /\ Append(FreeList, e) \in Seq(Wrs) /\ Len(Append(FreeList, e)) = Stored + 1
        /\ \A k \in 1 .. Stored : Append(FreeList, e)[k] = FreeList[k]
        /\ Append(FreeList, e)[Stored + 1] = e
    BY <1>1, <1>2
  <2>2. ASSUME NEW k \in 1 .. Stored + 1 PROVE FreeList'[k] = Append(FreeList, e)[k]
    <3>1. CASE k = Stored + 1
      <4>1. k - 1 = Stored
        BY <1>1, <3>1
      <4>2. FreeList'[k] = ringqueue'[rear]
        BY <1>1, <1>3, <4>1
      <4> QED BY <1>1, <2>1, <3>1, <4>2
    <3>2. CASE k # Stored + 1
      <4>1. k \in 1 .. Stored /\ k - 1 \in 0 .. Elenum - 1 /\ k - 1 # Stored
        BY <1>1, <3>2
      <4>2. Ahead(front, k - 1, Elenum) \in Slots \ {rear}
        BY <1>1, <4>1 DEF Ahead
      <4>3. FreeList'[k] = ringqueue[Ahead(front, k - 1, Elenum)]
        BY <1>1, <1>3, <4>2
      <4> QED BY <1>2, <2>1, <4>1, <4>3
    <3> QED BY <3>1, <3>2
  <2> QED BY <1>3, <2>1, <2>2, SeqEqual
<1> QED BY <1>4 DEF Fifo!FifoPut

(* Every step of the pool is a step of FifoPool or a stutter. *)
LEMMA StepRefines ==
    ASSUME IInv, IInv', [Next]_vars
    PROVE  [Fifo!FifoNext]_(Fifo!fifoVars)
<1>t. TypeOK /\ GetterTypeOK(Elenum) /\ ControlFacts
  BY DEF IInv, TypeOK
<1>1. CASE Running(BeginGet) \/ Running(WaitPermit) \/ Running(Read)
           \/ Running(BeginDestroy) \/ Running(FreeArrays) \/ Running(PutPost)
           \/ UNCHANGED vars
  <2>1. UNCHANGED <<front, ringqueue, held>>
    BY <1>1 DEF Running, BeginGet, WaitPermit, Read, BeginDestroy, FreeArrays, PutPost,
                vars, ringVars
  <2>2. Stored' = Stored
    <3>1. CASE Running(BeginGet)
      BY <3>1 DEF Running, BeginGet, CallStep, CallGet, CallTryget, CallTimeget, Call,
                  ringVars, Stored, Permits
    <3>2. CASE Running(WaitPermit)
      BY <1>t, <3>2 DEF Running, WaitPermit, WaitStep, SemTaken, TrywaitAgain,
                  TimedwaitExpires, TimedwaitInvalid, SemFails, ringVars, Stored, Permits,
                  GetterTypeOK
    <3>3. CASE Running(Read)
      BY <3>3 DEF Running, Read, Stored, Permits
    <3>4. CASE Running(BeginDestroy) \/ Running(FreeArrays)
      BY <3>4
         DEF Running, BeginDestroy, Destroy, FreeArrays, Free, ringVars, Stored,
             Permits
    <3>5. CASE Running(PutPost)
      BY <1>t, <3>5 DEF Running, PutPost, Post, Stored, Permits, GetterTypeOK
    <3>6. CASE UNCHANGED vars
      BY <3>6 DEF vars, ringVars, semVars, Stored, Permits
    <3> QED BY <1>1, <3>1, <3>2, <3>3, <3>4, <3>5, <3>6
  <2> QED BY <2>1, <2>2, StutterRefines
<1>2. CASE Running(Clear)
  <2>1. /\ pcC = "clear" /\ pcC' = "idle" /\ UNCHANGED <<pcP, count>>
        /\ ringqueue' = [ringqueue EXCEPT ![front] = Nullptr]
        /\ held' = held \union {temp} /\ front' = Succ(front, Elenum)
    BY <1>2 DEF Running, Clear, Hand, Return
  <2>2. Permits > 0 /\ Stored' = Stored - 1 /\ temp = ringqueue[front]
    BY <1>t, <2>1 DEF GetterTypeOK, Stored, Permits, ControlFacts
  <2>3. \A i \in Slots \ {front} : ringqueue'[i] = ringqueue[i]
    BY <1>t, <2>1 DEF TypeOK
  <2>4. Fifo!FifoGet
    BY <2>1, <2>2, <2>3, GetRefines
  <2> QED BY <2>4 DEF Fifo!FifoNext
<1>3. CASE Running(Take)
  <2>1. /\ pcC = "take" /\ pcC' = "idle" /\ UNCHANGED <<pcP, count, ringqueue>>
        /\ held' = held \union {ringqueue[front]} /\ front' = Succ(front, Elenum)
    BY <1>3 DEF Running, Take, Hand, Return
  <2>2. Permits > 0 /\ Stored' = Stored - 1
    BY <1>t, <2>1 DEF GetterTypeOK, Stored, Permits
  <2>3. Fifo!FifoGet
    BY <2>1, <2>2, GetRefines
  <2> QED BY <2>3 DEF Fifo!FifoNext
<1>4. CASE Running(PutStore)
  <2>1. PICK e \in held : ringqueue' = [ringqueue EXCEPT ![rear] = e] /\ held' = held \ {e}
    BY <1>4 DEF Running, PutStore
  <2>2. pcP = "idle" /\ pcP' = "post" /\ UNCHANGED <<front, count, pcC>>
    BY <1>4 DEF Running, PutStore, semVars
  <2>3. Stored' = Stored + 1
    BY <2>2 DEF Stored, Permits
  <2>4. Fifo!FifoPut
    BY <2>1, <2>2, <2>3, PutRefines
  <2> QED BY <2>4 DEF Fifo!FifoNext
<1> QED
  BY <1>1, <1>2, <1>3, <1>4 DEF Next, Consumer, Getter, Producer, Running

(* mem_pool.hpp:326-387: get, tryget, timeget and put are the operations   *)
(* of a FIFO pool, each taking effect at once.                             *)
THEOREM Implements == Spec => ImplementsFifo
<1>1. IInv /\ IInv' /\ [Next]_vars => [Fifo!FifoNext]_(Fifo!fifoVars)
  BY StepRefines
<1> QED
  BY Invariance, InitRefines, <1>1, PTL DEF Spec, ImplementsFifo, Fifo!FifoSpec
=============================================================================
