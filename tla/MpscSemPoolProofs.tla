------------------------- MODULE MpscSemPoolProofs -------------------------
(***************************************************************************)
(* Safety of rfts::mpsc_sem_mem_pool for every number of work requests and *)
(* of producers, every GET_TRY_NUM and every GET_WAIT_TIME.                *)
(* The last section is about rfts::mpsc_atomic_mem_pool.                   *)
(***************************************************************************)
EXTENDS MpscSemPool, FlagRingProofs

InGet == IF pcC \in {"clear", "flag"} THEN {temp} ELSE {}
Counted == IF pcC = "clear" THEN Slots \ {front} ELSE Slots

(* The producers with a work request, at publication, and before the post. *)
Carry == {"cas", "again", "reload", "store"}
Finish == {"publish"}
Owed == {"post"}
InPut == {"cas", "again", "reload", "store", "publish", "post"}

(* Permits, posts to come, and work requests out of the ring add up. *)
Balance == Permits + Cardinality(At(Owed)) + Cardinality(held)
             + Cardinality(At(Carry)) + Cardinality(At(Finish)) = Elenum

(* What the threads know locally. *)
ControlFacts ==
    /\ pcC = "freed" => held = {} /\ At(InPut) = {}
    /\ exit = "too_small" => count = 0 /\ pcC = "wait" /\ ~crashed
    /\ exit = "no" => tries < GetTryNum

(* As long as no producer was lapped. *)
Sound == /\ Ring(front, Stored, pcC, rear, rq, flags, pcP, idx)
         /\ Somewhere(rq, elem, held, InGet)
         /\ pcC \in {"clear", "flag"} => temp \in Wrs
         /\ pcC = "clear" => temp = rq[front]
         /\ ~crashed

IInv == /\ TypeOK
        /\ Carried
        /\ Apart(rq, elem, held, Counted, InGet)
        /\ ControlFacts
        /\ ~crashed => Balance
        /\ ~lapped => Sound
-----------------------------------------------------------------------------
LEMMA Numbers == /\ Elenum \in Nat /\ Elenum >= 1 /\ Rqnum = Elenum
                 /\ Rqnum \in Nat \ {0} /\ Slots = 0 .. Elenum - 1 /\ Nullptr \notin Wrs
                 /\ GetTryNum \in Nat \ {0}
BY RingAssumption, CapacityAssumption, GetterAssumption DEF Slots

LEMMA StoredAt == Stored = Permits + Cardinality(At(Owed)) /\ Posting = At(Owed)
<1>1. Posting = At(Owed)
  BY DEF Posting, At, Owed
<1> QED BY <1>1 DEF Stored

(* What the balance bounds. *)
LEMMA Bounds ==
    ASSUME TypeOK, Balance
    PROVE  /\ Cardinality(At(Owed)) \in Nat /\ Cardinality(held) \in Nat
           /\ Cardinality(At(Carry)) \in Nat /\ Cardinality(At(Finish)) \in Nat
           /\ Permits \in 0 .. Elenum /\ Stored \in 0 .. Elenum
           /\ pcC \in {"take", "clear", "flag"} => Permits = count + 1 /\ Stored > 0
           /\ pcC \notin {"take", "clear", "flag"} => Permits = count
<1>1. /\ Cardinality(At(Owed)) \in Nat /\ Cardinality(held) \in Nat
      /\ Cardinality(At(Carry)) \in Nat /\ Cardinality(At(Finish)) \in Nat
  BY AtCount, HeldFinite DEF TypeOK, RingTypeOK
<1>2. count \in Nat /\ Permits \in Nat
  BY DEF TypeOK, GetterTypeOK, Permits
<1>3. Permits \in 0 .. Elenum /\ Stored \in 0 .. Elenum
  BY <1>1, <1>2, StoredAt, Numbers DEF Balance
<1>4. pcC \in {"take", "clear", "flag"} => Permits = count + 1
  BY DEF Permits
<1>5. pcC \notin {"take", "clear", "flag"} => Permits = count
  BY DEF Permits
<1>6. pcC \in {"take", "clear", "flag"} => Stored > 0
  BY <1>1, <1>2, <1>4, StoredAt
<1> QED BY <1>1, <1>3, <1>4, <1>5, <1>6

LEMMA InitInv == Init => IInv
<1> SUFFICES ASSUME Init PROVE IInv
  OBVIOUS
<1>0. /\ RingInit /\ rear = 0 /\ front = 0 /\ pcC = "idle" /\ held = {} /\ ~crashed
      /\ temp = Nullptr /\ crashed = FALSE /\ count = Elenum /\ exit = "no" /\ tries = 0
      /\ \A p \in Producers : pcP[p] = "idle" /\ elem[p] = Nullptr
  BY Numbers DEF Init, RingInit, GetterInit
<1>r. \A i \in Slots : rq[i] = i /\ flags[i] /\ i \in Wrs
  <2>1. \A i \in Slots : i < Elenum /\ i \in Wrs
    BY Numbers DEF Wrs
  <2>2. \A i \in Slots : rq[i] = IF i < Elenum THEN i ELSE Nullptr
    BY DEF Init, RingInit
  <2>3. \A i \in Slots : flags[i] <=> i < Elenum
    BY DEF Init, RingInit
  <2> QED BY <2>1, <2>2, <2>3
<1>1. TypeOK
  <2>1. RingTypeOK
    BY <1>0, InitType
  <2>2. GetterTypeOK(Elenum)
    BY <1>0, Numbers DEF Init, GetterInit, GetterTypeOK
  <2>3. 0 \in Slots
    BY Numbers
  <2> QED BY <1>0, <2>1, <2>2, <2>3 DEF TypeOK
<1>2. Carried
  BY <1>0, Numbers DEF Carried, Carriers
<1>3. Apart(rq, elem, held, Counted, InGet)
  BY <1>0, <1>r, Numbers DEF Apart, Counted, InGet
<1>4. At(Owed) = {} /\ At(Carry) = {} /\ At(Finish) = {}
  BY <1>0 DEF At, Owed, Carry, Finish
<1>5. Balance /\ Stored = Elenum
  BY <1>0, <1>4, Numbers, StoredAt, FS_EmptySet DEF Balance, Permits
<1>6. ControlFacts
  BY <1>0, Numbers DEF ControlFacts
<1>7. Ring(front, Stored, pcC, rear, rq, flags, pcP, idx)
  <2>1. Claims(pcP) = {}
    BY <1>0 DEF Claims
  <2>2. 0 = Ahead(0, Elenum, Rqnum) /\ \A i \in Slots : Dist(0, i, Rqnum) < Elenum
    BY Numbers DEF Ahead, Dist
  <2>3. 0 \in Slots /\ Elenum \in 0 .. Elenum
    BY Numbers
  <2> QED BY <1>0, <1>5, <1>r, <2>1, <2>2, <2>3 DEF Ring
<1>8. Somewhere(rq, elem, held, InGet)
  <2>1. \A w \in Wrs : w \in Slots /\ rq[w] = w
    BY <1>r, Numbers DEF Wrs
  <2> QED BY <2>1 DEF Somewhere
<1> QED BY <1>0, <1>1, <1>2, <1>3, <1>5, <1>6, <1>7, <1>8 DEF IInv, Sound
-----------------------------------------------------------------------------
(* The steps of a getter before it reads the slot, and the destructor. *)
LEMMA WaitInv ==
    ASSUME IInv, BeginGet \/ WaitPermit \/ BeginDestroy \/ FreeArrays, ~Halted
    PROVE  IInv'
<1>1. /\ UNCHANGED <<rear, rq, flags, pcP, idx, elem, held, lapped, front, temp, crashed>>
      /\ CallStep \/ WaitStep \/ Destroy \/ Free(Elenum)
  BY DEF BeginGet, WaitPermit, BeginDestroy, FreeArrays, putVars, getVars
<1>2. ~crashed /\ exit = "no" /\ Balance /\ tries < GetTryNum
  BY DEF Halted, Stopped, IInv, ControlFacts
<1>3. /\ GetterTypeOK(Elenum)' /\ Permits' = Permits
      /\ pcC \notin {"clear", "flag"} /\ pcC' \notin {"clear", "flag"}
      /\ pcC' = "freed" => count' = Elenum
      /\ exit' = "too_small" => count' = 0 /\ pcC' = "wait"
      /\ exit' = "no" => tries' < GetTryNum
  <2>0. /\ GetterTypeOK(Elenum) /\ tries \in 0 .. GetTryNum /\ count \in 0 .. Elenum
        /\ pcC # "freed"
    BY DEF IInv, TypeOK, GetterTypeOK, Halted, Stopped
  <2>1. CASE CallStep
    <3>1. PICK o \in {"get", "tryget", "timeget"}, ok \in BOOLEAN : Call(o, ok)
      <4>1. CASE CallGet
        BY <4>1 DEF CallGet
      <4>2. CASE CallTryget
        BY <4>2 DEF CallTryget
      <4>3. CASE CallTimeget
        <5>1. PICK nsec \in 0 .. NsPerSec - 1 : Call("timeget", nsec + GetWaitTime < NsPerSec)
          BY <4>3 DEF CallTimeget
        <5>2. (nsec + GetWaitTime < NsPerSec) \in BOOLEAN
          OBVIOUS
        <5> QED BY <5>1, <5>2, Zenon
      <4> QED BY <2>1, <4>1, <4>2, <4>3 DEF CallStep
    <3> QED BY <1>2, <2>0, <3>1, Numbers DEF Call, GetterTypeOK, Permits
  <2>2. CASE WaitStep
    <3>1. CASE SemTaken
      BY <1>2, <2>0, <3>1, Numbers DEF SemTaken, callVars, GetterTypeOK, Permits
    <3>2. CASE TrywaitAgain
      BY <1>2, <2>0, <3>2, Numbers DEF TrywaitAgain, GetterTypeOK, Permits
    <3>3. CASE TimedwaitExpires \/ TimedwaitInvalid \/ SemFails
      BY <1>2, <2>0, <3>3, Numbers DEF TimedwaitExpires, TimedwaitInvalid, SemFails, callVars,
                                       GetterTypeOK, Permits
    <3> QED BY <2>2, <3>1, <3>2, <3>3 DEF WaitStep
  <2>3. CASE Destroy \/ Free(Elenum)
    BY <1>2, <2>0, <2>3, Numbers DEF Destroy, Free, callVars, GetterTypeOK, Permits
  <2> QED BY <1>1, <2>1, <2>2, <2>3
<1>4. TypeOK'
  BY <1>1, <1>3 DEF IInv, TypeOK, RingTypeOK
<1>5. Counted' = Counted /\ InGet' = InGet
  BY <1>1, <1>3 DEF Counted, InGet
<1>6. /\ At(Owed)' = At(Owed) /\ At(Carry)' = At(Carry) /\ At(Finish)' = At(Finish)
      /\ At(InPut)' = At(InPut)
  BY <1>1 DEF At
<1>7. Balance' /\ Stored' = Stored
  <2>1. Stored = Permits + Cardinality(At(Owed)) /\ Stored' = Permits' + Cardinality(At(Owed))
    BY <1>1, StoredAt DEF Stored, Posting
  <2> QED BY <1>1, <1>2, <1>3, <1>6, <2>1 DEF Balance
<1>8. ControlFacts'
  <2>1. pcC' = "freed" => held = {} /\ At(InPut) = {}
    <3> SUFFICES ASSUME pcC' = "freed" PROVE held = {} /\ At(InPut) = {}
      OBVIOUS
    <3>1. Permits' = count'
      BY DEF Permits
    <3>2. /\ Cardinality(At(Owed)) = 0 /\ Cardinality(held) = 0
          /\ Cardinality(At(Carry)) = 0 /\ Cardinality(At(Finish)) = 0
      BY <1>2, <1>3, <3>1, Bounds, Numbers DEF IInv, Balance
    <3>3. At(Owed) = {} /\ held = {} /\ At(Carry) = {} /\ At(Finish) = {}
      BY <3>2, AtCount, HeldFinite DEF IInv, TypeOK, RingTypeOK
    <3> QED BY <3>3 DEF At, InPut, Owed, Carry, Finish
  <2> QED BY <1>1, <1>2, <1>3, <1>6, <2>1 DEF ControlFacts
<1>9. ASSUME ~lapped' PROVE Sound'
  <2>1. Sound
    BY <1>1, <1>9 DEF IInv
  <2>2. Ring(front, Stored, pcC', rear, rq, flags, pcP, idx)
    BY <1>3, <2>1, RingAnywhere DEF Sound
  <2> QED BY <1>1, <1>3, <1>5, <1>7, <2>1, <2>2 DEF Sound
<1>10. Carried'
  BY <1>1 DEF IInv, Carried, Carriers
<1> QED BY <1>1, <1>4, <1>5, <1>7, <1>8, <1>9, <1>10 DEF IInv

(* What a step that leaves the producers, the semaphore and the callers    *)
(* alone preserves.                                                        *)
LEMMA GetReadInv == ASSUME IInv, GetRead, ~Halted PROVE IInv'
<1>1. /\ pcC = "take" /\ pcC' = "clear" /\ temp' = rq[front]
      /\ UNCHANGED <<rear, rq, flags, pcP, idx, elem, held, lapped, front, crashed,
                     count, op, tries, deadlineOk, exit>>
  BY DEF GetRead, putVars, callVars
<1>2. /\ front \in Slots /\ rq \in [Slots -> Wrs \union {Nullptr}]
      /\ ~crashed /\ Balance
  BY DEF IInv, TypeOK, RingTypeOK, Halted
<1>3. TypeOK'
  BY <1>1, <1>2 DEF IInv, TypeOK, RingTypeOK, GetterTypeOK
<1>4. /\ At(Owed)' = At(Owed) /\ At(Carry)' = At(Carry) /\ At(Finish)' = At(Finish)
      /\ Permits' = Permits /\ Stored' = Stored /\ Stored > 0
  <2>1. /\ At(Owed)' = At(Owed) /\ At(Carry)' = At(Carry) /\ At(Finish)' = At(Finish)
        /\ Posting' = Posting
    BY <1>1 DEF At, Posting
  <2>2. Permits' = Permits
    BY <1>1 DEF Permits
  <2> QED BY <1>1, <1>2, <2>1, <2>2, Bounds DEF Stored, IInv
<1>5. Balance'
  BY <1>1, <1>2, <1>4 DEF Balance
<1>6. Apart(rq, elem, held, Counted, InGet)'
  <2>1. Counted = Slots /\ InGet = {} /\ Counted' = Slots \ {front} /\ InGet' = {rq[front]}
    BY <1>1 DEF Counted, InGet
  <2>2. Apart(rq, elem, held, Slots, {})
    BY <2>1 DEF IInv
  <2>3. Apart(rq, elem, held, Slots \ {front}, {rq[front]})
    BY <1>2, <2>2 DEF Apart
  <2> QED BY <1>1, <2>1, <2>3
<1>7. ControlFacts'
  BY <1>1 DEF IInv, ControlFacts, Halted, Stopped
<1>8. ASSUME ~lapped' PROVE Sound'
  <2>1. Sound
    BY <1>1, <1>8 DEF IInv
  <2>2. rq[front] \in Wrs
    <3>1. Dist(front, front, Rqnum) < Stored
      BY <1>2, <1>4, Numbers DEF Dist
    <3> QED BY <1>1, <1>2, <2>1, <3>1 DEF Sound, Ring
  <2>3. Ring(front, Stored, "clear", rear, rq, flags, pcP, idx)
    BY <1>1, <2>1, RingAnywhere DEF Sound
  <2>4. Somewhere(rq, elem, held, InGet)'
    BY <1>1, <2>1 DEF Sound, Somewhere, InGet
  <2> QED BY <1>1, <1>4, <2>1, <2>2, <2>3, <2>4 DEF Sound
<1>9. Carried'
  BY <1>1 DEF IInv, Carried, Carriers
<1> QED BY <1>3, <1>5, <1>6, <1>7, <1>8, <1>9 DEF IInv

LEMMA GetClearInv == ASSUME IInv, GetClear, ~Halted PROVE IInv'
<1>1. /\ pcC = "clear" /\ pcC' = "flag" /\ rq' = [rq EXCEPT ![front] = Nullptr]
      /\ UNCHANGED <<rear, flags, pcP, idx, elem, held, lapped, front, temp, crashed,
                     count, op, tries, deadlineOk, exit>>
  BY DEF GetClear, callVars, getVars
<1>2. /\ front \in Slots /\ rq \in [Slots -> Wrs \union {Nullptr}] /\ RingTypeOK
      /\ ~crashed /\ Balance
  BY DEF IInv, TypeOK, RingTypeOK, Halted
<1>3. rq'[front] = Nullptr /\ \A i \in Slots \ {front} : rq'[i] = rq[i]
  BY <1>1, <1>2
<1>4. TypeOK'
  BY <1>1 DEF IInv, TypeOK, RingTypeOK, GetterTypeOK
<1>5. /\ At(Owed)' = At(Owed) /\ At(Carry)' = At(Carry) /\ At(Finish)' = At(Finish)
      /\ Permits' = Permits /\ Stored' = Stored /\ Stored > 0
  <2>1. /\ At(Owed)' = At(Owed) /\ At(Carry)' = At(Carry) /\ At(Finish)' = At(Finish)
        /\ Posting' = Posting
    BY <1>1 DEF At, Posting
  <2>2. Permits' = Permits
    BY <1>1 DEF Permits
  <2> QED BY <1>1, <1>2, <2>1, <2>2, Bounds DEF Stored, IInv
<1>6. Balance'
  BY <1>1, <1>2, <1>5 DEF Balance
<1>7. Apart(rq, elem, held, Counted, InGet)'
  <2>1. Counted = Slots \ {front} /\ InGet = {temp} /\ Counted' = Slots /\ InGet' = {temp}
    BY <1>1 DEF Counted, InGet
  <2>2. Apart(rq, elem, held, Slots \ {front}, {temp})
    BY <2>1 DEF IInv
  <2>3. Apart(rq', elem, held, Slots, {temp})
    BY <1>3, <2>2, Numbers DEF Apart
  <2> QED BY <1>1, <2>1, <2>3
<1>8. ControlFacts'
  BY <1>1 DEF IInv, ControlFacts, Halted, Stopped
<1>9. ASSUME ~lapped' PROVE Sound'
  <2>1. Sound /\ temp \in Wrs /\ temp = rq[front]
    BY <1>1, <1>9 DEF IInv, Sound
  <2>2. Ring(front, Stored, "flag", rear, rq', flags, pcP, idx)
    BY <1>1, <1>2, <1>5, <2>1, ClearRing DEF Sound
  <2>3. Somewhere(rq, elem, held, InGet)'
    <3>1. InGet = {temp} /\ InGet' = {temp}
      BY <1>1 DEF InGet
    <3>2. Somewhere(rq', elem, held, {temp})
      BY <1>3, <2>1, <3>1 DEF Sound, Somewhere
    <3> QED BY <1>1, <3>1, <3>2
  <2> QED BY <1>1, <1>5, <2>1, <2>2, <2>3 DEF Sound
<1>10. Carried'
  BY <1>1 DEF IInv, Carried, Carriers
<1> QED BY <1>4, <1>6, <1>7, <1>8, <1>9, <1>10 DEF IInv

LEMMA GetReturnInv == ASSUME IInv, GetReturn, ~Halted PROVE IInv'
<1>1. /\ pcC = "flag" /\ pcC' = "idle" /\ front' = Succ(front, Rqnum)
      /\ flags' = [flags EXCEPT ![front] = FALSE]
      /\ held' = held \union ({temp} \ {Nullptr}) /\ temp' = Nullptr
      /\ UNCHANGED <<rear, rq, pcP, idx, elem, lapped, count, op, tries, deadlineOk, exit>>
  BY DEF GetReturn, Return, callVars
<1>2. /\ crashed' \in BOOLEAN
      /\ temp # Nullptr => ~crashed'
      /\ ~crashed' => temp # Nullptr
  BY Zenon DEF GetReturn
<1>3. /\ front \in Slots /\ front' \in Slots /\ rear \in Slots /\ RingTypeOK
      /\ temp \in Wrs \union {Nullptr} /\ held \in SUBSET Wrs
      /\ ~crashed /\ Balance
  BY <1>1, Numbers, SuccType DEF IInv, TypeOK, RingTypeOK, Halted
<1>4. TypeOK'
  <2>1. RingTypeOK'
    BY <1>1, <1>3 DEF RingTypeOK
  <2>2. GetterTypeOK(Elenum)'
    BY <1>1 DEF IInv, TypeOK, GetterTypeOK
  <2> QED BY <1>1, <1>2, <1>3, <2>1, <2>2 DEF TypeOK
<1>5. Apart(rq, elem, held, Slots, {temp})
  <2>1. Counted = Slots /\ InGet = {temp}
    BY <1>1 DEF Counted, InGet
  <2> QED BY <2>1 DEF IInv
<1>6. Apart(rq, elem, held, Counted, InGet)'
  <2>1. Counted' = Slots /\ InGet' = {}
    BY <1>1 DEF Counted, InGet
  <2>2. Apart(rq, elem, held', Slots, {})
    BY <1>1, <1>3, <1>5, Numbers DEF Apart
  <2> QED BY <1>1, <2>1, <2>2
<1>7. /\ At(Owed)' = At(Owed) /\ At(Carry)' = At(Carry) /\ At(Finish)' = At(Finish)
      /\ Permits' = Permits - 1 /\ Permits \in Int /\ Stored' = Stored - 1 /\ Stored > 0
  <2>1. /\ At(Owed)' = At(Owed) /\ At(Carry)' = At(Carry) /\ At(Finish)' = At(Finish)
        /\ Posting' = Posting
    BY <1>1 DEF At, Posting
  <2>2. /\ Permits = count + 1 /\ Permits \in 0 .. Elenum /\ Stored > 0
        /\ Cardinality(At(Owed)) \in Nat
    BY <1>1, <1>3, Bounds DEF IInv
  <2>3. Permits' = count
    BY <1>1 DEF Permits
  <2>4. Permits' = Permits - 1
    BY <2>2, <2>3, Numbers DEF IInv, TypeOK, GetterTypeOK
  <2>5. Stored' = Stored - 1
    BY <2>1, <2>2, <2>4, StoredAt, Numbers DEF Stored
  <2> QED BY <2>1, <2>2, <2>4, <2>5
<1>8. ASSUME ~crashed' PROVE Balance'
  <2>1. temp \in Wrs /\ held' = held \union {temp} /\ temp \notin held
    BY <1>1, <1>2, <1>3, <1>5, <1>8 DEF Apart
  <2>2. Cardinality(held') = Cardinality(held) + 1
    BY <1>3, <2>1, HeldFinite
  <2> QED BY <1>3, <1>4, <1>7, <2>2, Bounds DEF IInv, Balance
<1>9. ControlFacts'
  BY <1>1 DEF IInv, ControlFacts, Halted, Stopped
<1>10. ASSUME ~lapped' PROVE Sound'
  <2>1. Sound /\ temp \in Wrs /\ temp # Nullptr
    BY <1>1, <1>10, Numbers DEF IInv, Sound
  <2>2. Ring(front', Stored', pcC', rear, rq, flags', pcP, idx)
    BY <1>1, <1>3, <1>7, <2>1, LeaveRing DEF Sound
  <2>3. Somewhere(rq, elem, held, InGet)'
    <3>1. InGet = {temp} /\ InGet' = {}
      BY <1>1 DEF InGet
    <3>2. Somewhere(rq, elem, held', {})
      BY <1>1, <2>1, <3>1 DEF Sound, Somewhere
    <3> QED BY <1>1, <3>1, <3>2
  <2> QED BY <1>1, <1>2, <2>1, <2>2, <2>3 DEF Sound
<1>11. Carried'
  BY <1>1 DEF IInv, Carried, Carriers
<1> QED BY <1>4, <1>6, <1>8, <1>9, <1>10, <1>11 DEF IInv
-----------------------------------------------------------------------------
(* A producer's step within the ring. *)
LEMMA PutInv ==
    ASSUME IInv, NEW p \in Producers, ~Halted,
           PutCall(p) \/ PutStep(p) \/ PutPublish(p, "post"),
           UNCHANGED <<semVars, getVars>>
    PROVE  IInv'
<1>1. UNCHANGED <<front, temp, crashed, count, pcC, op, tries, deadlineOk, exit>>
  BY DEF getVars, semVars, callVars
<1>2. RingTypeOK /\ held \in SUBSET Wrs /\ ~crashed /\ Balance
  BY DEF IInv, TypeOK, RingTypeOK, Halted
<1>3. TypeOK'
  <2>1. RingTypeOK'
    BY <1>2, PutType
  <2> QED BY <1>1, <2>1 DEF IInv, TypeOK, GetterTypeOK
<1>4. Carried'
  BY <1>2, PutCarried DEF IInv
<1>5. Counted' = Counted /\ InGet' = InGet /\ Counted \in SUBSET Slots
  BY <1>1 DEF Counted, InGet
<1>6. Apart(rq, elem, held, Counted, InGet)'
  <2>1. Apart(rq', elem', held', Counted, InGet)
    BY <1>2, <1>5, PutApart DEF IInv
  <2> QED BY <1>5, <2>1
<1>7. ControlFacts'
  BY <1>1 DEF IInv, ControlFacts, Halted, Stopped
<1>8. Permits' = Permits
  BY <1>1 DEF Permits
<1>9. CASE PutCall(p) \/ PutStep(p)
  <2>1. /\ Balance' /\ Cardinality(At(Owed)') = Cardinality(At(Owed))
    <3>1. CASE PutCall(p)
      <4>1. PICK w \in held : held' = held \ {w}
        BY <3>1 DEF PutCall
      <4>2. Cardinality(held') = Cardinality(held) - 1
        BY <1>2, <4>1, HeldFinite
      <4>3. Goto(p, "cas") /\ pcP[p] = "idle"
        BY <3>1 DEF PutCall
      <4>4. /\ Cardinality(At(Carry)') = Cardinality(At(Carry)) - 0 + 1
            /\ Cardinality(At(Finish)') = Cardinality(At(Finish)) - 0 + 0
            /\ Cardinality(At(Owed)') = Cardinality(At(Owed)) - 0 + 0
        BY <1>2, <4>3, AtMove DEF Carry, Finish, Owed
      <4> QED BY <1>2, <1>8, <4>2, <4>4, Bounds DEF Balance, IInv
    <3>2. CASE PutStep(p) /\ ~PutStore(p)
      <4>1. pcP[p] \in Carry /\ (\E l \in Carry : Goto(p, l)) /\ held' = held
        BY <3>2 DEF PutStep, PutBusy, PutAgain, PutClaim, PutReload, PutStore, Carry
      <4>2. /\ Cardinality(At(Carry)') = Cardinality(At(Carry)) - 1 + 1
            /\ Cardinality(At(Finish)') = Cardinality(At(Finish)) - 0 + 0
            /\ Cardinality(At(Owed)') = Cardinality(At(Owed)) - 0 + 0
        BY <1>2, <4>1, AtMove DEF Carry, Finish, Owed
      <4> QED BY <1>2, <1>8, <4>1, <4>2, Bounds DEF Balance, IInv
    <3>3. CASE PutStore(p)
      <4>1. pcP[p] = "store" /\ Goto(p, "publish") /\ held' = held
        BY <3>3 DEF PutStore
      <4>2. /\ Cardinality(At(Carry)') = Cardinality(At(Carry)) - 1 + 0
            /\ Cardinality(At(Finish)') = Cardinality(At(Finish)) - 0 + 1
            /\ Cardinality(At(Owed)') = Cardinality(At(Owed)) - 0 + 0
        BY <1>2, <4>1, AtMove DEF Carry, Finish, Owed
      <4> QED BY <1>2, <1>8, <4>1, <4>2, Bounds DEF Balance, IInv
    <3> QED BY <1>9, <3>1, <3>2, <3>3
  <2>2. Stored' = Stored
    <3>1. Stored' = Permits' + Cardinality(At(Owed)')
      BY StoredAt DEF Stored, Posting, At, Owed
    <3> QED BY <1>8, <2>1, <3>1, StoredAt
  <2>3. ASSUME ~lapped' PROVE Sound'
    <3>1. Sound
      BY <1>9, <2>3, StaysLapped DEF IInv
    <3>2. pcP[p] = "store" => elem[p] \in Wrs
      BY DEF IInv, Carried, Carriers
    <3>3. Ring(front, Stored, pcC, rear', rq', flags', pcP', idx')
      BY <1>2, <1>9, <2>3, <3>1, <3>2, PutRing DEF Sound
    <3>4. Somewhere(rq', elem', held', InGet)
      BY <1>2, <1>9, <3>1, PutSomewhere DEF Sound, IInv
    <3>5. pcC = "clear" => rq'[front] = rq[front]
      <4>1. rq' = rq \/ rq' = [rq EXCEPT ![rear] = elem[p]]
        BY <1>2, <1>9, <3>1, OutPut DEF Sound
      <4>2. CASE rq' = rq
        BY <4>2
      <4>3. CASE PutStore(p)
        <5>1. p \in Claims(pcP) /\ pcP[p] = "store" /\ rq' = [rq EXCEPT ![idx[p]] = elem[p]]
          BY <4>3 DEF PutStore, Claims
        <5>2. idx[p] = rear /\ ~(Dist(front, rear, Rqnum) < Stored)
          BY <3>1, <5>1 DEF Sound, Ring
        <5>3. pcC = "clear" => Stored > 0
          BY <1>2, Bounds DEF IInv
        <5>4. pcC = "clear" => front # rear
          BY <5>2, <5>3, Numbers DEF Dist, IInv, TypeOK, RingTypeOK
        <5> QED BY <1>2, <5>1, <5>2, <5>4 DEF RingTypeOK, IInv, TypeOK
      <4>4. CASE ~PutStore(p)
        BY <1>9, <4>4 DEF PutCall, PutStep, PutBusy, PutAgain, PutClaim, PutReload
      <4> QED BY <4>3, <4>4
    <3> QED BY <1>1, <1>5, <2>2, <3>1, <3>3, <3>4, <3>5 DEF Sound
  <2> QED BY <1>3, <1>4, <1>6, <1>7, <2>1, <2>3 DEF IInv
<1>10. CASE PutPublish(p, "post")
  <2>1. pcP[p] = "publish" /\ Goto(p, "post") /\ UNCHANGED <<rq, elem, held, lapped>>
    BY <1>10 DEF PutPublish
  <2>2. /\ Cardinality(At(Carry)') = Cardinality(At(Carry)) - 0 + 0
        /\ Cardinality(At(Finish)') = Cardinality(At(Finish)) - 1 + 0
        /\ Cardinality(At(Owed)') = Cardinality(At(Owed)) - 0 + 1
    BY <1>2, <2>1, AtMove DEF Carry, Finish, Owed
  <2>3. Balance'
    BY <1>2, <1>8, <2>1, <2>2, Bounds DEF Balance, IInv
  <2>4. Stored' = Stored + 1 /\ Stored < Elenum
    <3>1. Stored' = Permits' + Cardinality(At(Owed)')
      BY StoredAt DEF Stored, Posting, At, Owed
    <3>2. Cardinality(At(Finish)) # 0
      BY <2>1, AtCount DEF At, Finish
    <3>3. Stored < Elenum
      BY <1>2, <3>2, StoredAt, Bounds, Numbers DEF IInv, Balance
    <3> QED BY <1>2, <1>8, <2>2, <3>1, <3>3, StoredAt, Bounds, Numbers DEF IInv
  <2>5. ASSUME ~lapped' PROVE Sound'
    <3>1. Sound
      BY <2>1, <2>5 DEF IInv
    <3>2. Ring(front, Stored + 1, pcC, rear', rq', flags', pcP', idx')
      BY <1>2, <1>10, <2>4, <3>1, PublishRing DEF Sound
    <3> QED BY <1>1, <1>5, <2>1, <2>4, <3>1, <3>2 DEF Sound
  <2> QED BY <1>3, <1>4, <1>6, <1>7, <2>3, <2>5 DEF IInv
<1> QED BY <1>9, <1>10

(* The post that ends a put turns a post to come into a permit. *)
LEMMA PostInv == ASSUME IInv, NEW p \in Producers, PutPost(p), ~Halted PROVE IInv'
<1>1. /\ pcP[p] = "post" /\ Goto(p, "idle") /\ count' = count + 1
      /\ UNCHANGED <<rear, rq, flags, idx, elem, held, lapped, front, temp, crashed,
                     pcC, op, tries, deadlineOk, exit>>
  BY DEF PutPost, Post, callVars, getVars
<1>2. RingTypeOK /\ ~crashed /\ Balance /\ count \in 0 .. Elenum
  BY DEF IInv, TypeOK, GetterTypeOK, Halted
<1>3. /\ Cardinality(At(Carry)') = Cardinality(At(Carry)) - 0 + 0
      /\ Cardinality(At(Finish)') = Cardinality(At(Finish)) - 0 + 0
      /\ Cardinality(At(Owed)') = Cardinality(At(Owed)) - 1 + 0
      /\ Cardinality(At(Owed)) # 0
  <2>1. Cardinality(At(Owed)) # 0
    BY <1>1, AtCount DEF At, Owed
  <2> QED BY <1>1, <1>2, <2>1, AtMove DEF Carry, Finish, Owed
<1>4. Permits' = Permits + 1
  BY <1>1, <1>2 DEF Permits
<1>5. Balance' /\ count' \in 0 .. Elenum
  <2>1. Balance'
    BY <1>1, <1>2, <1>3, <1>4, Bounds DEF IInv, Balance
  <2>2. Permits + 1 <= Elenum
    BY <1>2, <1>3, Bounds, Numbers DEF IInv, Balance
  <2>3. count <= Permits
    BY <1>2, Numbers DEF Permits
  <2> QED BY <1>1, <1>2, <2>1, <2>2, <2>3, Numbers, Bounds DEF IInv
<1>6. Stored' = Stored
  <2>1. Stored' = Permits' + Cardinality(At(Owed)')
    BY StoredAt DEF Stored, Posting, At, Owed
  <2> QED BY <1>2, <1>3, <1>4, <2>1, StoredAt, Bounds, Numbers DEF IInv
<1>7. TypeOK'
  <2>1. RingTypeOK'
    BY <1>1, <1>2 DEF RingTypeOK, Goto
  <2> QED BY <1>1, <1>5, <2>1 DEF IInv, TypeOK, GetterTypeOK
<1>8. Counted' = Counted /\ InGet' = InGet
  BY <1>1 DEF Counted, InGet
<1>9. pcC # "freed" /\ exit = "no"
  BY DEF Halted, Stopped
<1>10. ControlFacts'
  BY <1>1, <1>9 DEF IInv, ControlFacts
<1>11. Carried'
  BY <1>1, <1>2 DEF IInv, Carried, Carriers, RingTypeOK, Goto
<1>12. ASSUME ~lapped' PROVE Sound'
  <2>1. Sound
    BY <1>1, <1>12 DEF IInv
  <2>2. /\ Claims(pcP') = Claims(pcP)
        /\ \A q \in Claims(pcP) : pcP'[q] = pcP[q]
        /\ (\E q \in Producers : pcP'[q] = "publish") <=> (\E q \in Producers : pcP[q] = "publish")
    BY <1>1, <1>2 DEF Claims, RingTypeOK, Goto
  <2>3. Ring(front, Stored, pcC, rear, rq, flags, pcP', idx)
    BY <2>1, <2>2 DEF Sound, Ring
  <2> QED BY <1>1, <1>6, <1>8, <2>1, <2>3 DEF Sound
<1> QED BY <1>1, <1>5, <1>7, <1>8, <1>10, <1>11, <1>12 DEF IInv
-----------------------------------------------------------------------------
LEMMA StepInv == IInv /\ [Next]_vars => IInv'
<1> SUFFICES ASSUME IInv, [Next]_vars PROVE IInv'
  OBVIOUS
<1>1. CASE UNCHANGED vars
  <2>1. UNCHANGED <<rear, rq, flags, pcP, idx, elem, held, lapped, front, temp, crashed,
                    count, pcC, op, tries, deadlineOk, exit>>
    BY <1>1 DEF vars, putVars, getVars, semVars, callVars
  <2>2. /\ At(Owed)' = At(Owed) /\ At(Carry)' = At(Carry) /\ At(Finish)' = At(Finish)
        /\ At(InPut)' = At(InPut) /\ Posting' = Posting
        /\ Counted' = Counted /\ InGet' = InGet /\ Permits' = Permits
    BY <2>1 DEF At, Counted, InGet, Posting, Permits
  <2>3. Stored' = Stored
    BY <2>2 DEF Stored
  <2>4. TypeOK' /\ Carried'
    BY <2>1 DEF IInv, TypeOK, RingTypeOK, GetterTypeOK, Carried, Carriers
  <2> QED BY <2>1, <2>2, <2>3, <2>4 DEF IInv, ControlFacts, Sound, Balance
<1>2. ASSUME ~Halted, Consumer PROVE IInv'
  BY <1>2, WaitInv, GetReadInv, GetClearInv, GetReturnInv DEF Consumer, Getter
<1>3. ASSUME ~Halted, NEW p \in Producers, BeginPut(p) \/ Advance(p) PROVE IInv'
  BY <1>3, PutInv, PostInv DEF BeginPut, Advance
<1> QED BY <1>1, <1>2, <1>3 DEF Next

THEOREM Invariance == Spec => []IInv
BY InitInv, StepInv, PTL DEF Spec
-----------------------------------------------------------------------------
LEMMA DisjointUnion ==
    ASSUME NEW S, NEW T, IsFiniteSet(S), IsFiniteSet(T), S \intersect T = {}
    PROVE  /\ IsFiniteSet(S \union T)
           /\ Cardinality(S \union T) = Cardinality(S) + Cardinality(T)
<1>1. /\ IsFiniteSet(S \union T)
      /\ Cardinality(S \union T) = Cardinality(S) + Cardinality(T) - Cardinality(S \intersect T)
  BY FS_Union
<1>2. Cardinality(S \intersect T) = 0 /\ Cardinality(S) \in Nat /\ Cardinality(T) \in Nat
  BY FS_EmptySet, FS_CardinalityType
<1> QED BY <1>1, <1>2

(* No work request is ever in two places, lapped producers or not          *)
(* (mem_pool.hpp:547-620).                                                 *)
THEOREM NeverAliased == Spec => []NoAlias
<1>1. IInv => NoAlias
  <2> SUFFICES ASSUME IInv, NEW w \in Wrs PROVE Cardinality(OwnersNow(w)) <= 1
    BY DEF NoAlias
  <2>1. OwnersNow(w) = Owners(w, Counted, InGet)
    BY DEF OwnersNow, Counted, InGet
  <2> QED BY <2>1, OneOwner DEF IInv
<1> QED BY <1>1, Invariance, PTL

(* Until a producer is lapped, puts are serialised, flags, permits and     *)
(* ring agree, no work request disappears and no getter with a permit      *)
(* finds a null pointer (mem_pool.hpp:547-620).                            *)
THEOREM Soundness == Spec => []RingSound
<1>1. IInv => RingSound
  <2> SUFFICES ASSUME IInv, ~lapped PROVE RingSound
    BY DEF RingSound
  <2>s. Sound
    BY DEF IInv
  <2>c. Claimants = Claims(pcP)
    BY DEF Claimants, Claims
  <2>f. rear \in Slots
    BY DEF IInv, TypeOK, RingTypeOK
  <2>1. ClaimExclusive
    BY <2>s, <2>c, <2>f DEF ClaimExclusive, Sound, Ring
  <2>2. \A i \in Slots : InRing(i) <=> flags[i] /\ ~(i = rear /\ Claimants # {})
    BY <2>s, <2>c DEF Sound, Ring, InRing
  <2>3. ASSUME NEW w \in Wrs PROVE OwnersNow(w) # {}
    <3>1. OwnersNow(w) = Owners(w, Counted, InGet)
      BY DEF OwnersNow, Counted, InGet
    <3>2. \A i \in Slots : i \in Counted \/ rq[i] \in InGet
      BY <2>s DEF Counted, InGet, Sound
    <3> QED BY <2>s, <3>1, <3>2, SomeOwner DEF Sound
  <2>4. ~crashed /\ rear = Ahead(front, Stored, Rqnum)
    BY <2>s DEF Sound, Ring
  <2> QED BY <2>1, <2>2, <2>3, <2>4 DEF RingSound
<1> QED BY <1>1, Invariance, PTL

(* The semaphore counts what is in the ring and still to be posted, lapped *)
(* producers or not; so the destructor waits for the last put (477) and    *)
(* the process ends with "too small" only when the pool has run dry.       *)
THEOREM Accounting == Spec => []PermitsAddUp
<1>1. IInv => PermitsAddUp
  <2> SUFFICES ASSUME IInv PROVE PermitsAddUp
    OBVIOUS
  <2>1. /\ Carriers = At(Carry) /\ {p \in Producers : pcP[p] = "publish"} = At(Finish)
        /\ {p \in Producers : pcP[p] # "idle"} = At(InPut)
    BY DEF Carriers, At, Carry, Finish, InPut, IInv, TypeOK, RingTypeOK
  <2>2. ASSUME ~crashed
        PROVE  Stored + Cardinality(held) + Cardinality(Carriers)
                  + Cardinality({p \in Producers : pcP[p] = "publish"}) = Elenum
    BY <2>1, <2>2, StoredAt DEF IInv, Balance
  <2>3. ASSUME pcC = "freed" PROVE held = {} /\ \A p \in Producers : pcP[p] = "idle"
    BY <2>1, <2>3 DEF IInv, ControlFacts
  <2>4. ASSUME exit = "too_small"
        PROVE  Cardinality(held) + Cardinality({p \in Producers : pcP[p] # "idle"}) = Elenum
    <3>1. count = 0 /\ pcC = "wait" /\ Permits = 0 /\ ~crashed
      BY <2>4 DEF IInv, ControlFacts, Permits
    <3>2. Balance
      BY <3>1 DEF IInv
    <3>3. /\ Cardinality(At(Owed)) \in Nat /\ Cardinality(held) \in Nat
          /\ Cardinality(At(Carry)) \in Nat /\ Cardinality(At(Finish)) \in Nat
          /\ IsFiniteSet(At(Owed)) /\ IsFiniteSet(At(Carry)) /\ IsFiniteSet(At(Finish))
      BY <3>2, Bounds, AtCount DEF IInv
    <3>4. /\ At(Carry) \intersect At(Finish) = {}
          /\ (At(Carry) \union At(Finish)) \intersect At(Owed) = {}
          /\ At(InPut) = (At(Carry) \union At(Finish)) \union At(Owed)
      BY DEF At, Carry, Finish, Owed, InPut
    <3>5. /\ IsFiniteSet(At(Carry) \union At(Finish))
          /\ Cardinality(At(Carry) \union At(Finish))
                 = Cardinality(At(Carry)) + Cardinality(At(Finish))
      BY <3>3, <3>4, DisjointUnion
    <3>6. Cardinality(At(InPut))
             = Cardinality(At(Carry)) + Cardinality(At(Finish)) + Cardinality(At(Owed))
      BY <3>3, <3>4, <3>5, DisjointUnion
    <3>7. Cardinality(At(Owed)) + Cardinality(held)
             + Cardinality(At(Carry)) + Cardinality(At(Finish)) = Elenum
      BY <3>1, <3>2, <3>3, Numbers DEF Balance
    <3>8. Cardinality(held) + Cardinality(At(InPut)) = Elenum
      BY <3>3, <3>6, <3>7
    <3> QED BY <2>1, <3>8, Zenon
  <2> QED BY <2>2, <2>3, <2>4 DEF PermitsAddUp
<1> QED BY <1>1, Invariance, PTL
-----------------------------------------------------------------------------
(* The free list is the segment of Stored slots from __front on. *)
Contents == [i \in Slots |-> Content(i)]
FreeSegment == Segment(Contents, front, Stored, Rqnum)

FreeShape == /\ front \in 0 .. Rqnum - 1 /\ rear \in 0 .. Rqnum - 1 /\ Slots = 0 .. Rqnum - 1
             /\ Stored \in 0 .. Rqnum /\ rear = Ahead(front, Stored, Rqnum)
             /\ pcC = "flag" => Stored > 0
             /\ \A i \in 0 .. Rqnum - 1 : Dist(front, i, Rqnum) < Stored => Contents[i] \in Wrs
             /\ FreeList = FreeSegment

LEMMA FreeFacts == IInv /\ Sound => FreeShape
<1> SUFFICES ASSUME IInv, Sound PROVE FreeShape
  OBVIOUS
<1>1. /\ front \in 0 .. Rqnum - 1 /\ rear \in 0 .. Rqnum - 1 /\ Slots = 0 .. Rqnum - 1
      /\ Stored \in 0 .. Rqnum /\ rear = Ahead(front, Stored, Rqnum)
      /\ pcC = "flag" => Stored > 0
  BY Numbers, Bounds DEF IInv, TypeOK, RingTypeOK, Sound, Ring
<1>2. \A i \in 0 .. Rqnum - 1 : Dist(front, i, Rqnum) < Stored => Contents[i] \in Wrs
  BY <1>1 DEF Sound, Ring, Contents, Content
<1>3. FreeList = FreeSegment
  <2>1. ASSUME NEW j \in 1 .. Stored PROVE Ahead(front, j - 1, Rqnum) \in Slots
    BY <1>1, Numbers DEF Ahead
  <2> QED BY <2>1 DEF FreeList, FreeSegment, Segment, Contents
<1> QED BY <1>1, <1>2, <1>3 DEF FreeShape

LEMMA FreeFactsNext == IInv' /\ Sound' => FreeShape'
BY FreeFacts, PTL

LEMMA InitRefines == Init => Fifo!FifoInit
<1> SUFFICES ASSUME Init PROVE Fifo!FifoInit
  OBVIOUS
<1>1. /\ front = 0 /\ pcC = "idle" /\ held = {} /\ Stored = Elenum
      /\ Carriers = {} /\ {p \in Producers : pcP[p] = "publish"} = {}
  <2>1. /\ front = 0 /\ pcC = "idle" /\ held = {} /\ count = Elenum
        /\ \A p \in Producers : pcP[p] = "idle"
    BY DEF Init, RingInit, GetterInit
  <2>2. At(Owed) = {} /\ Permits = Elenum
    BY <2>1 DEF At, Owed, Permits
  <2> QED BY <2>1, <2>2, StoredAt, FS_EmptySet, Numbers DEF Carriers
<1>2. Out = {}
  BY <1>1 DEF Out
<1>3. DOMAIN FreeList = {w + 1 : w \in Wrs}
  <2>1. DOMAIN FreeList = 1 .. Elenum
    BY <1>1 DEF FreeList
  <2>2. ASSUME NEW x PROVE x \in 1 .. Elenum <=> x \in {w + 1 : w \in Wrs}
    <3>1. ASSUME x \in 1 .. Elenum PROVE x \in {w + 1 : w \in Wrs}
      <4>1. x - 1 \in Wrs /\ x = (x - 1) + 1
        BY <3>1, Numbers DEF Wrs
      <4> QED BY <4>1
    <3> QED BY <3>1, Numbers DEF Wrs
  <2> QED BY <2>1, <2>2
<1>4. ASSUME NEW w \in Wrs PROVE FreeList[w + 1] = w
  <2>1. w \in 0 .. Elenum - 1 /\ w + 1 \in 1 .. Stored /\ (w + 1) - 1 = w
    BY <1>1, Numbers DEF Wrs
  <2>2. Ahead(front, w, Rqnum) = w
    BY <1>1, <2>1, Numbers DEF Ahead
  <2>3. Content(w) = w
    BY <1>1, <2>1, Numbers DEF Content, Init, RingInit
  <2> QED BY <2>1, <2>2, <2>3 DEF FreeList
<1> QED BY <1>2, <1>3, <1>4 DEF Fifo!FifoInit

(* Steps that change neither the contents of the segment nor what is out. *)
LEMMA Stutters ==
    ASSUME FreeShape, UNCHANGED front, Stored' = Stored, Out' = Out,
           \A i \in Slots : Dist(front, i, Rqnum) < Stored => Content(i)' = Content(i)
    PROVE  UNCHANGED Fifo!fifoVars
<1>1. ASSUME NEW j \in 1 .. Stored
      PROVE  Content(Ahead(front, j - 1, Rqnum))' = Content(Ahead(front, j - 1, Rqnum))
  <2> DEFINE a == Ahead(front, j - 1, Rqnum)
  <2>1. j - 1 \in 0 .. Rqnum - 1 /\ j - 1 < Stored
    BY Numbers DEF FreeShape
  <2>2. a \in Slots
    BY <2>1, Numbers DEF FreeShape, Ahead
  <2>3. Dist(front, a, Rqnum) = j - 1
    BY <2>1, <2>2, Numbers, DistAhead DEF FreeShape
  <2>4. Content(a)' = Content(a)
    BY <2>1, <2>2, <2>3
  <2> QED BY <2>4
<1>2. FreeList' = FreeList
  BY <1>1 DEF FreeList
<1> QED BY <1>2 DEF Fifo!fifoVars

(* Everything but GetReturn leaves the free list as it is.                 *)
LEMMA OtherRefines ==
    ASSUME IInv, Sound, ~Halted,
           \/ BeginGet \/ WaitPermit \/ BeginDestroy \/ FreeArrays \/ GetRead \/ GetClear
           \/ \E p \in Producers : PutPost(p)
    PROVE  UNCHANGED Fifo!fifoVars
<1>1. FreeShape /\ Balance
  BY FreeFacts DEF IInv, Halted
<1>2. UNCHANGED <<rear, elem, held, front>>
  BY DEF BeginGet, WaitPermit, BeginDestroy, FreeArrays, GetRead, GetClear, PutPost, putVars, getVars
<1>3. /\ Carriers' = Carriers
      /\ {p \in Producers : pcP[p] = "publish"}' = {p \in Producers : pcP[p] = "publish"}
  <2>1. CASE \E p \in Producers : PutPost(p)
    BY <2>1 DEF PutPost, Goto, Carriers, IInv, TypeOK, RingTypeOK
  <2>2. CASE pcP' = pcP
    BY <2>2 DEF Carriers
  <2> QED BY <2>1, <2>2 DEF BeginGet, WaitPermit, BeginDestroy, FreeArrays, GetRead, GetClear, putVars
<1>4. Stored' = Stored
  <2>1. CASE \E p \in Producers : PutPost(p)
    <3>1. PICK p \in Producers : PutPost(p)
      BY <2>1
    <3>2. Cardinality(At(Owed)') = Cardinality(At(Owed)) - 1 + 0
      BY <3>1, AtMove DEF PutPost, Owed, IInv, TypeOK
    <3>3. Permits' = Permits + 1
      BY <3>1 DEF PutPost, Post, Permits, IInv, TypeOK, GetterTypeOK
    <3>4. Stored' = Permits' + Cardinality(At(Owed)')
      BY StoredAt DEF Stored, Posting, At, Owed
    <3> QED BY <1>1, <3>2, <3>3, <3>4, StoredAt, Bounds, Numbers DEF IInv
  <2>2. CASE ~\E p \in Producers : PutPost(p)
    <3>1. Permits' = Permits
      <4>1. GetterTypeOK(Elenum)
        BY DEF IInv, TypeOK
      <4>2. CASE BeginGet
        BY <4>2 DEF BeginGet, CallStep, CallGet, CallTryget, CallTimeget, Call, Permits
      <4>3. CASE WaitPermit
        BY <4>1, <4>3 DEF WaitPermit, WaitStep, SemTaken, TrywaitAgain, TimedwaitExpires,
                          TimedwaitInvalid, SemFails, Permits, GetterTypeOK
      <4>4. CASE BeginDestroy \/ FreeArrays \/ GetRead \/ GetClear
        BY <4>4 DEF BeginDestroy, FreeArrays, Destroy, Free, GetRead, GetClear, Permits
      <4> QED BY <2>2, <4>2, <4>3, <4>4
    <3>2. Posting' = Posting
      BY <2>2 DEF BeginGet, WaitPermit, BeginDestroy, FreeArrays, GetRead, GetClear, putVars, Posting
    <3> QED BY <3>1, <3>2 DEF Stored
  <2> QED BY <2>1, <2>2
<1>5. CASE GetClear
  <2>1. /\ pcC = "clear" /\ pcC' = "flag" /\ temp' = temp
        /\ rq' = [rq EXCEPT ![front] = Nullptr]
    BY <1>5 DEF GetClear, getVars
  <2>2. temp = rq[front] /\ Stored > 0
    BY <1>1, <2>1, Bounds DEF Sound, IInv
  <2>3. \A i \in Slots \ {front} : rq'[i] = rq[i]
    BY <2>1 DEF IInv, TypeOK, RingTypeOK
  <2>4. \A i \in Slots : Content(i)' = Content(i)
    BY <1>2, <2>1, <2>2, <2>3 DEF Content
  <2>5. (\E p \in Producers : pcP[p] = "publish") => rear # front
    <3>1. (\E p \in Producers : pcP[p] = "publish") => ~(Dist(front, rear, Rqnum) < Stored)
      BY DEF Sound, Ring, Claims
    <3> QED BY <1>1, <2>2, <3>1, Numbers DEF FreeShape, Dist
  <2>6. (\E p \in Producers : pcP[p] = "publish") => rq'[rear] = rq[rear]
    BY <1>1, <2>3, <2>5 DEF FreeShape
  <2>7. Out' = Out
    BY <1>2, <1>3, <2>6 DEF Out
  <2> QED BY <1>1, <1>2, <1>4, <2>4, <2>7, Stutters
<1>6. CASE ~GetClear
  <2>1. rq' = rq
    BY <1>6 DEF BeginGet, WaitPermit, BeginDestroy, FreeArrays, GetRead, PutPost, putVars
  <2>2. Out' = Out
    BY <1>2, <1>3, <2>1 DEF Out
  <2>3. (pcC = "flag" <=> pcC' = "flag") /\ (pcC = "flag" => temp' = temp)
    <3>1. CASE BeginGet \/ WaitPermit
      BY <3>1 DEF BeginGet, CallStep, CallGet, CallTryget, CallTimeget, Call,
                  WaitPermit, WaitStep, SemTaken, TrywaitAgain, TimedwaitExpires, TimedwaitInvalid,
                  SemFails
    <3>2. CASE BeginDestroy \/ FreeArrays \/ GetRead
      BY <3>2 DEF BeginDestroy, Destroy, FreeArrays, Free, GetRead
    <3>3. CASE \E p \in Producers : PutPost(p)
      BY <3>3 DEF PutPost, Post, getVars
    <3> QED BY <1>6, <3>1, <3>2, <3>3
  <2>4. \A i \in Slots : Content(i)' = Content(i)
    BY <1>2, <2>1, <2>3 DEF Content
  <2> QED BY <1>1, <1>2, <1>4, <2>2, <2>4, Stutters
<1> QED BY <1>5, <1>6

(* A get takes effect when it returns. *)
LEMMA GetRefines == ASSUME IInv, IInv', Sound, Sound', GetReturn PROVE Fifo!FifoGet
<1>1. FreeShape /\ FreeShape'
  BY FreeFacts, FreeFactsNext
<1>2. /\ pcC = "flag" /\ pcC' = "idle" /\ front' = Succ(front, Rqnum)
      /\ held' = held \union ({temp} \ {Nullptr})
      /\ UNCHANGED <<rear, rq, elem, pcP, count>>
  BY DEF GetReturn, Return
<1>3. temp \in Wrs /\ held' = held \union {temp} /\ Contents[front] = temp /\ Stored \in 1 .. Rqnum
  BY <1>1, <1>2, Numbers DEF Sound, Contents, Content, FreeShape
<1>4. Stored' = Stored - 1
  <2>1. Permits' = Permits - 1 /\ Permits \in Int
    BY <1>2, Numbers DEF Permits, IInv, TypeOK, GetterTypeOK
  <2>2. Posting' = Posting /\ Cardinality(Posting) \in Nat
    BY <1>2, StoredAt, AtCount DEF Posting
  <2> QED BY <2>1, <2>2 DEF Stored
<1>5. \A i \in 0 .. Rqnum - 1 : i # front => Contents'[i] = Contents[i]
  BY <1>1, <1>2 DEF Contents, Content, FreeShape
<1>6. FreeList # <<>> /\ Head(FreeList) = temp /\ FreeList' = Tail(FreeList)
  <2>1. /\ \A i \in 0 .. Rqnum - 1 : Dist(front, i, Rqnum) < Stored => Contents[i] \in Wrs
        /\ FreeList = FreeSegment
        /\ FreeList' = Segment(Contents', front', Stored', Rqnum)
    BY <1>1 DEF FreeShape, FreeSegment
  <2>2. \A i \in 0 .. Rqnum - 1 :
            i # front /\ Dist(front, i, Rqnum) < Stored => Contents'[i] = Contents[i]
    BY <1>5
  <2>3. ASSUME NEW d, \A i \in 0 .. Rqnum - 1 :
                          i # front /\ Dist(front, i, Rqnum) < Stored => d[i] = Contents[i]
        PROVE  /\ Segment(Contents, front, Stored, Rqnum) # <<>>
               /\ Head(Segment(Contents, front, Stored, Rqnum)) = Contents[front]
               /\ Segment(d, Succ(front, Rqnum), Stored - 1, Rqnum)
                      = Tail(Segment(Contents, front, Stored, Rqnum))
    <3>1. Rqnum \in Nat \ {0} /\ front \in 0 .. Rqnum - 1
      BY <1>1, Numbers DEF FreeShape
    <3> QED BY <1>3, <2>1, <2>3, <3>1, SegmentPop, Zenon
  <2> QED BY <1>2, <1>3, <1>4, <2>1, <2>2, <2>3 DEF FreeSegment
<1>7. Out' = Out \union {temp}
  <2>1. Carriers' = Carriers
    BY <1>2 DEF Carriers
  <2> QED BY <1>2, <1>3, <2>1 DEF Out
<1> QED BY <1>6, <1>7 DEF Fifo!FifoGet

(* A put takes effect when it publishes. *)
LEMMA PutRefines ==
    ASSUME IInv, IInv', Sound, NEW p \in Producers, ~lapped' => Sound', ~lapped,
           PutCall(p) \/ PutStep(p) \/ PutPublish(p, "post"), UNCHANGED <<semVars, getVars>>, ~Halted
    PROVE  [Fifo!FifoNext]_(Fifo!fifoVars)
<1>1. /\ RingTypeOK /\ UNCHANGED <<front, pcC, temp, count>> /\ FreeShape
      /\ Balance /\ Permits' = Permits /\ Permits \in Int
      /\ Stored' = Permits' + Cardinality(At(Owed)')
  <2>1. Stored' = Permits' + Cardinality(At(Owed)')
    BY StoredAt DEF Stored, Posting, At, Owed
  <2>2. UNCHANGED <<front, pcC, temp, count>> /\ RingTypeOK /\ Balance
    BY DEF IInv, TypeOK, Halted, semVars, getVars
  <2> QED BY <2>1, <2>2, FreeFacts, Bounds DEF IInv, Permits
<1>2. CASE PutCall(p) \/ PutStep(p)
  <2>1. Stored' = Stored
    <3>1. PICK l : Goto(p, l) /\ pcP[p] \notin Owed /\ l \notin Owed
      BY <1>2 DEF PutCall, PutStep, PutBusy, PutAgain, PutClaim, PutReload, PutStore, Owed
    <3>2. Cardinality(At(Owed)') = Cardinality(At(Owed)) - 0 + 0
      BY <1>1, <3>1, AtMove
    <3> QED BY <1>1, <3>2, AtCount, StoredAt
  <2>2. /\ Out' = Out
        /\ \/ rq' = rq
           \/ rq' = [rq EXCEPT ![rear] = elem[p]] /\ ~(Dist(front, rear, Rqnum) < Stored)
    BY <1>1, <1>2, OutPut DEF Sound
  <2>3. \A i \in Slots : Dist(front, i, Rqnum) < Stored => rq'[i] = rq[i]
    BY <1>1, <2>2 DEF RingTypeOK
  <2>4. \A i \in Slots : Dist(front, i, Rqnum) < Stored => Content(i)' = Content(i)
    BY <1>1, <2>3 DEF Content
  <2> QED BY <1>1, <2>1, <2>2, <2>4, Stutters
<1>3. CASE PutPublish(p, "post")
  <2> DEFINE w == rq[rear]
  <2>0. pcP[p] = "publish" /\ Goto(p, "post") /\ lapped' = lapped /\ p \in Claims(pcP)
    BY <1>3 DEF PutPublish, Claims
  <2>s. Sound' /\ FreeShape'
    BY <2>0, FreeFactsNext
  <2>1. rear \in Counted /\ rear \in Slots /\ (pcC \in {"clear", "flag"} => front # rear)
    <3>1. ~(Dist(front, rear, Rqnum) < Stored)
      BY <2>0 DEF Sound, Ring
    <3>2. pcC \in {"clear", "flag"} => Stored > 0
      BY <1>1, Bounds DEF IInv
    <3>3. pcC \in {"clear", "flag"} => front # rear
      BY <1>1, <3>1, <3>2, Numbers DEF Dist, FreeShape
    <3> QED BY <1>1, <3>3 DEF Counted, FreeShape
  <2>2. Out' = Out \ {w} /\ w \in Out /\ w \in Wrs /\ rq' = rq
    BY <1>1, <1>3, <2>1, OutPublish DEF IInv, Sound
  <2>3. Stored' = Stored + 1 /\ Stored \in 0 .. Rqnum - 1
    <3>1. Cardinality(At(Owed)') = Cardinality(At(Owed)) - 0 + 1
      BY <1>1, <2>0, AtMove DEF Owed
    <3>2. Stored' = Stored + 1
      BY <1>1, <3>1, AtCount, StoredAt
    <3> QED BY <1>1, <2>s, <3>2, Numbers DEF FreeShape
  <2>4. Contents' = Contents
    BY <1>1, <2>2 DEF Contents, Content
  <2>5. Contents[rear] = w
    BY <2>1 DEF Contents, Content
  <2>6. FreeList' = Append(FreeList, w)
    <3> HIDE DEF w
    <3>1. Ahead(front, Stored, Rqnum) = rear /\ front \in 0 .. Rqnum - 1
      BY <1>1 DEF FreeShape
    <3>2. \A i \in 0 .. Rqnum - 1 : Dist(front, i, Rqnum) < Stored + 1 => Contents[i] \in Wrs
      BY <1>1, <2>s, <2>3, <2>4 DEF FreeShape, Wrs
    <3>3. Segment(Contents, front, Stored + 1, Rqnum)
             = Append(Segment(Contents, front, Stored, Rqnum), Contents[Ahead(front, Stored, Rqnum)])
      BY <2>3, <3>1, <3>2, Numbers, SegmentAppend
    <3>4. FreeList' = Segment(Contents, front, Stored + 1, Rqnum)
      BY <1>1, <2>s, <2>3, <2>4 DEF FreeShape, FreeSegment
    <3> QED BY <1>1, <2>5, <3>1, <3>3, <3>4 DEF FreeShape, FreeSegment
  <2> QED BY <2>2, <2>6 DEF Fifo!FifoNext, Fifo!FifoPut
<1> QED BY <1>2, <1>3

LEMMA StepRefines ==
    IInv /\ IInv' /\ [Next]_vars => [Fifo!FifoNext \/ lapped]_(Fifo!fifoVars)
<1> SUFFICES ASSUME IInv, IInv', [Next]_vars, ~lapped
             PROVE  [Fifo!FifoNext]_(Fifo!fifoVars)
  OBVIOUS
<1>0. Sound /\ (~lapped' => Sound')
  BY DEF IInv
<1>1. CASE UNCHANGED vars
  <2>1. UNCHANGED <<rear, rq, pcP, elem, held, front, pcC, temp, count>>
    BY <1>1 DEF vars, putVars, getVars, semVars
  <2>2. /\ Carriers' = Carriers /\ Posting' = Posting /\ Permits' = Permits
        /\ \A i : Content(i)' = Content(i)
    BY <2>1 DEF Carriers, Posting, Permits, Content
  <2>3. FreeList' = FreeList
    BY <2>1, <2>2 DEF FreeList, Stored
  <2>4. Out' = Out
    BY <2>1, <2>2 DEF Out
  <2> QED BY <2>3, <2>4 DEF Fifo!fifoVars
<1>2. ASSUME ~Halted, Consumer PROVE [Fifo!FifoNext]_(Fifo!fifoVars)
  <2>1. CASE GetReturn
    <3>1. lapped' = lapped
      BY <2>1 DEF GetReturn
    <3> QED BY <1>0, <2>1, <3>1, GetRefines DEF Fifo!FifoNext
  <2>2. CASE ~GetReturn
    BY <1>0, <1>2, <2>2, OtherRefines DEF Consumer, Getter
  <2> QED BY <2>1, <2>2
<1>3. ASSUME ~Halted, NEW p \in Producers, BeginPut(p) \/ Advance(p)
      PROVE  [Fifo!FifoNext]_(Fifo!fifoVars)
  BY <1>0, <1>3, PutRefines, OtherRefines DEF BeginPut, Advance
<1> QED BY <1>1, <1>2, <1>3 DEF Next

(* Until a producer is lapped, the pool is the FIFO pool                   *)
(* (mem_pool.hpp:547-620).                                                 *)
THEOREM Implements == Spec => ImplementsFifo
<1>1. IInv /\ IInv' /\ [Next]_vars => [Fifo!FifoNext \/ lapped]_(Fifo!fifoVars)
  BY StepRefines
<1> QED
  BY Invariance, InitRefines, <1>1, PTL DEF Spec, ImplementsFifo
-----------------------------------------------------------------------------
(* Until a producer is lapped a put spins only for a reason that passes:   *)
(* __rear has moved, or another put is about to move it.  There is no      *)
(* empty slot to tell a full ring by; the work request that put brings is  *)
(* the one that is missing (mem_pool.hpp:606-620).                         *)
THEOREM NeverSpinsInVain == Spec => [](~lapped => SpinsBehind)
<1>1. IInv => (~lapped => SpinsBehind)
  <2> SUFFICES ASSUME IInv, ~lapped, NEW p \in Producers, pcP[p] = "cas", flags[idx[p]],
                      idx[p] = rear
               PROVE  Claimants # {}
    BY DEF SpinsBehind
  <2>1. Sound /\ Balance /\ TypeOK
    BY DEF IInv, Sound
  <2>2. At(Carry) # {}
    BY DEF At, Carry
  <2>3. Cardinality(At(Carry)) > 0 /\ Cardinality(At(Carry)) \in Nat
    BY <2>2, AtCount
  <2>4. Stored \in Nat /\ Stored < Rqnum
    BY <2>1, <2>3, Bounds, StoredAt, AtCount, Numbers DEF Balance
  <2>5. front \in Slots /\ rear \in Slots /\ rear = Ahead(front, Stored, Rqnum)
    BY <2>1 DEF TypeOK, RingTypeOK, Sound, Ring
  <2>6. Dist(front, rear, Rqnum) = Stored
    BY <2>4, <2>5, Numbers DEF Dist, Ahead
  <2>7. flags[rear] <=> (Stored < Stored \/ (rear = rear /\ Claims(pcP) # {}))
    BY <2>1, <2>5, <2>6 DEF Sound, Ring
  <2>8. Claimants = Claims(pcP)
    BY DEF Claimants, Claims
  <2> QED BY <2>4, <2>7, <2>8
<1> QED BY <1>1, Invariance, PTL

(* If one thread alone calls put nobody is ever lapped: the theorems above *)
(* then hold without condition, and no getter ever writes through a null   *)
(* pointer (mem_pool.hpp:547-620).                                         *)
THEOREM NeverLapped == Spec => [](Alone => ~lapped /\ ~crashed)
<1>1. Init => Unlapped
  BY UnlappedInit DEF Init
<1>2. IInv /\ Unlapped /\ [Next]_vars => Unlapped'
  <2> SUFFICES ASSUME IInv, Unlapped, [Next]_vars PROVE Unlapped'
    OBVIOUS
  <2>1. CASE UNCHANGED vars
    BY <2>1, UnlappedKept DEF vars, putVars
  <2>2. CASE Consumer
    BY <2>2, UnlappedKept DEF Consumer, Getter, BeginGet, WaitPermit, GetRead, GetClear,
       GetReturn, BeginDestroy, FreeArrays, putVars
  <2>3. ASSUME NEW p \in Producers, BeginPut(p) PROVE Unlapped'
    BY <2>3, UnlappedPut DEF IInv, TypeOK, BeginPut
  <2>4. ASSUME NEW p \in Producers, Advance(p) PROVE Unlapped'
    <3>1. CASE PutPost(p)
      BY <3>1 DEF PutPost, Goto, Unlapped, Alone, IInv, TypeOK, RingTypeOK
    <3> QED BY <2>4, <3>1, UnlappedPut DEF IInv, TypeOK, Advance
  <2> QED BY <2>1, <2>2, <2>3, <2>4 DEF Next
<1>3. IInv /\ Unlapped => (Alone => ~lapped /\ ~crashed)
  BY DEF Unlapped, IInv, Sound
<1> QED BY Invariance, <1>1, <1>2, <1>3, PTL DEF Spec

(* With one producer the pool is the FIFO pool, from beginning to end.     *)
THEOREM OneProducerImplements == Alone /\ Spec => Fifo!FifoSpec
<1>1. ~lapped /\ [Fifo!FifoNext \/ lapped]_(Fifo!fifoVars) => [Fifo!FifoNext]_(Fifo!fifoVars)
  OBVIOUS
<1>2. Alone => Alone'
  BY DEF Alone
<1> QED BY NeverLapped, Implements, <1>1, <1>2, PTL DEF ImplementsFifo, Fifo!FifoSpec
-----------------------------------------------------------------------------
(* mpsc_atomic_mem_pool, the pool without a semaphore, has the same ring   *)
(* and the same put with one slot more, and a getter whose copy of __rear  *)
(* is seen.                                                                *)
VARIABLE seen

Atomic == INSTANCE MpscAtomicPool WITH Rqnum <- Elenum + 1

(* As long as no put has begun __rear is where the constructor put it, and *)
(* getters stay in front of it.                                            *)
BeforePut == /\ rear = Elenum
             /\ pcP \in [Producers -> {"idle", "cas"}]
             /\ idx \in [Producers -> 0 .. Elenum]
             /\ \A p \in Producers : pcP[p] = "cas" => idx[p] = Elenum
             /\ front \in 0 .. Elenum
             /\ pcC = "wait" => seen = Elenum
             /\ pcC \in {"take", "clear", "flag", "advance"} => front < Elenum

LEMMA BeforePutInit == Atomic!Init => BeforePut
BY Numbers DEF Atomic!Init, Atomic!RingInit, Atomic!GetterInit, BeforePut

LEMMA NoPutYet == BeforePut => (Atomic!IndicesInArrays <=> \A p \in Producers : pcP[p] = "idle")
BY Numbers DEF BeforePut, Atomic!IndicesInArrays, Atomic!Allocated

LEMMA BeforePutStep == BeforePut /\ [Atomic!Next]_(Atomic!vars) => BeforePut'
<1> SUFFICES ASSUME BeforePut, [Atomic!Next]_(Atomic!vars) PROVE BeforePut'
  OBVIOUS
<1>1. CASE UNCHANGED Atomic!vars
  BY <1>1 DEF Atomic!vars, Atomic!putVars, Atomic!getterVars, BeforePut
<1>2. ASSUME Atomic!IndicesInArrays, NEW p \in Producers, Atomic!Put(p) PROVE BeforePut'
  <2>1. pcP[p] = "idle" /\ \A q \in Producers : pcP[q] = "idle"
    BY <1>2, NoPutYet
  <2>2. ~Atomic!PutStep(p) /\ ~Atomic!PutPublish(p, "idle")
    BY <2>1 DEF Atomic!PutStep, Atomic!PutPublish, Atomic!PutBusy, Atomic!PutAgain,
       Atomic!PutClaim, Atomic!PutReload, Atomic!PutStore
  <2>3. Atomic!PutCall(p) /\ UNCHANGED <<Atomic!getterVars, temp>>
    BY <1>2, <2>2 DEF Atomic!Put
  <2>4. UNCHANGED <<rear, front, pcC, seen>>
    BY <2>3 DEF Atomic!PutCall, Atomic!getterVars
  <2>5. pcP' = [pcP EXCEPT ![p] = "cas"] /\ idx' = [idx EXCEPT ![p] = rear]
    BY <2>3 DEF Atomic!PutCall, Atomic!LoadRear, Atomic!Goto
  <2> QED BY <2>4, <2>5, Numbers DEF BeforePut
<1>3. ASSUME Atomic!BeginGet \/ Atomic!AwaitWr \/ Atomic!GetRead \/ Atomic!GetClear
             \/ Atomic!GetFlag \/ Atomic!GetReturn \/ Atomic!BeginDestroy \/ Atomic!FreeArrays
      PROVE  BeforePut'
  <2>1. UNCHANGED <<rear, pcP, idx>>
    BY <1>3 DEF Atomic!BeginGet, Atomic!AwaitWr, Atomic!GetRead, Atomic!GetClear, Atomic!GetFlag,
       Atomic!GetReturn, Atomic!BeginDestroy, Atomic!FreeArrays, Atomic!putVars
  <2>2. CASE Atomic!GetReturn
    BY <2>1, <2>2, Numbers DEF Atomic!GetReturn, Atomic!Step, Atomic!Succ, BeforePut
  <2>3. CASE ~Atomic!GetReturn
    BY <1>3, <2>1, <2>3, Numbers DEF Atomic!BeginGet, Atomic!Call, Atomic!AwaitWr, Atomic!Poll,
       Atomic!GiveUp, Atomic!Expire, Atomic!Found, Atomic!GetRead, Atomic!GetClear, Atomic!GetFlag,
       Atomic!Step, Atomic!BeginDestroy, Atomic!Destroy, Atomic!FreeArrays, Atomic!Free, BeforePut
  <2> QED BY <2>2, <2>3
<1> QED BY <1>1, <1>2, <1>3 DEF Atomic!Next

(* Getters keep to the arrays, and every first step of a put is outside:   *)
(* for every capacity no work request can be given back to the pool        *)
(* (mem_pool.hpp:868-869, 1094).                                           *)
THEOREM FirstPutIsOutside ==
    Atomic!Spec => [](Atomic!IndicesInArrays <=> \A p \in Producers : pcP[p] = "idle")
BY BeforePutInit, BeforePutStep, NoPutYet, PTL DEF Atomic!Spec
=============================================================================
