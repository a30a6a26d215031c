---------------------------- MODULE WrPoolProofs ----------------------------
(***************************************************************************)
(* Safety of rfts::wr_pool for every number of work requests and of        *)
(* producers.                                                              *)
(***************************************************************************)
EXTENDS WrPool, FlagRingProofs

InGet == IF pcC \in {"clear", "flag"} THEN {temp} ELSE {}
Counted == IF pcC = "clear" THEN Slots \ {front} ELSE Slots

(* The producers in put. *)
Busy == {"cas", "again", "reload", "store", "publish"}

(* The ring, the callers and the producers share the work requests out. *)
Balance == Dist(front, rear, Rqnum) + Cardinality(held) + Cardinality(At(Busy)) = Elenum

(* What get knows between its steps. *)
Hand == /\ pcC \in {"clear", "flag"} => temp \in Wrs /\ Dist(front, rear, Rqnum) > 0
        /\ pcC = "clear" => temp = rq[front]
        /\ pcC = "freed" => held = {} /\ At(Busy) = {}

Sound == /\ Ring(front, Dist(front, rear, Rqnum), pcC, rear, rq, flags, pcP, idx)
         /\ Balance
         /\ Somewhere(rq, elem, held, InGet)
         /\ Hand
         /\ ~crashed

IInv == /\ TypeOK
        /\ \A p \in Producers : pcP[p] # "post"
        /\ Carried
        /\ Apart(rq, elem, held, Counted, InGet)
        /\ Regular => Sound
-----------------------------------------------------------------------------
LEMMA Numbers == /\ Elenum \in Nat /\ Elenum >= 1 /\ Rqnum = Elenum + 1
                 /\ Rqnum \in Nat \ {0} /\ Slots = 0 .. Elenum /\ Nullptr \notin Wrs
BY RingAssumption, CapacityAssumption DEF Slots

LEMMA InitInv == Init => IInv
<1> SUFFICES ASSUME Init PROVE IInv
  OBVIOUS
<1>0. /\ RingInit /\ rear = Elenum /\ front = 0 /\ pcC = "idle" /\ held = {} /\ ~crashed
      /\ temp = Nullptr /\ overrun = FALSE /\ crashed = FALSE
      /\ \A p \in Producers : pcP[p] = "idle" /\ elem[p] = Nullptr
  BY Numbers DEF Init, RingInit
<1>r. \A i \in Slots : rq[i] = IF i < Elenum THEN i ELSE Nullptr
  BY DEF Init, RingInit
<1>f. \A i \in Slots : flags[i] <=> i < Elenum
  BY DEF Init, RingInit
<1>1. TypeOK
  <2>1. RingTypeOK
    BY <1>0, InitType
  <2>2. 0 \in Slots
    BY Numbers
  <2> QED BY <2>1, <2>2 DEF Init, TypeOK
<1>2. (\A p \in Producers : pcP[p] # "post") /\ Carried
  BY <1>0, Numbers DEF Carried, Carriers
<1>3. Apart(rq, elem, held, Counted, InGet)
  BY <1>0, <1>r, Numbers DEF Apart, Counted, InGet
<1>4. Dist(front, rear, Rqnum) = Elenum
  BY <1>0, Numbers DEF Dist
<1>5. Ring(front, Dist(front, rear, Rqnum), pcC, rear, rq, flags, pcP, idx)
  <2>1. Claims(pcP) = {}
    BY <1>0 DEF Claims
  <2>2. Elenum = Ahead(0, Elenum, Rqnum) /\ \A i \in Slots : Dist(0, i, Rqnum) = i
    BY Numbers DEF Ahead, Dist
  <2>3. \A p \in Producers : pcP[p] # "publish"
    BY <1>0
  <2>4. \A i \in Slots : i < Elenum => rq[i] \in Wrs
    BY <1>r, Numbers DEF Wrs
  <2>5. \A i \in Slots : ~(i < Elenum) => rq[i] = Nullptr
    BY <1>r, Numbers
  <2>6. 0 \in Slots /\ Elenum \in Slots /\ Elenum \in 0 .. Elenum
    BY Numbers
  <2> QED BY <1>0, <1>4, <1>f, <2>1, <2>2, <2>3, <2>4, <2>5, <2>6 DEF Ring
<1>6. Balance
  <2>1. At(Busy) = {}
    BY <1>0 DEF At, Busy
  <2> QED BY <1>0, <1>4, <2>1, Numbers, FS_EmptySet DEF Balance
<1>7. Somewhere(rq, elem, held, InGet)
  <2>1. \A w \in Wrs : w \in Slots /\ rq[w] = w
    BY <1>r, Numbers DEF Wrs
  <2>2. \A w \in Wrs : \E i \in Slots : rq[i] = w
    BY <2>1
  <2> QED BY <2>2 DEF Somewhere
<1>8. Hand
  BY <1>0 DEF Hand
<1> QED BY <1>0, <1>1, <1>2, <1>3, <1>5, <1>6, <1>7, <1>8 DEF IInv, Sound
-----------------------------------------------------------------------------
(* A producer's step. *)
LEMMA PutInv ==
    ASSUME IInv, NEW p \in Producers, Begin(p) \/ Advance(p), ~Stopped
    PROVE  IInv'
<1>1. RingTypeOK /\ UNCHANGED getVars /\ (PutCall(p) \/ PutStep(p) \/ PutPublish(p, "idle"))
  BY DEF IInv, TypeOK, Begin, Advance
<1>2. UNCHANGED <<front, pcC, temp, crashed, overrun>>
  BY <1>1 DEF getVars
<1>3. TypeOK'
  <2>1. RingTypeOK'
    BY <1>1, PutType
  <2> QED BY <1>2, <2>1 DEF IInv, TypeOK
<1>4. \A q \in Producers : pcP'[q] # "post"
  BY <1>1 DEF IInv, RingTypeOK, PutCall, PutStep, PutBusy, PutAgain, PutClaim, PutReload,
              PutStore, PutPublish, Goto
<1>5. Carried'
  BY <1>1, PutCarried DEF IInv
<1>6. Counted' = Counted /\ InGet' = InGet /\ Counted \in SUBSET Slots
  BY <1>2 DEF Counted, InGet
<1>7. Apart(rq, elem, held, Counted, InGet)'
  <2>1. Apart(rq', elem', held', Counted, InGet)
    BY <1>1, <1>6, PutApart DEF IInv
  <2> QED BY <1>6, <2>1
<1>8. ASSUME Regular' PROVE Sound'
  <2> DEFINE k == Dist(front, rear, Rqnum)
  <2>1. Regular /\ ~lapped' /\ Sound
    <3>1. ~lapped' /\ ~overrun' /\ overrun' = overrun
      BY <1>2, <1>8 DEF Regular
    <3>2. ~lapped
      BY <1>1, <3>1, StaysLapped
    <3> QED BY <3>1, <3>2 DEF IInv, Regular
  <2>2. /\ Ring(front, k, pcC, rear, rq, flags, pcP, idx)
        /\ k + Cardinality(held) + Cardinality(At(Busy)) = Elenum
        /\ front \in Slots /\ rear \in Slots /\ k \in Nat
    BY <1>1, <2>1, Numbers, DistRange DEF Sound, Balance, IInv, TypeOK, RingTypeOK
  <2>3. CASE PutCall(p) \/ PutStep(p)
    <3>1. rear' = rear
      BY <2>3 DEF PutCall, PutStep, PutBusy, PutAgain, PutClaim, PutReload, PutStore
    <3>2. pcP[p] = "store" => elem[p] \in Wrs
      BY DEF IInv, Carried, Carriers
    <3>3. Ring(front, k, pcC, rear', rq', flags', pcP', idx')
      BY <1>1, <2>1, <2>2, <2>3, <3>2, PutRing
    <3>4. Balance'
      <4>1. CASE PutCall(p)
        <5>1. PICK w \in held : held' = held \ {w}
          BY <4>1 DEF PutCall
        <5>2. Cardinality(held') = Cardinality(held) - 1 /\ Cardinality(held) \in Nat
          BY <1>1, <5>1, HeldFinite DEF RingTypeOK
        <5>3. Goto(p, "cas") /\ pcP[p] = "idle"
          BY <4>1 DEF PutCall
        <5>4. Cardinality(At(Busy)') = Cardinality(At(Busy)) + 1 /\ Cardinality(At(Busy)) \in Nat
          BY <1>1, <5>3, AtMove, AtCount DEF Busy
        <5> QED BY <1>2, <2>2, <3>1, <5>2, <5>4 DEF Balance
      <4>2. CASE PutStep(p)
        <5>1. pcP[p] \in Busy /\ (\E l \in Busy : Goto(p, l)) /\ held' = held
          BY <4>2 DEF PutStep, PutBusy, PutAgain, PutClaim, PutReload, PutStore, Busy
        <5>2. Cardinality(At(Busy)') = Cardinality(At(Busy))
          BY <1>1, <5>1, AtMove, AtCount
        <5> QED BY <1>2, <2>2, <3>1, <5>1, <5>2 DEF Balance
      <4> QED BY <2>3, <4>1, <4>2
    <3>5. Somewhere(rq', elem', held', InGet)
      BY <1>1, <2>1, <2>2, <2>3, PutSomewhere DEF Sound, IInv
    <3>6. Hand'
      <4>1. pcC # "freed"
        BY DEF Stopped
      <4>2. pcC = "clear" => rq'[front] = rq[front]
        <5>1. CASE ~PutStore(p)
          BY <2>3, <5>1 DEF PutCall, PutStep, PutBusy, PutAgain, PutClaim, PutReload
        <5>2. CASE PutStore(p)
          <6>1. p \in Claims(pcP) /\ pcP[p] = "store" /\ rq' = [rq EXCEPT ![idx[p]] = elem[p]]
            BY <5>2 DEF PutStore, Claims
          <6>2. idx[p] = rear /\ ~(Dist(front, rear, Rqnum) < k)
            BY <2>2, <6>1 DEF Ring
          <6>3. pcC = "clear" => k > 0
            BY <2>1 DEF Sound, Hand
          <6>4. pcC = "clear" => front # rear
            BY <2>2, <6>3, Numbers DEF Dist
          <6> QED BY <1>1, <2>2, <6>1, <6>2, <6>4 DEF RingTypeOK
        <5> QED BY <5>1, <5>2
      <4> QED BY <1>2, <2>1, <3>1, <4>1, <4>2 DEF Sound, Hand
    <3> QED BY <1>2, <1>6, <2>1, <3>1, <3>3, <3>4, <3>5, <3>6 DEF Sound
  <2>4. CASE PutPublish(p, "idle")
    <3>1. /\ pcP[p] = "publish" /\ Goto(p, "idle") /\ UNCHANGED <<rq, elem, held>>
      BY <2>4 DEF PutPublish
    <3>2. Cardinality(At(Busy)') = Cardinality(At(Busy)) - 1 /\ Cardinality(At(Busy)) \in Nat
      BY <1>1, <3>1, AtMove, AtCount DEF Busy
    <3>3. Cardinality(held) \in Nat
      BY <1>1, HeldFinite DEF RingTypeOK
    <3>4. k < Elenum
      <4>1. Cardinality(At(Busy)') \in Nat
        <5>1. At(Busy) # {}
          BY <3>1 DEF At, Busy
        <5> QED BY <3>2, <5>1, AtCount
      <4> QED BY <2>2, <3>2, <3>3, <4>1
    <3>5. /\ Ring(front, k + 1, pcC, rear', rq', flags', pcP', idx')
          /\ rear = Ahead(front, k, Rqnum)
      BY <1>1, <2>2, <2>4, <3>4, PublishRing
    <3>6. Dist(front', rear', Rqnum) = k + 1
      <4>1. rear' = Ahead(front, k + 1, Rqnum) /\ rear' \in Slots
        BY <1>3, <3>5 DEF Ring, TypeOK, RingTypeOK
      <4>2. k + 1 \in 0 .. Rqnum - 1
        BY <2>2, <3>4, Numbers
      <4> QED BY <1>2, <2>2, <4>1, <4>2, Numbers, DistAhead
    <3>7. Balance'
      BY <2>2, <3>1, <3>2, <3>3, <3>6 DEF Balance
    <3>8. Hand'
      <4>1. pcC # "freed"
        BY DEF Stopped
      <4> QED BY <1>2, <2>1, <2>2, <3>1, <3>6, <4>1 DEF Sound, Hand
    <3> QED BY <1>2, <1>6, <2>1, <3>1, <3>5, <3>6, <3>7, <3>8 DEF Sound
  <2> QED BY <1>1, <2>3, <2>4
<1> QED BY <1>3, <1>4, <1>5, <1>7, <1>8 DEF IInv
-----------------------------------------------------------------------------
(* The steps of get leave the producers alone. *)
LEMMA GetReadInv == ASSUME IInv, GetRead PROVE IInv'
<1> DEFINE k == Dist(front, rear, Rqnum)
<1>1. /\ pcC = "idle" /\ pcC' = "clear" /\ temp' = rq[front]
      /\ UNCHANGED <<rear, rq, flags, pcP, idx, elem, held, lapped, front, crashed>>
  BY DEF GetRead, putVars
<1>2. overrun' \in BOOLEAN /\ (~overrun' => ~overrun /\ front # rear)
  BY Zenon DEF GetRead
<1>3. front \in Slots /\ rear \in Slots /\ rq \in [Slots -> Wrs \union {Nullptr}]
  BY DEF IInv, TypeOK, RingTypeOK
<1>4. TypeOK'
  <2>1. RingTypeOK'
    BY <1>1 DEF IInv, TypeOK, RingTypeOK
  <2> QED BY <1>1, <1>2, <1>3, <2>1 DEF IInv, TypeOK
<1>5. Apart(rq, elem, held, Counted, InGet)'
  <2>1. Counted = Slots /\ InGet = {} /\ Counted' = Slots \ {front} /\ InGet' = {rq[front]}
    BY <1>1 DEF Counted, InGet
  <2>2. Apart(rq, elem, held, Slots, {})
    BY <2>1 DEF IInv
  <2>3. Apart(rq, elem, held, Slots \ {front}, {rq[front]})
    BY <1>3, <2>2 DEF Apart
  <2> QED BY <1>1, <2>1, <2>3
<1>6. ASSUME Regular' PROVE Sound'
  <2>1. Sound /\ front # rear
    BY <1>1, <1>2, <1>6 DEF IInv, Regular
  <2>2. k > 0 /\ k \in Int
    BY <1>3, <2>1, Numbers DEF Dist
  <2>3. rq[front] \in Wrs
    <3>1. Dist(front, front, Rqnum) < k
      BY <1>3, <2>2, Numbers DEF Dist
    <3> QED BY <1>1, <1>3, <2>1, <3>1 DEF Sound, Ring
  <2>4. Ring(front, k, "clear", rear, rq, flags, pcP, idx)
    BY <1>1, <2>1, RingAnywhere DEF Sound
  <2>5. Somewhere(rq, elem, held, InGet)'
    BY <1>1, <2>1 DEF Sound, Somewhere, InGet
  <2>6. At(Busy)' = At(Busy)
    BY <1>1 DEF At
  <2> QED BY <1>1, <2>1, <2>2, <2>3, <2>4, <2>5, <2>6 DEF Sound, Balance, Hand
<1>7. Carried' /\ \A p \in Producers : pcP'[p] # "post"
  BY <1>1 DEF IInv, Carried, Carriers
<1> QED BY <1>4, <1>5, <1>6, <1>7 DEF IInv

LEMMA GetClearInv == ASSUME IInv, GetClear PROVE IInv'
<1> DEFINE k == Dist(front, rear, Rqnum)
<1>1. /\ pcC = "clear" /\ pcC' = "flag" /\ rq' = [rq EXCEPT ![front] = Nullptr]
      /\ UNCHANGED <<rear, flags, pcP, idx, elem, held, lapped, front, temp, crashed, overrun>>
  BY DEF GetClear
<1>2. front \in Slots /\ rq \in [Slots -> Wrs \union {Nullptr}] /\ RingTypeOK
  BY DEF IInv, TypeOK, RingTypeOK
<1>3. rq'[front] = Nullptr /\ \A i \in Slots \ {front} : rq'[i] = rq[i]
  BY <1>1, <1>2
<1>4. TypeOK'
  BY <1>1 DEF IInv, TypeOK, RingTypeOK
<1>5. Apart(rq, elem, held, Counted, InGet)'
  <2>1. Counted = Slots \ {front} /\ InGet = {temp} /\ Counted' = Slots /\ InGet' = {temp}
    BY <1>1 DEF Counted, InGet
  <2>2. Apart(rq, elem, held, Slots \ {front}, {temp})
    BY <2>1 DEF IInv
  <2>3. Apart(rq', elem, held, Slots, {temp})
    BY <1>3, <2>2, Numbers DEF Apart
  <2> QED BY <1>1, <2>1, <2>3
<1>6. ASSUME Regular' PROVE Sound'
  <2>1. Sound
    BY <1>1, <1>6 DEF IInv, Regular
  <2>2. k > 0 /\ temp \in Wrs /\ temp = rq[front]
    BY <1>1, <2>1 DEF Sound, Hand
  <2>3. Ring(front, k, "flag", rear, rq', flags, pcP, idx)
    BY <1>1, <1>2, <2>1, <2>2, ClearRing DEF Sound
  <2>4. Somewhere(rq, elem, held, InGet)'
    <3>1. InGet = {temp} /\ InGet' = {temp}
      BY <1>1 DEF InGet
    <3>2. Somewhere(rq', elem, held, {temp})
      BY <1>3, <2>1, <2>2, <3>1 DEF Sound, Somewhere
    <3> QED BY <1>1, <3>1, <3>2
  <2>5. At(Busy)' = At(Busy)
    BY <1>1 DEF At
  <2> QED BY <1>1, <2>1, <2>2, <2>3, <2>4, <2>5 DEF Sound, Balance, Hand
<1>7. Carried' /\ \A p \in Producers : pcP'[p] # "post"
  BY <1>1 DEF IInv, Carried, Carriers
<1> QED BY <1>4, <1>5, <1>6, <1>7 DEF IInv

LEMMA GetReturnInv == ASSUME IInv, GetReturn PROVE IInv'
<1> DEFINE k == Dist(front, rear, Rqnum)
<1>1. /\ pcC = "flag" /\ pcC' = "idle" /\ front' = Succ(front, Rqnum)
      /\ flags' = [flags EXCEPT ![front] = FALSE]
      /\ held' = held \union ({temp} \ {Nullptr}) /\ temp' = Nullptr
      /\ UNCHANGED <<rear, rq, pcP, idx, elem, lapped, overrun>>
  BY DEF GetReturn
<1>2. /\ crashed' \in BOOLEAN
      /\ temp # Nullptr => ~crashed'
  BY Zenon DEF GetReturn
<1>3. /\ front \in Slots /\ front' \in Slots /\ rear \in Slots /\ RingTypeOK
      /\ temp \in Wrs \union {Nullptr} /\ held \in SUBSET Wrs
  BY <1>1, Numbers, SuccType DEF IInv, TypeOK, RingTypeOK
<1>4. TypeOK'
  <2>1. RingTypeOK'
    BY <1>1, <1>3 DEF RingTypeOK
  <2> QED BY <1>1, <1>2, <1>3, <2>1 DEF IInv, TypeOK
<1>5. Apart(rq, elem, held, Counted, InGet)'
  <2>1. Counted = Slots /\ InGet = {temp} /\ Counted' = Slots /\ InGet' = {}
    BY <1>1 DEF Counted, InGet
  <2>2. Apart(rq, elem, held, Slots, {temp})
    BY <2>1 DEF IInv
  <2>3. Apart(rq, elem, held', Slots, {})
    BY <1>1, <1>3, <2>2, Numbers DEF Apart
  <2> QED BY <1>1, <2>1, <2>3
<1>6. ASSUME Regular' PROVE Sound'
  <2>1. Sound
    BY <1>1, <1>6 DEF IInv, Regular
  <2>2. k > 0 /\ temp \in Wrs /\ temp # Nullptr
    BY <1>1, <2>1, Numbers DEF Sound, Hand
  <2>3. Ring(front', k - 1, "idle", rear, rq, flags', pcP, idx)
    BY <1>1, <1>3, <2>1, <2>2, LeaveRing DEF Sound
  <2>4. front # rear
    BY <1>3, <2>2, Numbers DEF Dist
  <2>5. Dist(front', rear, Rqnum) = k - 1 /\ k \in Int
    <3>1. front \in 0 .. Rqnum - 1 /\ rear \in 0 .. Rqnum - 1
      BY <1>3, Numbers
    <3>2. k \in Int
      BY <3>1, Numbers, DistRange
    <3> QED BY <1>1, <2>4, <3>1, <3>2, Numbers, DistSucc
  <2>6. held' = held \union {temp} /\ temp \notin held
    <3>1. InGet = {temp}
      BY <1>1 DEF InGet
    <3> QED BY <1>1, <2>2, <3>1 DEF IInv, Apart
  <2>7. Somewhere(rq, elem, held, InGet)'
    <3>1. InGet = {temp} /\ InGet' = {}
      BY <1>1 DEF InGet
    <3>2. Somewhere(rq, elem, held', {})
      BY <2>1, <2>6, <3>1 DEF Sound, Somewhere
    <3> QED BY <1>1, <3>1, <3>2
  <2>8. At(Busy)' = At(Busy)
    BY <1>1 DEF At
  <2>9. Balance'
    <3>1. Cardinality(held') = Cardinality(held) + 1 /\ Cardinality(held) \in Nat
      BY <1>3, <2>2, <2>6, HeldFinite
    <3>2. Cardinality(At(Busy)) \in Nat
      BY AtCount
    <3> QED BY <1>1, <2>1, <2>5, <2>8, <3>1, <3>2 DEF Sound, Balance
  <2> QED BY <1>1, <1>2, <2>1, <2>2, <2>3, <2>5, <2>7, <2>9 DEF Sound, Hand
<1>7. Carried' /\ \A p \in Producers : pcP'[p] # "post"
  BY <1>1 DEF IInv, Carried, Carriers
<1> QED BY <1>4, <1>5, <1>6, <1>7 DEF IInv

(* The destructor frees the ring when all work requests are in it. *)
LEMMA DestroyInv == ASSUME IInv, Destroy \/ Free PROVE IInv'
<1>1. /\ pcC \in {"idle", "dtor"} /\ pcC' \in {"dtor", "freed"}
      /\ pcC' = "freed" => Dist(front, rear, Rqnum) = Elenum
      /\ UNCHANGED <<rear, rq, flags, pcP, idx, elem, held, lapped, front, temp, crashed, overrun>>
  BY DEF Destroy, Free, putVars
<1>2. TypeOK'
  BY <1>1 DEF IInv, TypeOK, RingTypeOK
<1>3. Counted' = Counted /\ InGet' = InGet
  BY <1>1 DEF Counted, InGet
<1>4. ASSUME Regular' PROVE Sound'
  <2>1. Sound
    BY <1>1, <1>4 DEF IInv, Regular
  <2>2. At(Busy)' = At(Busy)
    BY <1>1 DEF At
  <2>3. Ring(front, Dist(front, rear, Rqnum), pcC', rear, rq, flags, pcP, idx)
    BY <1>1, <2>1, RingAnywhere DEF Sound
  <2>4. pcC' = "freed" => held = {} /\ At(Busy) = {}
    <3>1. /\ Cardinality(held) \in Nat /\ (Cardinality(held) = 0 => held = {})
          /\ Cardinality(At(Busy)) \in Nat /\ (Cardinality(At(Busy)) = 0 => At(Busy) = {})
      BY HeldFinite, AtCount DEF IInv, TypeOK, RingTypeOK
    <3> QED BY <1>1, <2>1, <3>1, Numbers DEF Sound, Balance
  <2> QED BY <1>1, <1>3, <2>1, <2>2, <2>3, <2>4 DEF Sound, Balance, Hand
<1>5. Carried' /\ \A p \in Producers : pcP'[p] # "post"
  BY <1>1 DEF IInv, Carried, Carriers
<1> QED BY <1>1, <1>2, <1>3, <1>4, <1>5 DEF IInv

LEMMA StepInv == IInv /\ [Next]_vars => IInv'
<1> SUFFICES ASSUME IInv, [Next]_vars PROVE IInv'
  OBVIOUS
<1>1. CASE UNCHANGED vars
  <2>1. UNCHANGED <<rear, rq, flags, pcP, idx, elem, held, lapped, front, pcC, temp, crashed, overrun>>
    BY <1>1 DEF vars, putVars, getVars
  <2>2. At(Busy)' = At(Busy) /\ Counted' = Counted /\ InGet' = InGet
    BY <2>1 DEF At, Counted, InGet
  <2> QED BY <2>1, <2>2 DEF IInv, TypeOK, RingTypeOK, Carried, Carriers, Regular, Sound, Balance, Hand
<1>2. ASSUME ~Stopped, Consumer PROVE IInv'
  BY <1>2, GetReadInv, GetClearInv, GetReturnInv, DestroyInv DEF Consumer
<1>3. ASSUME ~Stopped, NEW p \in Producers, Begin(p) \/ Advance(p) PROVE IInv'
  BY <1>3, PutInv
<1> QED BY <1>1, <1>2, <1>3 DEF Next

THEOREM Invariance == Spec => []IInv
BY InitInv, StepInv, PTL DEF Spec
-----------------------------------------------------------------------------
(* No work request is ever in two places, lapped producers and overrun     *)
(* getters or not (wr_pool.hpp:237-264).                                   *)
THEOREM NeverAliased == Spec => []NoAlias
<1>1. IInv => NoAlias
  <2> SUFFICES ASSUME IInv, NEW w \in Wrs PROVE Cardinality(OwnersNow(w)) <= 1
    BY DEF NoAlias
  <2>1. OwnersNow(w) = Owners(w, Counted, InGet)
    BY DEF OwnersNow, Counted, InGet
  <2> QED BY <2>1, OneOwner DEF IInv
<1> QED BY <1>1, Invariance, PTL

(* Until a producer is lapped or get called on an empty pool, puts are     *)
(* serialised, the ring and its flags agree, no work request disappears    *)
(* and the destructor frees the ring only when all are back                *)
(* (wr_pool.hpp:146-153, 237-264).                                         *)
THEOREM Soundness == Spec => []RingSound
<1>1. IInv => RingSound
  <2> SUFFICES ASSUME IInv, Regular PROVE RingSound
    BY DEF RingSound
  <2>s. Sound
    BY DEF IInv
  <2>f. front \in Slots /\ rear \in Slots /\ ~(Dist(front, rear, Rqnum) < Dist(front, rear, Rqnum))
    BY Numbers DEF IInv, TypeOK, RingTypeOK, Dist
  <2>1. ClaimExclusive
    <3>1. Claimants = Claims(pcP)
      BY DEF Claimants, Claims
    <3> QED BY <2>s, <2>f, <3>1 DEF ClaimExclusive, Sound, Ring
  <2>2. \A i \in Slots : InRing(i) => flags[i] /\ (rq[i] \in Wrs \/ (pcC = "flag" /\ i = front))
    BY <2>s DEF Sound, Ring, InRing
  <2>3. \A i \in Slots : ~InRing(i) /\ i # rear => ~flags[i] /\ rq[i] = Nullptr
    BY <2>s DEF Sound, Ring, InRing
  <2>4. ASSUME NEW w \in Wrs PROVE OwnersNow(w) # {}
    <3>1. OwnersNow(w) = Owners(w, Counted, InGet)
      BY DEF OwnersNow, Counted, InGet
    <3>2. \A i \in Slots : i \in Counted \/ rq[i] \in InGet
      BY <2>s DEF Counted, InGet, Sound, Hand
    <3> QED BY <2>s, <3>1, <3>2, SomeOwner DEF Sound
  <2>5. ~crashed
    BY <2>s DEF Sound
  <2>6. pcC = "freed" => held = {} /\ \A p \in Producers : pcP[p] = "idle"
    <3> SUFFICES ASSUME pcC = "freed", NEW p \in Producers PROVE held = {} /\ pcP[p] = "idle"
      BY <2>s DEF Sound, Hand
    <3>1. held = {} /\ pcP[p] \notin Busy
      BY <2>s DEF Sound, Hand, At
    <3> QED BY <3>1 DEF IInv, TypeOK, RingTypeOK, Busy
  <2> QED BY <2>1, <2>2, <2>3, <2>4, <2>5, <2>6 DEF RingSound
<1> QED BY <1>1, Invariance, PTL
-----------------------------------------------------------------------------
(* The free list as a segment of the ring. *)
Contents == [i \in Slots |-> Content(i)]
FreeSegment == Segment(Contents, front, Size, Rqnum)

FreeShape == /\ front \in 0 .. Rqnum - 1 /\ rear \in 0 .. Rqnum - 1 /\ Slots = 0 .. Rqnum - 1
             /\ Size \in 0 .. Elenum /\ Size \in 0 .. Rqnum - 1
             /\ rear = Ahead(front, Size, Rqnum)
             /\ \A i \in 0 .. Rqnum - 1 : Dist(front, i, Rqnum) < Size => Contents[i] \in Wrs
             /\ FreeList = FreeSegment

LEMMA FreeFacts == IInv /\ Sound => FreeShape
<1> SUFFICES ASSUME IInv, Sound PROVE FreeShape
  OBVIOUS
<1>1. /\ front \in 0 .. Rqnum - 1 /\ rear \in 0 .. Rqnum - 1 /\ Slots = 0 .. Rqnum - 1
      /\ Size \in 0 .. Elenum /\ Size \in 0 .. Rqnum - 1
      /\ rear = Ahead(front, Size, Rqnum)
  BY Numbers DEF IInv, TypeOK, RingTypeOK, Sound, Ring, Size
<1>2. \A i \in 0 .. Rqnum - 1 : Dist(front, i, Rqnum) < Size => Contents[i] \in Wrs
  <2>1. \A i \in Slots : Dist(front, i, Rqnum) < Size => rq[i] \in Wrs \/ (pcC = "flag" /\ i = front)
    BY DEF Sound, Ring, Size
  <2>2. pcC = "flag" => temp \in Wrs
    BY DEF Sound, Hand
  <2> QED BY <1>1, <2>1, <2>2 DEF Contents, Content
<1>3. FreeList = FreeSegment
  <2>1. ASSUME NEW j \in 1 .. Size PROVE Ahead(front, j - 1, Rqnum) \in Slots
    BY <1>1, Numbers DEF Ahead
  <2> QED BY <2>1 DEF FreeList, FreeSegment, Segment, Contents
<1> QED BY <1>1, <1>2, <1>3 DEF FreeShape

LEMMA FreeFactsNext == IInv' /\ Sound' => FreeShape'
BY FreeFacts, PTL

LEMMA InitRefines == Init => Fifo!FifoInit
<1> SUFFICES ASSUME Init PROVE Fifo!FifoInit
  OBVIOUS
<1>1. /\ front = 0 /\ pcC = "idle" /\ held = {} /\ Size = Elenum
      /\ Carriers = {} /\ {p \in Producers : pcP[p] = "publish"} = {}
  BY Numbers DEF Init, RingInit, Size, Dist, Carriers
<1>2. Out = {}
  BY <1>1 DEF Out
<1>3. DOMAIN FreeList = {w + 1 : w \in Wrs}
  <2>1. DOMAIN FreeList = 1 .. Elenum
    BY <1>1 DEF FreeList
  <2>2. ASSUME NEW x PROVE x \in 1 .. Elenum <=> x \in {w + 1 : w \in Wrs}
    <3>1. ASSUME x \in 1 .. Elenum PROVE x \in {w + 1 : w \in Wrs}
      <4>1. x - 1 \in Wrs /\ x = (x - 1) + 1
        BY <3>1, Numbers DEF Wrs
      <4> QED BY <4>1
    <3> QED BY <3>1, Numbers DEF Wrs
  <2> QED BY <2>1, <2>2
<1>4. ASSUME NEW w \in Wrs PROVE FreeList[w + 1] = w
  <2>1. w \in 0 .. Elenum - 1 /\ w + 1 \in 1 .. Size /\ (w + 1) - 1 = w
    BY <1>1, Numbers DEF Wrs
  <2>2. Ahead(front, w, Rqnum) = w
    BY <1>1, <2>1, Numbers DEF Ahead
  <2>3. Content(w) = w
    BY <1>1, <2>1, Numbers DEF Content, Init, RingInit
  <2> QED BY <2>1, <2>2, <2>3 DEF FreeList
<1> QED BY <1>2, <1>3, <1>4 DEF Fifo!FifoInit

(* A put takes effect when it publishes. *)
LEMMA PutRefines ==
    ASSUME IInv, IInv', Sound, Sound', NEW p \in Producers, Begin(p) \/ Advance(p), ~lapped'
    PROVE  [Fifo!FifoNext]_(Fifo!fifoVars)
<1>1. /\ RingTypeOK /\ UNCHANGED <<front, pcC, temp>>
      /\ PutCall(p) \/ PutStep(p) \/ PutPublish(p, "idle")
  BY DEF IInv, TypeOK, Begin, Advance, getVars
<1>2. FreeShape /\ FreeShape'
  BY FreeFacts, FreeFactsNext
<1>3. ASSUME rear' = rear, rq' = rq \/ (rq' = [rq EXCEPT ![rear] = elem[p]]), Out' = Out
      PROVE  UNCHANGED Fifo!fifoVars
  <2>1. Size' = Size
    BY <1>1, <1>3 DEF Size
  <2>2. \A i \in Slots \ {rear} : rq'[i] = rq[i]
    BY <1>1, <1>3 DEF RingTypeOK
  <2>3. \A i \in 0 .. Rqnum - 1 : Dist(front, i, Rqnum) < Size => i # rear
    <3>1. Size \in Int
      BY <1>2 DEF FreeShape
    <3> QED BY <3>1 DEF Size
  <2>4. \A i \in 0 .. Rqnum - 1 : Dist(front, i, Rqnum) < Size => Contents[i] = Contents'[i]
    BY <1>1, <1>2, <2>2, <2>3 DEF FreeShape, Contents, Content
  <2>5. Size \in 0 .. Rqnum /\ front \in 0 .. Rqnum - 1
    BY <1>2, Numbers DEF FreeShape
  <2>6. Segment(Contents, front, Size, Rqnum) = Segment(Contents', front, Size, Rqnum)
    BY <2>4, <2>5, Numbers, SegmentEqual
  <2>7. FreeList' = FreeList
    BY <1>1, <1>2, <2>1, <2>6 DEF FreeShape, FreeSegment
  <2> QED BY <1>3, <2>7 DEF Fifo!fifoVars
<1>4. CASE PutCall(p) \/ PutStep(p)
  BY <1>1, <1>3, <1>4, OutPut DEF Sound
<1>5. CASE PutPublish(p, "idle")
  <2> DEFINE w == rq[rear]
  <2>1. rear \in Counted /\ rear \in Slots
    <3>1. pcC = "clear" => front # rear
      BY <1>2, Numbers DEF Sound, Hand, Dist, FreeShape
    <3> QED BY <1>2, <3>1 DEF Counted, FreeShape
  <2>2. Out' = Out \ {w} /\ w \in Out /\ w \in Wrs /\ rq' = rq
    BY <1>1, <1>5, <2>1, OutPublish DEF IInv, Sound
  <2>3. Size' = Size + 1 /\ Size \in 0 .. Rqnum - 1 /\ Size + 1 \in 0 .. Rqnum - 1
    <3>1. rear' = Succ(rear, Rqnum)
      <4>1. p \in Claims(pcP) /\ pcP[p] = "publish"
        BY <1>5 DEF PutPublish, Claims
      <4> QED BY <1>5, <4>1 DEF PutPublish, Sound, Ring
    <3>2. Size < Elenum
      <4>1. Cardinality(At(Busy)) \in Nat /\ Cardinality(At(Busy)) # 0
        BY <1>5, AtCount DEF At, Busy, PutPublish
      <4>2. Cardinality(held) \in Nat
        BY <1>1, HeldFinite DEF RingTypeOK
      <4> QED BY <1>2, <4>1, <4>2, Numbers DEF Sound, Balance, Size, FreeShape
    <3>3. rear' = Ahead(front, Size + 1, Rqnum)
      BY <1>2, <3>1, Numbers, AheadSucc DEF FreeShape
    <3>4. Dist(front, rear', Rqnum) = Size + 1
      <4>1. Size + 1 \in 0 .. Rqnum - 1
        BY <1>2, <3>2, Numbers DEF FreeShape
      <4> QED BY <1>2, <3>3, <4>1, Numbers, DistAhead DEF FreeShape
    <3> QED BY <1>1, <1>2, <3>2, <3>4, Numbers DEF FreeShape, Size
  <2>4. Contents' = Contents
    BY <1>1, <2>2 DEF Contents, Content
  <2>5. Contents[rear] = w
    <3>1. ~(rear = front /\ pcC = "flag")
      BY <1>2, Numbers DEF Sound, Hand, Dist, FreeShape
    <3> QED BY <2>1, <3>1 DEF Contents, Content
  <2>6. FreeList' = Append(FreeList, w)
    <3> HIDE DEF w
    <3>1. Ahead(front, Size, Rqnum) = rear /\ front \in 0 .. Rqnum - 1
      BY <1>2 DEF FreeShape
    <3>2. \A i \in 0 .. Rqnum - 1 : Dist(front, i, Rqnum) < Size + 1 => Contents[i] \in Wrs
      BY <1>1, <1>2, <2>3, <2>4 DEF FreeShape, Wrs
    <3>4. Segment(Contents, front, Size + 1, Rqnum)
             = Append(Segment(Contents, front, Size, Rqnum), Contents[Ahead(front, Size, Rqnum)])
      BY <2>3, <3>1, <3>2, Numbers, SegmentAppend
    <3>5. FreeList' = Segment(Contents, front, Size + 1, Rqnum)
      BY <1>1, <1>2, <2>3, <2>4 DEF FreeShape, FreeSegment
    <3> QED BY <1>2, <2>5, <3>1, <3>4, <3>5 DEF FreeShape, FreeSegment
  <2> QED BY <2>2, <2>6 DEF Fifo!FifoNext, Fifo!FifoPut
<1> QED BY <1>1, <1>4, <1>5

(* A get takes effect when it returns; until then the work request it has  *)
(* read counts as free.                                                    *)
LEMMA GetRefines ==
    ASSUME IInv, IInv', Sound, Sound', Consumer
    PROVE  [Fifo!FifoNext]_(Fifo!fifoVars)
<1> DEFINE Publishing == {q \in Producers : pcP[q] = "publish"}
<1>1. FreeShape /\ FreeShape' /\ rq \in [Slots -> Wrs \union {Nullptr}]
  BY FreeFacts, FreeFactsNext DEF IInv, TypeOK, RingTypeOK
<1>2. UNCHANGED <<rear, pcP, elem>>
  BY DEF Consumer, GetRead, GetClear, GetReturn, Destroy, Free, putVars
<1>3. Carriers' = Carriers /\ Publishing' = Publishing
  BY <1>2 DEF Carriers
<1>4. ASSUME UNCHANGED <<front, held>>, \A i \in Slots : Contents'[i] = Contents[i],
             rq'[rear] = rq[rear]
      PROVE  UNCHANGED Fifo!fifoVars
  <2>1. Size' = Size
    BY <1>2, <1>4 DEF Size
  <2>2. Segment(Contents', front, Size, Rqnum) = Segment(Contents, front, Size, Rqnum)
    <3>1. Size \in 0 .. Rqnum /\ front \in 0 .. Rqnum - 1
      BY <1>1, Numbers DEF FreeShape
    <3>2. \A i \in 0 .. Rqnum - 1 : Dist(front, i, Rqnum) < Size => Contents'[i] = Contents[i]
      BY <1>1, <1>4 DEF FreeShape
    <3> HIDE DEF Contents
    <3> QED BY <3>1, <3>2, Numbers, SegmentEqual
  <2>3. FreeList' = FreeList
    BY <1>1, <1>4, <2>1, <2>2 DEF FreeShape, FreeSegment
  <2>4. Out' = Out
    BY <1>2, <1>3, <1>4 DEF Out
  <2> QED BY <2>3, <2>4 DEF Fifo!fifoVars
<1>5. CASE GetRead \/ Destroy \/ Free
  <2>1. UNCHANGED <<front, held, rq>> /\ pcC # "flag" /\ pcC' # "flag"
    BY <1>5 DEF GetRead, Destroy, Free, putVars
  <2> QED BY <1>2, <1>4, <2>1 DEF Contents, Content
<1>6. CASE GetClear
  <2>1. /\ pcC = "clear" /\ pcC' = "flag" /\ UNCHANGED <<front, temp, held>>
        /\ rq' = [rq EXCEPT ![front] = Nullptr]
    BY <1>6 DEF GetClear
  <2>2. temp = rq[front] /\ front # rear
    BY <1>1, <2>1, Numbers DEF Sound, Hand, Dist, FreeShape
  <2>3. \A i \in Slots \ {front} : rq'[i] = rq[i]
    BY <1>1, <2>1
  <2>4. \A i \in Slots : Contents'[i] = Contents[i]
    BY <2>1, <2>2, <2>3 DEF Contents, Content
  <2>5. rq'[rear] = rq[rear]
    BY <1>1, <2>2, <2>3 DEF FreeShape
  <2> QED BY <1>4, <2>1, <2>4, <2>5
<1>7. CASE GetReturn
  <2>1. /\ pcC = "flag" /\ pcC' = "idle" /\ front' = Succ(front, Rqnum) /\ rq' = rq
        /\ held' = held \union ({temp} \ {Nullptr})
    BY <1>7 DEF GetReturn
  <2>2. temp \in Wrs /\ Size > 0 /\ held' = held \union {temp} /\ Contents[front] = temp
    BY <1>1, <2>1, Numbers DEF Sound, Hand, Size, Contents, Content, FreeShape
  <2>3. front # rear /\ Size \in 1 .. Rqnum
    BY <1>1, <2>2, Numbers DEF FreeShape, Size, Dist
  <2>4. Size' = Size - 1
    BY <1>1, <1>2, <2>1, <2>3, Numbers, DistSucc DEF FreeShape, Size
  <2>5. \A i \in 0 .. Rqnum - 1 : i # front => Contents'[i] = Contents[i]
    BY <1>1, <2>1 DEF Contents, Content, FreeShape
  <2>6. /\ FreeList # <<>> /\ Head(FreeList) = temp /\ FreeList' = Tail(FreeList)
    <3>1. /\ \A i \in 0 .. Rqnum - 1 : Dist(front, i, Rqnum) < Size => Contents[i] \in Wrs
          /\ front \in 0 .. Rqnum - 1 /\ FreeList = FreeSegment
          /\ FreeList' = Segment(Contents', front', Size', Rqnum)
      BY <1>1 DEF FreeShape, FreeSegment
    <3>2. \A i \in 0 .. Rqnum - 1 :
              i # front /\ Dist(front, i, Rqnum) < Size => Contents'[i] = Contents[i]
      BY <2>5
    <3>3. ASSUME NEW d, \A i \in 0 .. Rqnum - 1 :
                            i # front /\ Dist(front, i, Rqnum) < Size => d[i] = Contents[i]
          PROVE  /\ Segment(Contents, front, Size, Rqnum) # <<>>
                 /\ Head(Segment(Contents, front, Size, Rqnum)) = Contents[front]
                 /\ Segment(d, Succ(front, Rqnum), Size - 1, Rqnum)
                        = Tail(Segment(Contents, front, Size, Rqnum))
      <4>1. Rqnum \in Nat \ {0} /\ front \in 0 .. Rqnum - 1 /\ Size \in 1 .. Rqnum
        BY <2>3, <3>1, Numbers
      <4> QED BY <3>1, <3>3, <4>1, SegmentPop, Zenon
    <3> QED BY <2>1, <2>2, <2>4, <3>1, <3>2, <3>3 DEF FreeSegment
  <2>7. Out' = Out \union {temp}
    BY <1>2, <1>3, <2>1, <2>2 DEF Out
  <2> QED BY <2>6, <2>7 DEF Fifo!FifoNext, Fifo!FifoGet
<1> QED BY <1>5, <1>6, <1>7 DEF Consumer

(* Regular states are all there is before the first irregular one. *)
LEMMA StepRefines ==
    IInv /\ IInv' /\ [Next]_vars => [Fifo!FifoNext \/ ~Regular']_(Fifo!fifoVars)
<1> SUFFICES ASSUME IInv, IInv', [Next]_vars, Regular'
             PROVE  [Fifo!FifoNext]_(Fifo!fifoVars)
  OBVIOUS
<1>1. CASE UNCHANGED vars
  <2>1. UNCHANGED <<rear, rq, pcP, elem, held, front, pcC, temp>>
    BY <1>1 DEF vars, putVars, getVars
  <2>2. Carriers' = Carriers /\ Size' = Size /\ \A i : Content(i)' = Content(i)
    BY <2>1 DEF Carriers, Size, Content
  <2>3. FreeList' = FreeList
    BY <2>1, <2>2 DEF FreeList
  <2>4. Out' = Out
    BY <2>1, <2>2 DEF Out
  <2> QED BY <2>3, <2>4 DEF Fifo!fifoVars
<1>2. CASE Consumer
  <2>1. lapped' = lapped
    BY <1>2 DEF Consumer, GetRead, GetClear, GetReturn, Destroy, Free, putVars
  <2>2. CASE GetRead
    <3>1. ~overrun' => ~overrun
      BY <2>2, Zenon DEF GetRead
    <3> QED BY <1>2, <2>1, <3>1, GetRefines DEF Regular, IInv
  <2>3. CASE ~GetRead
    <3>1. overrun' = overrun
      BY <1>2, <2>3 DEF Consumer, GetClear, GetReturn, Destroy, Free
    <3> QED BY <1>2, <2>1, <3>1, GetRefines DEF Regular, IInv
  <2> QED BY <2>2, <2>3
<1>3. ASSUME NEW p \in Producers, Begin(p) \/ Advance(p) PROVE [Fifo!FifoNext]_(Fifo!fifoVars)
  <2>1. overrun' = overrun
    BY <1>3 DEF Begin, Advance, getVars
  <2>2. ~lapped
    BY <1>3, StaysLapped DEF Regular, IInv, TypeOK, Begin, Advance
  <2> QED BY <1>3, <2>1, <2>2, PutRefines DEF Regular, IInv
<1> QED BY <1>1, <1>2, <1>3 DEF Next

(* Until a producer is lapped or get called on an empty pool, the pool is  *)
(* the FIFO pool (wr_pool.hpp:237-264).                                    *)
THEOREM Implements == Spec => ImplementsFifo
<1>1. IInv /\ IInv' /\ [Next]_vars => [Fifo!FifoNext \/ ~Regular']_(Fifo!fifoVars)
  BY StepRefines
<1> QED
  BY Invariance, InitRefines, <1>1, PTL DEF Spec, ImplementsFifo
-----------------------------------------------------------------------------
(* Until one of the two happens a put spins only for a reason that passes: *)
(* __rear has moved, or another put is about to move it                    *)
(* (wr_pool.hpp:253-264).                                                  *)
THEOREM NeverSpinsInVain == Spec => []SpinsForCause
<1>1. IInv => SpinsForCause
  <2> SUFFICES ASSUME IInv, Regular, NEW p \in Producers, pcP[p] = "cas", flags[idx[p]],
                      idx[p] = rear
               PROVE  Claimants # {}
    BY DEF SpinsForCause, SpinsBehind
  <2>1. /\ front \in Slots /\ rear \in Slots /\ Dist(front, rear, Rqnum) \in Int
        /\ flags[rear] <=> (Dist(front, rear, Rqnum) < Dist(front, rear, Rqnum)
                              \/ (rear = rear /\ Claims(pcP) # {}))
    BY Numbers DEF IInv, TypeOK, RingTypeOK, Sound, Ring, Dist
  <2>2. Claimants = Claims(pcP)
    BY DEF Claimants, Claims
  <2> QED BY <2>1, <2>2
<1> QED BY <1>1, Invariance, PTL

(* If one thread alone calls put - the server with one worker, the number  *)
(* it can shut down with - nobody is ever lapped, and the theorems above   *)
(* hold without that condition (wr_pool.hpp:237-264).                      *)
THEOREM NeverLapped == Spec => [](Alone => ~lapped)
<1>1. Init => Unlapped
  BY UnlappedInit DEF Init
<1>2. IInv /\ Unlapped /\ [Next]_vars => Unlapped'
  <2> SUFFICES ASSUME IInv, Unlapped, [Next]_vars PROVE Unlapped'
    OBVIOUS
  <2>1. CASE UNCHANGED vars
    BY <2>1, UnlappedKept DEF vars, putVars
  <2>2. CASE Consumer
    BY <2>2, UnlappedKept DEF Consumer, GetRead, GetClear, GetReturn, Destroy, Free, putVars
  <2>3. ASSUME NEW p \in Producers, Begin(p) \/ Advance(p) PROVE Unlapped'
    BY <2>3, UnlappedPut DEF IInv, TypeOK, Begin, Advance
  <2> QED BY <2>1, <2>2, <2>3 DEF Next
<1>3. Unlapped => (Alone => ~lapped)
  BY DEF Unlapped
<1> QED BY Invariance, <1>1, <1>2, <1>3, PTL DEF Spec

(* With one producer the pool is the FIFO pool until get is called on an   *)
(* empty one.                                                              *)
THEOREM OneProducerImplements ==
    Alone /\ Spec => Fifo!FifoInit /\ [][Fifo!FifoNext \/ overrun']_(Fifo!fifoVars)
<1>1. ~lapped' /\ [Fifo!FifoNext \/ ~Regular']_(Fifo!fifoVars)
         => [Fifo!FifoNext \/ overrun']_(Fifo!fifoVars)
  BY DEF Regular
<1>2. Alone => Alone'
  BY DEF Alone
<1> QED BY NeverLapped, Implements, <1>1, <1>2, PTL DEF ImplementsFifo
=============================================================================
