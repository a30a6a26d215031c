----------------------------- MODULE QueueProofs -----------------------------
(***************************************************************************)
(* Safety of rfts::queue, with and without RFTS_SPMC, for every capacity,  *)
(* every set of elements that fits, and every number of workers.           *)
(***************************************************************************)
EXTENDS Queue, RingArithProofs, FiniteSetTheorems

TypeOK ==
    /\ spmc \in BOOLEAN /\ lapped \in BOOLEAN
    /\ front \in Slots /\ rear \in Slots
    /\ rq \in [Slots -> Elems \union {Nullptr}]
    /\ flags \in [Slots -> BOOLEAN]
    /\ count \in Nat
    /\ pcP \in {"idle", "flag", "post", "dtor", "freed"}
    /\ pcC \in [Consumers -> {"idle", "load", "cas", "reload", "read", "clear", "advance", "work"}]
    /\ idx \in [Consumers -> Slots]
    /\ temp \in [Consumers -> Elems \union {Nullptr}]

(* The consumers whose control state is in L. *)
At(L) == {c \in Consumers : pcC[c] \in L}
Late == At({"advance"})

(* The slots in use. *)
In(i) == Dist(front, i, Rqnum) < Stored

(* At most one worker is between its claim and its store of __front, at    *)
(* the slot where __front is.                                              *)
Claim1 == /\ \A c, d \in Claimants : c = d
          /\ \A c \in Consumers : pcC[c] \in {"read", "clear", "advance"} => idx[c] = front
          /\ ~spmc => \A c \in Consumers : /\ c # Single => pcC[c] = "idle"
                                           /\ pcC[c] \notin {"load", "cas"}

(* The slots in use, and no others, hold elements, but for the one at      *)
(* __front when it has been cleared and the one at __rear when a put has   *)
(* just stored into it; the flags say which are in use and unclaimed.      *)
Ring == /\ rear = Ahead(front, Stored, Rqnum) /\ Stored <= Rqnum
        /\ pcP = "flag" => Stored < Rqnum /\ rq[rear] \in Elems
        /\ Late # {} => rq[front] = Nullptr
        /\ \A i \in Slots : In(i) => rq[i] \in Elems \/ (i = front /\ Late # {})
        /\ \A i \in Slots : ~In(i) => rq[i] = Nullptr \/ (i = rear /\ pcP = "flag")
        /\ spmc => \A i \in Slots : flags[i] <=> In(i) /\ ~(i = front /\ Claimants # {})

(* No element is in two places. *)
Apart == /\ \A c \in Consumers : temp[c] \in Elems <=> pcC[c] \in {"clear", "advance", "work"}
         /\ \A c \in Consumers : pcC[c] = "clear" => temp[c] = rq[front]
         /\ \A i, j \in Slots : rq[i] = rq[j] /\ rq[i] \in Elems => i = j
         /\ \A c, d \in Consumers : temp[c] = temp[d] /\ temp[c] \in Elems => c = d
         /\ \A c \in Consumers, i \in Slots :
               temp[c] = rq[i] /\ temp[c] \in Elems => pcC[c] = "clear"

(* How many elements the slots hold. *)
Held == InSlots \ {Nullptr}
Balance == Cardinality(Held) + Cardinality(Late) = Stored + IF pcP = "flag" THEN 1 ELSE 0

Sound == Claim1 /\ Ring /\ Apart /\ Balance

IInv == /\ TypeOK
        /\ pcP = "freed" => count = 0
        /\ ~lapped => Sound
-----------------------------------------------------------------------------
LEMMA Numbers == /\ Rqnum \in Nat \ {0} /\ Slots = 0 .. Rqnum - 1 /\ Nullptr \notin Elems
                 /\ IsFiniteSet(Elems) /\ Cardinality(Elems) \in Nat /\ Cardinality(Elems) <= Rqnum
                 /\ IsFiniteSet(Consumers) /\ Single \in Consumers
BY QueueAssumption, FS_CardinalityType DEF Slots

LEMMA AtCount ==
    ASSUME NEW L PROVE  /\ IsFiniteSet(At(L)) /\ Cardinality(At(L)) \in Nat
                        /\ Cardinality(At(L)) = 0 <=> At(L) = {}
BY Numbers, FS_Subset, FS_CardinalityType, FS_EmptySet DEF At

LEMMA ElemsCount ==
    ASSUME NEW S \in SUBSET Elems
    PROVE  /\ IsFiniteSet(S) /\ Cardinality(S) \in Nat /\ Cardinality(S) <= Cardinality(Elems)
           /\ \A e \in Elems \ S : Cardinality(S \union {e}) = Cardinality(S) + 1
           /\ \A e \in S : Cardinality(S \ {e}) = Cardinality(S) - 1
<1>1. IsFiniteSet(S) /\ Cardinality(S) \in Nat /\ Cardinality(S) <= Cardinality(Elems)
  BY Numbers, FS_Subset, FS_CardinalityType
<1>2. \A e \in Elems \ S : Cardinality(S \union {e}) = Cardinality(S) + 1
  BY <1>1, FS_AddElement
<1>3. \A e \in S : Cardinality(S \ {e}) = Cardinality(S) - 1
  BY <1>1, FS_RemoveElement
<1> QED BY <1>1, <1>2, <1>3

(* The workers inside get, before and after their claim. *)
InGet == {"load", "cas", "reload", "read", "clear", "advance"}
Claimed == {"reload", "read", "clear", "advance"}

LEMMA Places == TypeOK => Permitted = At(InGet) /\ Claimants = At(Claimed)
BY DEF TypeOK, Permitted, Claimants, At, InGet, Claimed

LEMMA PlacesNext == TypeOK' => Permitted' = At(InGet)' /\ Claimants' = At(Claimed)'
BY DEF TypeOK, Permitted, Claimants, At, InGet, Claimed

StoredOK == /\ Stored \in Nat /\ Cardinality(Permitted) \in Nat
            /\ Permitted # {} => Stored > 0

LEMMA StoredType == TypeOK => StoredOK
<1> SUFFICES ASSUME TypeOK PROVE StoredOK
  OBVIOUS
<1>1. Cardinality(Permitted) \in Nat /\ count \in Nat
  BY Places, AtCount DEF TypeOK
<1>2. Permitted # {} => Cardinality(Permitted) # 0
  BY Places, AtCount
<1> QED BY <1>1, <1>2 DEF Stored, StoredOK

LEMMA StoredTypeNext == TypeOK' => StoredOK'
BY StoredType, PTL

(* One worker's step from one control state to another. *)
LEMMA AtMove ==
    ASSUME TypeOK, NEW c \in Consumers, NEW l, Goto(c, l), NEW L
    PROVE  /\ pcC'[c] = l /\ \A d \in Consumers \ {c} : pcC'[d] = pcC[d]
           /\ Cardinality(At(L)') = Cardinality(At(L)) - (IF pcC[c] \in L THEN 1 ELSE 0)
                                                     + (IF l \in L THEN 1 ELSE 0)
<1> DEFINE A == At(L)
           B == At(L)'
<1>1. /\ \A d \in Consumers \ {c} : d \in B <=> d \in A
      /\ c \in B <=> l \in L
      /\ c \in A <=> pcC[c] \in L
      /\ A \subseteq Consumers /\ B \subseteq Consumers
  BY DEF TypeOK, Goto, At
<1>2. IsFiniteSet(A) /\ Cardinality(A) \in Nat
  BY AtCount
<1>3. pcC'[c] = l /\ \A d \in Consumers \ {c} : pcC'[d] = pcC[d]
  BY DEF TypeOK, Goto
<1> HIDE DEF A, B
<1>4. CASE l \in L /\ pcC[c] \notin L
  <2>1. B = A \union {c} /\ c \notin A
    BY <1>1, <1>4
  <2>2. Cardinality(B) = Cardinality(A) + 1
    BY <1>2, <2>1, FS_AddElement
  <2> QED BY <1>2, <1>3, <1>4, <2>2 DEF A, B
<1>5. CASE l \notin L /\ pcC[c] \in L
  <2>1. B = A \ {c} /\ c \in A
    BY <1>1, <1>5
  <2>2. Cardinality(B) = Cardinality(A) - 1
    BY <1>2, <2>1, FS_RemoveElement
  <2> QED BY <1>2, <1>3, <1>5, <2>2 DEF A, B
<1>6. CASE l \in L <=> pcC[c] \in L
  <2>1. B = A
    BY <1>1, <1>6
  <2> QED BY <1>2, <1>3, <1>6, <2>1 DEF A, B
<1> QED BY <1>4, <1>5, <1>6

(* What a worker's step changes in the counts. *)
LEMMA Counts ==
    ASSUME TypeOK, TypeOK', NEW c \in Consumers, NEW l, Goto(c, l), UNCHANGED pcP
    PROVE  /\ Stored' = Stored + (count' - count) - (IF pcC[c] \in InGet THEN 1 ELSE 0)
                                              + (IF l \in InGet THEN 1 ELSE 0)
           /\ Cardinality(Late') = Cardinality(Late) - (IF pcC[c] = "advance" THEN 1 ELSE 0)
                                                   + (IF l = "advance" THEN 1 ELSE 0)
           /\ pcC'[c] = l /\ \A d \in Consumers \ {c} : pcC'[d] = pcC[d]
           /\ \A d \in Consumers \ {c} : d \in Claimants' <=> d \in Claimants
           /\ c \in Claimants' <=> l \in Claimed
           /\ \A d \in Consumers \ {c} : d \in Late' <=> d \in Late
           /\ c \in Late' <=> l = "advance"
           /\ Claimants' \subseteq Consumers /\ Late' \subseteq Consumers
<1>1. /\ Cardinality(At(InGet)') = Cardinality(At(InGet)) - (IF pcC[c] \in InGet THEN 1 ELSE 0)
                                                   + (IF l \in InGet THEN 1 ELSE 0)
      /\ pcC'[c] = l /\ \A d \in Consumers \ {c} : pcC'[d] = pcC[d]
  BY AtMove
<1>2. Cardinality(At({"advance"})') = Cardinality(At({"advance"}))
            - (IF pcC[c] \in {"advance"} THEN 1 ELSE 0) + (IF l \in {"advance"} THEN 1 ELSE 0)
  BY AtMove
<1>3. /\ Permitted = At(InGet) /\ Permitted' = At(InGet)'
      /\ Claimants = At(Claimed) /\ Claimants' = At(Claimed)'
  BY Places, PlacesNext
<1>4. /\ Cardinality(Permitted) \in Nat /\ Cardinality(Permitted') \in Nat
      /\ count \in Nat /\ count' \in Nat
  BY StoredType, StoredTypeNext DEF TypeOK, StoredOK
<1>5. Stored' = Stored + (count' - count) - (IF pcC[c] \in InGet THEN 1 ELSE 0)
                                      + (IF l \in InGet THEN 1 ELSE 0)
  BY <1>1, <1>3, <1>4 DEF Stored
<1>6. Cardinality(Late') = Cardinality(Late) - (IF pcC[c] = "advance" THEN 1 ELSE 0)
                                          + (IF l = "advance" THEN 1 ELSE 0)
  BY <1>2 DEF Late
<1> QED BY <1>1, <1>3, <1>5, <1>6 DEF At, Late
-----------------------------------------------------------------------------
LEMMA InitInv == Init => IInv
<1> SUFFICES ASSUME Init PROVE IInv
  OBVIOUS
<1>1. TypeOK
  <2>1. front \in Slots /\ rear \in Slots /\ idx \in [Consumers -> Slots]
    BY Numbers DEF Init
  <2>2. /\ flags \in [Slots -> BOOLEAN] /\ rq \in [Slots -> Elems \union {Nullptr}]
        /\ spmc \in BOOLEAN /\ lapped \in BOOLEAN
    BY DEF Init
  <2>3. count \in Nat /\ temp \in [Consumers -> Elems \union {Nullptr}]
    BY DEF Init
  <2> QED BY <2>1, <2>2, <2>3 DEF Init, TypeOK
<1>2. Permitted = {} /\ Claimants = {} /\ Late = {} /\ Held = {}
  BY DEF Init, Permitted, Claimants, Late, At, Held, InSlots
<1>3. Stored = 0 /\ Cardinality(Held) = 0 /\ Cardinality(Late) = 0
  BY <1>2, FS_EmptySet DEF Init, Stored
<1>4. \A i \in Slots : ~In(i)
  BY <1>3, Numbers, DistRange DEF In, Init
<1>5. Claim1 /\ Apart /\ Balance
  BY <1>2, <1>3, Numbers DEF Init, Claim1, Apart, Balance
<1>6. Ring
  BY <1>2, <1>3, <1>4, Numbers DEF Init, Ring, Ahead
<1> QED BY <1>1, <1>5, <1>6 DEF Init, IInv, Sound
-----------------------------------------------------------------------------
LEMMA TypeStep == TypeOK /\ [Next]_vars => TypeOK'
<1> SUFFICES ASSUME TypeOK, [Next]_vars PROVE TypeOK'
  OBVIOUS
<1>r. /\ \A i \in Slots : Succ(i, Rqnum) \in Slots
  BY Numbers, SuccType
<1>1. CASE UNCHANGED vars
  BY <1>1 DEF TypeOK, vars, prodVars, consVars
<1>2. CASE Producer /\ UNCHANGED spmc
  <2>1. CASE PutFlag
    <3>1. flags' \in [Slots -> BOOLEAN]
      BY <2>1 DEF TypeOK, PutFlag
    <3> QED BY <1>r, <1>2, <2>1, <3>1 DEF TypeOK, PutFlag, consVars
  <2>2. CASE PutStore \/ PutPost \/ Destroy \/ Free
    BY <1>2, <2>2 DEF TypeOK, PutStore, PutPost, Destroy, Free, consVars
  <2> QED BY <1>2, <2>1, <2>2 DEF Producer
<1>3. ASSUME NEW c \in Consumers, Get(c) \/ Finish(c), UNCHANGED spmc PROVE TypeOK'
  <2>1. CASE Wait(c)
    BY <1>3, <2>1 DEF TypeOK, Wait, Goto, prodVars
  <2>2. CASE Claim(c)
    <3>1. lapped' \in BOOLEAN
      BY <2>2, Zenon DEF Claim, TypeOK
    <3> QED BY <1>3, <2>2, <3>1 DEF TypeOK, Claim, Goto, prodVars
  <2>3. CASE Load(c) \/ Busy(c) \/ Reload(c) \/ Read(c) \/ Clear(c) \/ Finish(c)
    BY <1>3, <2>3 DEF TypeOK, Load, Busy, Reload, Read, Clear, Finish, LoadFront, Goto, prodVars
  <2>4. CASE Advance(c)
    BY <1>3, <1>r, <2>4 DEF TypeOK, Advance, Goto, prodVars
  <2> QED BY <1>3, <2>1, <2>2, <2>3, <2>4 DEF Get
<1> QED BY <1>1, <1>2, <1>3 DEF Next, Alive
-----------------------------------------------------------------------------
(* The ring between __front and __rear. *)
LEMMA Facts ==
    ASSUME TypeOK, Ring
    PROVE  /\ Rqnum \in Nat \ {0} /\ Slots = 0 .. Rqnum - 1
           /\ front \in 0 .. Rqnum - 1 /\ rear \in 0 .. Rqnum - 1
           /\ Stored \in 0 .. Rqnum
           /\ \A i \in Slots : Dist(front, i, Rqnum) \in 0 .. Rqnum - 1
           /\ Dist(front, front, Rqnum) = 0
           /\ Stored < Rqnum => Dist(front, rear, Rqnum) = Stored
           /\ \A c \in Permitted : Stored > 0 /\ In(front)
           /\ Claimants \subseteq Permitted /\ Late \subseteq Claimants
<1>1. /\ Rqnum \in Nat \ {0} /\ Slots = 0 .. Rqnum - 1
      /\ front \in 0 .. Rqnum - 1 /\ rear \in 0 .. Rqnum - 1
      /\ Stored \in 0 .. Rqnum
  <2>1. Stored \in Nat /\ Stored <= Rqnum
    BY StoredType DEF StoredOK, Ring
  <2> QED BY <2>1, Numbers DEF TypeOK
<1>2. \A i \in Slots : Dist(front, i, Rqnum) \in 0 .. Rqnum - 1
  BY <1>1, DistRange
<1>3. Dist(front, front, Rqnum) = 0
  BY <1>1, DistSelf
<1>4. Stored < Rqnum => Dist(front, rear, Rqnum) = Stored
  <2> SUFFICES ASSUME Stored < Rqnum PROVE Dist(front, rear, Rqnum) = Stored
    OBVIOUS
  <2>1. Stored \in 0 .. Rqnum - 1 /\ rear = Ahead(front, Stored, Rqnum)
    BY <1>1 DEF Ring
  <2> QED BY <1>1, <2>1, DistAhead
<1>5. \A c \in Permitted : Stored > 0 /\ In(front)
  BY <1>3, StoredType DEF StoredOK, In
<1>6. Claimants \subseteq Permitted /\ Late \subseteq Claimants
  BY DEF Claimants, Permitted, Late, At
<1> QED BY <1>1, <1>2, <1>3, <1>4, <1>5, <1>6

(* Steps that leave the arrays and their indices alone. *)
LEMMA SameRing ==
    ASSUME Ring, Balance, UNCHANGED <<spmc, front, rear, rq, flags>>,
           Stored' = Stored, Late' = {} <=> Late = {}, Cardinality(Late') = Cardinality(Late),
           spmc => (Claimants' = {} <=> Claimants = {}),
           pcP' = pcP \/ (pcP # "flag" /\ pcP' # "flag")
    PROVE  Ring' /\ Balance'
<1>1. \A i \in Slots : In(i)' <=> In(i)
  BY DEF In
<1>2. Held' = Held
  BY DEF Held, InSlots
<1>3. Balance'
  BY <1>2 DEF Balance
<1>4. Ring'
  BY <1>1 DEF Ring
<1> QED BY <1>3, <1>4

(* Steps of a worker that neither takes nor gives back an element. *)
LEMMA SameApart ==
    ASSUME TypeOK, Apart, NEW c \in Consumers, NEW l, Goto(c, l), UNCHANGED <<front, rq, temp>>,
           pcC[c] \notin {"clear", "advance", "work"}, l \notin {"clear", "advance", "work"}
    PROVE  Apart'
<1>1. pcC'[c] = l /\ \A d \in Consumers \ {c} : pcC'[d] = pcC[d]
  BY DEF TypeOK, Goto
<1> QED BY <1>1 DEF Apart

LEMMA SameClaim ==
    ASSUME TypeOK, TypeOK', Claim1, NEW c \in Consumers, NEW l, Goto(c, l), UNCHANGED <<spmc, front>>,
           \A d \in Consumers \ {c} : idx'[d] = idx[d],
           l \in Claimed => pcC[c] \in Claimed \/ Claimants = {},
           l \in {"read", "clear", "advance"} => idx'[c] = front,
           ~spmc => c = Single /\ l \notin {"load", "cas"}
    PROVE  Claim1'
<1>1. pcC'[c] = l /\ \A d \in Consumers \ {c} : pcC'[d] = pcC[d]
  BY DEF TypeOK, Goto
<1>2. \A d \in Consumers \ {c} : d \in Claimants' <=> d \in Claimants
  BY <1>1 DEF Claimants
<1>3. (c \in Claimants' <=> l \in Claimed) /\ (c \in Claimants <=> pcC[c] \in Claimed)
  BY <1>1 DEF Claimants, Claimed
<1>4. Claimants' \subseteq Consumers
  BY DEF Claimants
<1>5. \A d, e \in Claimants' : d = e
  BY <1>2, <1>3, <1>4 DEF Claim1
<1> QED BY <1>1, <1>5 DEF Claim1
-----------------------------------------------------------------------------
(* A permit is taken, a slot's flag is found set or not, and the steps up  *)
(* to the read leave the ring as it is.                                    *)
LEMMA WaitSound ==
    ASSUME TypeOK, TypeOK', Sound, UNCHANGED spmc, NEW c \in Consumers, Wait(c) PROVE Sound'
<1> DEFINE l == IF spmc THEN "load" ELSE "reload"
<1>1. /\ pcC[c] = "idle" /\ (spmc \/ c = Single) /\ count' = count - 1 /\ Goto(c, l)
      /\ UNCHANGED <<front, idx, temp, rear, pcP, rq, flags>>
  BY DEF Wait, prodVars
<1>2. /\ l \in InGet /\ l # "advance" /\ l \notin {"clear", "advance", "work", "read"}
      /\ (spmc => l = "load") /\ (~spmc => l = "reload")
  BY DEF InGet
<1> HIDE DEF l
<1>3. /\ Stored' = Stored + (count' - count) - (IF pcC[c] \in InGet THEN 1 ELSE 0)
                                         + (IF l \in InGet THEN 1 ELSE 0)
      /\ Cardinality(Late') = Cardinality(Late) - (IF pcC[c] = "advance" THEN 1 ELSE 0)
                                              + (IF l = "advance" THEN 1 ELSE 0)
      /\ \A d \in Consumers \ {c} : d \in Claimants' <=> d \in Claimants
      /\ c \in Claimants' <=> l \in Claimed
      /\ \A d \in Consumers \ {c} : d \in Late' <=> d \in Late
      /\ c \in Late' <=> l = "advance"
      /\ Claimants' \subseteq Consumers /\ Late' \subseteq Consumers
  BY <1>1, Counts
<1>4. /\ c \notin Late /\ c \notin Claimants /\ Claimants \subseteq Consumers /\ Late \subseteq Consumers
      /\ pcC[c] \notin InGet
  BY <1>1 DEF Late, At, Claimants, InGet
<1>5. Late' = Late /\ Cardinality(Late') = Cardinality(Late) /\ Stored' = Stored
  <2>1. Stored \in Nat /\ Stored' \in Nat /\ count \in Nat /\ count' \in Nat /\ Cardinality(Late) \in Nat
    BY StoredType, StoredTypeNext, AtCount DEF StoredOK, TypeOK, Late
  <2>2. Late' = Late
    BY <1>2, <1>3, <1>4
  <2>3. /\ Stored' = Stored + (count' - count) - 0 + 1
        /\ Cardinality(Late') = Cardinality(Late) - 0 + 0
    <3>1. pcC[c] \notin InGet /\ l \in InGet /\ pcC[c] # "advance" /\ l # "advance"
      BY <1>1, <1>2, <1>4
    <3> QED BY <1>3, <3>1
  <2>4. count' = count - 1
    BY <1>1
  <2>5. Stored' = Stored
    BY <2>1, <2>3, <2>4
  <2>6. Cardinality(Late') = Cardinality(Late)
    BY <2>1, <2>3
  <2> QED BY <2>2, <2>5, <2>6
<1>6. spmc => Claimants' = Claimants
  BY <1>2, <1>3, <1>4 DEF Claimed
<1>7. ~spmc => Claimants = {}
  BY <1>1, <1>4 DEF Sound, Claim1, Claimants
<1>8. Ring' /\ Balance'
  BY <1>1, <1>5, <1>6, SameRing DEF Sound
<1>9. Apart'
  BY <1>1, <1>2, SameApart DEF Sound
<1>10. Claim1'
  <2>1. l \in Claimed => pcC[c] \in Claimed \/ Claimants = {}
    BY <1>2, <1>7 DEF Claimed
  <2>2. ~spmc => c = Single /\ l \notin {"load", "cas"}
    BY <1>1, <1>2
  <2>3. l \in {"read", "clear", "advance"} => idx'[c] = front
    BY <1>2
  <2>4. \A d \in Consumers \ {c} : idx'[d] = idx[d]
    BY <1>1
  <2>5. Claim1 /\ Goto(c, l) /\ UNCHANGED <<spmc, front>>
    BY <1>1 DEF Sound
  <2> QED BY <2>1, <2>2, <2>3, <2>4, <2>5, SameClaim, Zenon
<1> QED BY <1>8, <1>9, <1>10 DEF Sound

LEMMA MoveSound ==
    ASSUME TypeOK, TypeOK', Sound, UNCHANGED spmc, NEW c \in Consumers,
           Load(c) \/ Busy(c) \/ Reload(c)
    PROVE  Sound'
<1> DEFINE l == pcC'[c]
<1>1. /\ pcC[c] \in {"load", "cas", "reload"}
      /\ Goto(c, l) /\ l \in {"load", "cas", "read"}
      /\ (l = "read" <=> pcC[c] = "reload") /\ (l = "read" => idx'[c] = front)
      /\ \A d \in Consumers \ {c} : idx'[d] = idx[d]
      /\ UNCHANGED <<front, temp, rear, pcP, rq, flags, count>>
  <2>1. CASE Load(c)
    BY <2>1 DEF Load, LoadFront, Goto, TypeOK, prodVars
  <2>2. CASE Busy(c)
    BY <2>2 DEF Busy, Goto, TypeOK, prodVars
  <2>3. CASE Reload(c)
    BY <2>3 DEF Reload, LoadFront, Goto, TypeOK, prodVars
  <2> QED BY <2>1, <2>2, <2>3
<1> HIDE DEF l
<1>3. /\ Stored' = Stored + (count' - count) - (IF pcC[c] \in InGet THEN 1 ELSE 0)
                                         + (IF l \in InGet THEN 1 ELSE 0)
      /\ Cardinality(Late') = Cardinality(Late) - (IF pcC[c] = "advance" THEN 1 ELSE 0)
                                              + (IF l = "advance" THEN 1 ELSE 0)
      /\ \A d \in Consumers \ {c} : d \in Claimants' <=> d \in Claimants
      /\ c \in Claimants' <=> l \in Claimed
      /\ \A d \in Consumers \ {c} : d \in Late' <=> d \in Late
      /\ c \in Late' <=> l = "advance"
      /\ Claimants' \subseteq Consumers /\ Late' \subseteq Consumers
  BY <1>1, Counts
<1>4. /\ c \notin Late /\ (c \in Claimants <=> pcC[c] \in Claimed)
      /\ Claimants \subseteq Consumers /\ Late \subseteq Consumers
      /\ pcC[c] \in InGet /\ l \in InGet
      /\ l \in Claimed <=> pcC[c] \in Claimed
  BY <1>1 DEF Late, At, Claimants, Claimed, InGet
<1>5. Late' = Late /\ Cardinality(Late') = Cardinality(Late) /\ Stored' = Stored
  <2>1. Stored \in Nat /\ Stored' \in Nat /\ count \in Nat /\ Cardinality(Late) \in Nat
    BY StoredType, StoredTypeNext, AtCount DEF StoredOK, TypeOK, Late
  <2>2. Late' = Late
    BY <1>1, <1>3, <1>4
  <2>3. /\ Stored' = Stored + (count' - count) - 1 + 1
        /\ Cardinality(Late') = Cardinality(Late) - 0 + 0
    <3>1. pcC[c] \in InGet /\ l \in InGet /\ pcC[c] # "advance" /\ l # "advance"
      BY <1>1, <1>4
    <3> QED BY <1>3, <3>1
  <2>4. count' = count
    BY <1>1
  <2>5. Stored' = Stored
    BY <2>1, <2>3, <2>4
  <2>6. Cardinality(Late') = Cardinality(Late)
    BY <2>1, <2>3
  <2> QED BY <2>2, <2>5, <2>6
<1>6. Claimants' = Claimants
  <2>1. c \in Claimants' <=> c \in Claimants
    BY <1>3, <1>4, Zenon
  <2>2. /\ \A d \in Consumers \ {c} : d \in Claimants' <=> d \in Claimants
        /\ Claimants' \subseteq Consumers /\ Claimants \subseteq Consumers
    BY <1>3, <1>4
  <2> QED BY <2>1, <2>2
<1>8. Ring' /\ Balance'
  <2>1. /\ Ring /\ Balance /\ UNCHANGED <<spmc, front, rear, rq, flags>>
        /\ Stored' = Stored /\ (Late' = {} <=> Late = {}) /\ Cardinality(Late') = Cardinality(Late)
        /\ spmc => (Claimants' = {} <=> Claimants = {})
        /\ pcP' = pcP \/ (pcP # "flag" /\ pcP' # "flag")
    BY <1>1, <1>5, <1>6 DEF Sound
  <2> QED BY <2>1, SameRing, Zenon
<1>9. Apart'
  <2>1. /\ Apart /\ Goto(c, l) /\ UNCHANGED <<front, rq, temp>>
        /\ pcC[c] \notin {"clear", "advance", "work"} /\ l \notin {"clear", "advance", "work"}
    BY <1>1 DEF Sound
  <2> QED BY <2>1, SameApart, Zenon
<1>10. Claim1'
  <2>1. l \in Claimed => pcC[c] \in Claimed \/ Claimants = {}
    BY <1>4
  <2>2. ~spmc => c = Single /\ pcC[c] \notin {"load", "cas"}
    BY <1>1 DEF Sound, Claim1
  <2>3. ~spmc => c = Single /\ l \notin {"load", "cas"}
    BY <1>1, <2>2
  <2>4. l \in {"read", "clear", "advance"} => idx'[c] = front
    BY <1>1
  <2>5. Claim1 /\ Goto(c, l) /\ UNCHANGED <<spmc, front>>
    BY <1>1 DEF Sound
  <2>6. \A d \in Consumers \ {c} : idx'[d] = idx[d]
    BY <1>1
  <2> QED BY <2>1, <2>3, <2>4, <2>5, <2>6, SameClaim, Zenon
<1> QED BY <1>8, <1>9, <1>10 DEF Sound

LEMMA ClaimSound ==
    ASSUME TypeOK, TypeOK', Sound, UNCHANGED spmc, NEW c \in Consumers, Claim(c), ~lapped'
    PROVE  Sound'
<1>1. /\ pcC[c] = "cas" /\ flags[idx[c]] /\ Goto(c, "reload")
      /\ flags' = [flags EXCEPT ![idx[c]] = FALSE]
      /\ UNCHANGED <<front, idx, temp, rear, pcP, rq, count>>
  BY DEF Claim, prodVars
<1>2. idx[c] = front
  BY Zenon DEF Claim
<1>3. Claim1 /\ Ring /\ Apart /\ Balance
  BY DEF Sound
<1>4. spmc
  BY <1>1, <1>3 DEF Claim1
<1>5. Claimants = {} /\ Late = {}
  <2>1. front \in Slots
    BY DEF TypeOK
  <2>2. Claimants = {}
    BY <1>1, <1>2, <1>3, <1>4, <2>1 DEF Ring
  <2> QED BY <2>2, <1>3, Facts
<1>6. /\ Stored' = Stored + (count' - count) - 1 + 1
      /\ Late' = {} /\ Claimants' = {c}
  <2>1. /\ Stored' = Stored + (count' - count) - (IF pcC[c] \in InGet THEN 1 ELSE 0)
                                         + (IF "reload" \in InGet THEN 1 ELSE 0)
        /\ \A d \in Consumers \ {c} : d \in Claimants' <=> d \in Claimants
        /\ c \in Claimants' <=> "reload" \in Claimed
        /\ \A d \in Consumers \ {c} : d \in Late' <=> d \in Late
        /\ c \in Late' <=> "reload" = "advance"
        /\ Claimants' \subseteq Consumers /\ Late' \subseteq Consumers
    BY <1>1, Counts
  <2>2. pcC[c] \in InGet /\ "reload" \in InGet /\ "reload" \in Claimed
    BY <1>1 DEF InGet, Claimed
  <2>3. Stored' = Stored + (count' - count) - 1 + 1
    BY <2>1, <2>2
  <2> QED BY <1>5, <2>1, <2>2, <2>3
<1>7. Stored' = Stored
  <2>1. Stored \in Nat /\ Stored' \in Nat /\ count \in Nat /\ count' = count
    BY <1>1, StoredType, StoredTypeNext DEF StoredOK, TypeOK
  <2> QED BY <1>6, <2>1
<1>8. \A i \in Slots : flags'[i] <=> flags[i] /\ i # front
  BY <1>1, <1>2 DEF TypeOK
<1>9. \A i \in Slots : In(i)' <=> In(i)
  BY <1>1, <1>7 DEF In
<1>10. Held' = Held
  BY <1>1 DEF Held, InSlots
<1>11. Ring'
  <2>1. \A i \in Slots : flags'[i] <=> In(i)' /\ ~(i = front' /\ Claimants' # {})
    BY <1>1, <1>3, <1>4, <1>5, <1>6, <1>8, <1>9 DEF Ring
  <2> QED BY <1>1, <1>3, <1>5, <1>6, <1>7, <1>9, <2>1 DEF Ring
<1>12. Balance'
  BY <1>1, <1>3, <1>5, <1>6, <1>7, <1>10 DEF Balance
<1>13. Apart'
  BY <1>1, <1>3, SameApart
<1>14. Claim1'
  <2>1. /\ Claim1 /\ Goto(c, "reload") /\ UNCHANGED <<spmc, front>>
        /\ \A d \in Consumers \ {c} : idx'[d] = idx[d]
        /\ "reload" \in Claimed => pcC[c] \in Claimed \/ Claimants = {}
        /\ "reload" \in {"read", "clear", "advance"} => idx'[c] = front
        /\ ~spmc => c = Single /\ "reload" \notin {"load", "cas"}
    BY <1>1, <1>3, <1>4, <1>5
  <2> QED BY <2>1, SameClaim
<1> QED BY <1>11, <1>12, <1>13, <1>14 DEF Sound

(* The element is read out of the slot and taken away. *)
LEMMA ReadSound ==
    ASSUME TypeOK, TypeOK', Sound, UNCHANGED spmc, NEW c \in Consumers, Read(c)
    PROVE  Sound'
<1>1. /\ pcC[c] = "read" /\ Goto(c, "clear")
      /\ temp' = [temp EXCEPT ![c] = rq[idx[c]]]
      /\ UNCHANGED <<front, idx, flags, rear, pcP, rq, count>>
  BY DEF Read, prodVars
<1>2. pcC'[c] = "clear" /\ \A d \in Consumers \ {c} : pcC'[d] = pcC[d]
  BY <1>1 DEF TypeOK, Goto
<1>3. Claim1 /\ Ring /\ Apart /\ Balance
  BY DEF Sound
<1>4. /\ c \in Claimants /\ Claimants = {c} /\ Late = {} /\ idx[c] = front
  <2>1. c \in Claimants /\ idx[c] = front
    BY <1>1, <1>3 DEF Claim1, Claimants
  <2>2. Claimants = {c}
    BY <2>1, <1>3 DEF Claim1
  <2>3. c \notin Late
    BY <1>1 DEF Late, At
  <2> QED BY <2>1, <2>2, <2>3, <1>3, Facts
<1>5. /\ Stored' = Stored + (count' - count) - 1 + 1
      /\ Late' = {} /\ Claimants' = {c}
  <2>1. /\ Stored' = Stored + (count' - count) - (IF pcC[c] \in InGet THEN 1 ELSE 0)
                                         + (IF "clear" \in InGet THEN 1 ELSE 0)
        /\ \A d \in Consumers \ {c} : d \in Claimants' <=> d \in Claimants
        /\ c \in Claimants' <=> "clear" \in Claimed
        /\ \A d \in Consumers \ {c} : d \in Late' <=> d \in Late
        /\ c \in Late' <=> "clear" = "advance"
        /\ Claimants' \subseteq Consumers /\ Late' \subseteq Consumers
    BY <1>1, Counts
  <2>2. pcC[c] \in InGet /\ "clear" \in InGet /\ "clear" \in Claimed
    BY <1>1 DEF InGet, Claimed
  <2>3. Stored' = Stored + (count' - count) - 1 + 1
    BY <2>1, <2>2
  <2> QED BY <1>4, <2>1, <2>2, <2>3
<1>6. Stored' = Stored
  <2>1. Stored \in Nat /\ Stored' \in Nat /\ count \in Nat /\ count' = count
    BY <1>1, StoredType, StoredTypeNext DEF StoredOK, TypeOK
  <2> QED BY <1>5, <2>1
<1>7. Ring' /\ Balance'
  <2>1. /\ Ring /\ Balance /\ UNCHANGED <<spmc, front, rear, rq, flags>>
        /\ Stored' = Stored /\ (Late' = {} <=> Late = {}) /\ Cardinality(Late') = Cardinality(Late)
        /\ spmc => (Claimants' = {} <=> Claimants = {})
        /\ pcP' = pcP \/ (pcP # "flag" /\ pcP' # "flag")
    BY <1>1, <1>3, <1>4, <1>5, <1>6
  <2> QED BY <2>1, SameRing, Zenon
<1>8. temp'[c] = rq[front] /\ \A d \in Consumers \ {c} : temp'[d] = temp[d]
  BY <1>1, <1>4 DEF TypeOK
<1>9. front \in Slots /\ rq[front] \in Elems
  <2>1. c \in Permitted
    BY <1>1 DEF Permitted
  <2>2. front \in Slots /\ In(front)
    BY <1>3, <2>1, Facts
  <2> QED BY <1>3, <1>4, <2>2 DEF Ring
<1>10. \A d \in Consumers \ {c} : pcC[d] \notin {"clear", "advance"}
  BY <1>4 DEF Claimants
<1>11. Apart'
  <2>1. \A d \in Consumers \ {c} : temp[d] # rq[front]
    BY <1>3, <1>9, <1>10 DEF Apart
  <2>2. \A d \in Consumers : temp'[d] \in Elems <=> pcC'[d] \in {"clear", "advance", "work"}
    BY <1>2, <1>3, <1>8, <1>9 DEF Apart
  <2>3. \A d \in Consumers : pcC'[d] = "clear" => temp'[d] = rq'[front']
    BY <1>1, <1>2, <1>8, <1>10
  <2>4. \A d, e \in Consumers : temp'[d] = temp'[e] /\ temp'[d] \in Elems => d = e
    BY <1>3, <1>8, <2>1 DEF Apart
  <2>5. \A d \in Consumers, i \in Slots : temp'[d] = rq'[i] /\ temp'[d] \in Elems => pcC'[d] = "clear"
    BY <1>1, <1>2, <1>3, <1>8 DEF Apart
  <2>6. \A i, j \in Slots : rq'[i] = rq'[j] /\ rq'[i] \in Elems => i = j
    BY <1>1, <1>3 DEF Apart
  <2> QED BY <2>2, <2>3, <2>4, <2>5, <2>6 DEF Apart
<1>12. Claim1'
  <2>1. /\ Claim1 /\ Goto(c, "clear") /\ UNCHANGED <<spmc, front>>
        /\ \A d \in Consumers \ {c} : idx'[d] = idx[d]
        /\ "clear" \in Claimed => pcC[c] \in Claimed \/ Claimants = {}
        /\ "clear" \in {"read", "clear", "advance"} => idx'[c] = front
        /\ ~spmc => c = Single /\ "clear" \notin {"load", "cas"}
    BY <1>1, <1>3, <1>4 DEF Claim1, Claimed
  <2> QED BY <2>1, SameClaim
<1> QED BY <1>7, <1>11, <1>12 DEF Sound

(* The slot is cleared: one element less in the slots. *)
LEMMA ClearSound ==
    ASSUME TypeOK, TypeOK', Sound, UNCHANGED spmc, NEW c \in Consumers, Clear(c)
    PROVE  /\ Sound' /\ Stored' = Stored /\ Late = {} /\ Late' = {c} /\ temp[c] = rq[front]
           /\ \A i \in Slots \ {front} : rq'[i] = rq[i]
<1>1. /\ pcC[c] = "clear" /\ Goto(c, "advance")
      /\ rq' = [rq EXCEPT ![idx[c]] = Nullptr]
      /\ UNCHANGED <<front, idx, temp, flags, rear, pcP, count>>
  BY DEF Clear, prodVars
<1>2. pcC'[c] = "advance" /\ \A d \in Consumers \ {c} : pcC'[d] = pcC[d]
  BY <1>1 DEF TypeOK, Goto
<1>3. Claim1 /\ Ring /\ Apart /\ Balance
  BY DEF Sound
<1>4. /\ c \in Claimants /\ Claimants = {c} /\ Late = {} /\ idx[c] = front
  <2>1. c \in Claimants /\ idx[c] = front
    BY <1>1, <1>3 DEF Claim1, Claimants
  <2>2. Claimants = {c}
    BY <2>1, <1>3 DEF Claim1
  <2>3. c \notin Late
    BY <1>1 DEF Late, At
  <2> QED BY <2>1, <2>2, <2>3, <1>3, Facts
<1>5. /\ Stored' = Stored + (count' - count) - 1 + 1
      /\ Late' = {c} /\ Claimants' = {c} /\ Cardinality(Late') = Cardinality(Late) - 0 + 1
  <2>1. /\ Stored' = Stored + (count' - count) - (IF pcC[c] \in InGet THEN 1 ELSE 0)
                                         + (IF "advance" \in InGet THEN 1 ELSE 0)
        /\ Cardinality(Late') = Cardinality(Late) - (IF pcC[c] = "advance" THEN 1 ELSE 0)
                                              + (IF "advance" = "advance" THEN 1 ELSE 0)
        /\ \A d \in Consumers \ {c} : d \in Claimants' <=> d \in Claimants
        /\ c \in Claimants' <=> "advance" \in Claimed
        /\ \A d \in Consumers \ {c} : d \in Late' <=> d \in Late
        /\ c \in Late' <=> "advance" = "advance"
        /\ Claimants' \subseteq Consumers /\ Late' \subseteq Consumers
    BY <1>1, Counts
  <2>2. pcC[c] \in InGet /\ "advance" \in InGet /\ "advance" \in Claimed
    BY <1>1 DEF InGet, Claimed
  <2>3. Stored' = Stored + (count' - count) - 1 + 1
    BY <2>1, <2>2
  <2>4. Cardinality(Late') = Cardinality(Late) - 0 + 1
    BY <1>1, <2>1
  <2> QED BY <1>4, <2>1, <2>2, <2>3, <2>4
<1>6. Stored' = Stored
  <2>1. Stored \in Nat /\ Stored' \in Nat /\ count \in Nat /\ count' = count
    BY <1>1, StoredType, StoredTypeNext DEF StoredOK, TypeOK
  <2> QED BY <1>5, <2>1
<1>7. /\ front \in Slots /\ In(front) /\ Stored > 0
      /\ rq[front] = temp[c] /\ temp[c] \in Elems
      /\ rq'[front] = Nullptr /\ \A i \in Slots \ {front} : rq'[i] = rq[i]
  <2>1. c \in Permitted
    BY <1>1 DEF Permitted
  <2>2. front \in Slots /\ In(front) /\ Stored > 0
    BY <1>3, <2>1, Facts
  <2>3. rq[front] = temp[c] /\ temp[c] \in Elems
    BY <1>1, <1>3 DEF Apart
  <2> QED BY <1>1, <1>4, <2>2, <2>3 DEF TypeOK
<1>n. Nullptr \notin Elems
  BY Numbers
<1>8. pcP = "flag" => rear # front
  <2>1. CASE pcP = "flag"
    <3>1. Stored < Rqnum
      BY <1>3, <2>1 DEF Ring
    <3>2. Dist(front, rear, Rqnum) = Stored /\ Dist(front, front, Rqnum) = 0 /\ Stored \in 0 .. Rqnum
      BY <1>3, <3>1, Facts
    <3> QED BY <1>7, <3>2
  <2> QED BY <2>1
<1>9. \A i \in Slots : In(i)' <=> In(i)
  BY <1>1, <1>6 DEF In
<1>10. Ring'
  <2>1. pcP' = "flag" => Stored' < Rqnum /\ rq'[rear'] \in Elems
    <3>1. rear \in Slots
      BY DEF TypeOK
    <3> QED BY <1>1, <1>3, <1>6, <1>7, <1>8, <3>1 DEF Ring
  <2>2. \A i \in Slots : In(i)' => rq'[i] \in Elems \/ (i = front' /\ Late' # {})
    BY <1>1, <1>3, <1>4, <1>5, <1>7, <1>9 DEF Ring
  <2>3. \A i \in Slots : ~In(i)' => rq'[i] = Nullptr \/ (i = rear' /\ pcP' = "flag")
    BY <1>1, <1>3, <1>7, <1>9 DEF Ring
  <2>4. spmc' => \A i \in Slots : flags'[i] <=> In(i)' /\ ~(i = front' /\ Claimants' # {})
    BY <1>1, <1>3, <1>4, <1>5, <1>9 DEF Ring
  <2>5. rear' = Ahead(front', Stored', Rqnum) /\ Stored' <= Rqnum
    BY <1>1, <1>3, <1>6 DEF Ring
  <2>6. Late' # {} => rq'[front'] = Nullptr
    BY <1>1, <1>7
  <2> QED BY <2>1, <2>2, <2>3, <2>4, <2>5, <2>6 DEF Ring
<1>11. Held' = Held \ {rq[front]} /\ rq[front] \in Held /\ Held \subseteq Elems
  <2>1. rq[front] \in Held
    BY <1>7, <1>n DEF Held, InSlots
  <2>2. Held \subseteq Elems
    BY DEF Held, InSlots, TypeOK
  <2>3. ASSUME NEW x \in Held' PROVE x \in Held \ {rq[front]}
    <3>1. PICK i \in Slots : x = rq'[i] /\ x # Nullptr
      BY <2>3 DEF Held, InSlots
    <3>2. i # front /\ x = rq[i]
      BY <1>7, <3>1
    <3>3. x # rq[front]
      BY <1>3, <1>7, <3>2 DEF Apart
    <3> QED BY <3>1, <3>2, <3>3 DEF Held, InSlots
  <2>4. ASSUME NEW x \in Held \ {rq[front]} PROVE x \in Held'
    <3>1. PICK i \in Slots : x = rq[i] /\ x # Nullptr
      BY <2>4 DEF Held, InSlots
    <3>2. i # front /\ x = rq'[i]
      BY <1>7, <3>1, <2>4
    <3> QED BY <3>1, <3>2 DEF Held, InSlots
  <2> QED BY <2>1, <2>2, <2>3, <2>4
<1>12. Balance'
  <2>1. Cardinality(Held') = Cardinality(Held) - 1
    BY <1>11, ElemsCount
  <2>2. Cardinality(Held) \in Nat /\ Cardinality(Late) \in Nat /\ Stored \in Nat
    BY <1>11, ElemsCount, AtCount, StoredType DEF Late, StoredOK
  <2>3. Cardinality(Held) + Cardinality(Late) = Stored + IF pcP = "flag" THEN 1 ELSE 0
    BY <1>3 DEF Balance
  <2>4. Cardinality(Held') + Cardinality(Late') = Cardinality(Held) + Cardinality(Late)
    BY <2>1, <2>2, <1>5
  <2> QED BY <1>1, <1>6, <2>3, <2>4 DEF Balance
<1>13. Apart'
  <2>1. \A d \in Consumers : temp'[d] \in Elems <=> pcC'[d] \in {"clear", "advance", "work"}
    BY <1>1, <1>2, <1>3 DEF Apart
  <2>2. \A d \in Consumers : pcC'[d] # "clear"
    BY <1>2, <1>4 DEF Claimants
  <2>3. \A i, j \in Slots : rq'[i] = rq'[j] /\ rq'[i] \in Elems => i = j
    BY <1>3, <1>7, <1>n DEF Apart
  <2>4. \A d, e \in Consumers : temp'[d] = temp'[e] /\ temp'[d] \in Elems => d = e
    BY <1>1, <1>3 DEF Apart
  <2>5. \A d \in Consumers, i \in Slots : ~(temp'[d] = rq'[i] /\ temp'[d] \in Elems)
    <3> SUFFICES ASSUME NEW d \in Consumers, NEW i \in Slots, temp[d] = rq'[i], temp[d] \in Elems
                 PROVE  FALSE
      BY <1>1
    <3>1. i # front /\ temp[d] = rq[i]
      BY <1>7, <1>n
    <3>2. pcC[d] = "clear"
      BY <1>3, <3>1 DEF Apart
    <3>3. temp[d] = rq[front]
      BY <1>3, <3>2 DEF Apart
    <3> QED BY <1>3, <1>7, <3>1, <3>3 DEF Apart
  <2> QED BY <2>1, <2>2, <2>3, <2>4, <2>5 DEF Apart
<1>14. Claim1'
  <2>1. /\ Claim1 /\ Goto(c, "advance") /\ UNCHANGED <<spmc, front>>
        /\ \A d \in Consumers \ {c} : idx'[d] = idx[d]
        /\ "advance" \in Claimed => pcC[c] \in Claimed \/ Claimants = {}
        /\ "advance" \in {"read", "clear", "advance"} => idx'[c] = front
        /\ ~spmc => c = Single /\ "advance" \notin {"load", "cas"}
    BY <1>1, <1>3, <1>4 DEF Claim1, Claimed
  <2> QED BY <2>1, SameClaim
<1> QED BY <1>4, <1>5, <1>6, <1>7, <1>10, <1>12, <1>13, <1>14 DEF Sound

(* __front is stored: the slot has left the ring. *)
LEMMA AdvanceSound ==
    ASSUME TypeOK, TypeOK', Sound, UNCHANGED spmc, NEW c \in Consumers, Advance(c)
    PROVE  /\ Sound' /\ Stored > 0 /\ Stored' = Stored - 1 /\ front' = Succ(front, Rqnum)
           /\ Late = {c} /\ Late' = {} /\ temp[c] \in Elems
<1>1. /\ pcC[c] = "advance" /\ Goto(c, "work")
      /\ front' = Succ(idx[c], Rqnum)
      /\ UNCHANGED <<idx, temp, rq, flags, rear, pcP, count>>
  BY DEF Advance, prodVars
<1>2. pcC'[c] = "work" /\ \A d \in Consumers \ {c} : pcC'[d] = pcC[d]
  BY <1>1 DEF TypeOK, Goto
<1>3. Claim1 /\ Ring /\ Apart /\ Balance
  BY DEF Sound
<1>4. /\ c \in Claimants /\ Claimants = {c} /\ Late = {c} /\ front' = Succ(front, Rqnum)
  <2>1. c \in Claimants /\ idx[c] = front
    BY <1>1, <1>3 DEF Claim1, Claimants
  <2>2. Claimants = {c}
    BY <2>1, <1>3 DEF Claim1
  <2>3. c \in Late
    BY <1>1 DEF Late, At
  <2> QED BY <1>1, <2>1, <2>2, <2>3, <1>3, Facts
<1>5. /\ Stored' = Stored + (count' - count) - 1 + 0
      /\ Late' = {} /\ Claimants' = {} /\ Cardinality(Late') = Cardinality(Late) - 1 + 0
  <2>1. /\ Stored' = Stored + (count' - count) - (IF pcC[c] \in InGet THEN 1 ELSE 0)
                                         + (IF "work" \in InGet THEN 1 ELSE 0)
        /\ Cardinality(Late') = Cardinality(Late) - (IF pcC[c] = "advance" THEN 1 ELSE 0)
                                              + (IF "work" = "advance" THEN 1 ELSE 0)
        /\ \A d \in Consumers \ {c} : d \in Claimants' <=> d \in Claimants
        /\ c \in Claimants' <=> "work" \in Claimed
        /\ \A d \in Consumers \ {c} : d \in Late' <=> d \in Late
        /\ c \in Late' <=> "work" = "advance"
        /\ Claimants' \subseteq Consumers /\ Late' \subseteq Consumers
    BY <1>1, Counts
  <2>2. pcC[c] \in InGet /\ "work" \notin InGet /\ "work" \notin Claimed
    BY <1>1 DEF InGet, Claimed
  <2>3. Stored' = Stored + (count' - count) - 1 + 0
    BY <2>1, <2>2
  <2>4. Cardinality(Late') = Cardinality(Late) - 1 + 0
    BY <1>1, <2>1
  <2> QED BY <1>4, <2>1, <2>2, <2>3, <2>4
<1>6. Stored' = Stored - 1 /\ Stored > 0 /\ Stored \in 1 .. Rqnum
  <2>1. Stored \in Nat /\ Stored' \in Nat /\ count \in Nat /\ count' = count
    BY <1>1, StoredType, StoredTypeNext DEF StoredOK, TypeOK
  <2>2. Stored' = Stored - 1
    BY <1>5, <2>1
  <2>3. c \in Permitted
    BY <1>1 DEF Permitted
  <2>4. Stored > 0 /\ Stored \in 0 .. Rqnum
    BY <1>3, <2>3, Facts
  <2> QED BY <2>1, <2>2, <2>4
<1>7. /\ Rqnum \in Nat \ {0} /\ Slots = 0 .. Rqnum - 1 /\ front \in 0 .. Rqnum - 1
      /\ \A i \in Slots : Dist(front, i, Rqnum) \in 0 .. Rqnum - 1
      /\ Dist(front, front, Rqnum) = 0
  BY <1>3, Facts
<1>8. \A i \in Slots : In(i)' <=> In(i) /\ i # front
  <2> SUFFICES ASSUME NEW i \in Slots PROVE In(i)' <=> In(i) /\ i # front
    OBVIOUS
  <2>1. CASE i = front
    <3>1. Dist(front', i, Rqnum) = Rqnum - 1
      BY <1>4, <1>7, <2>1, DistLeft
    <3> QED BY <1>6, <1>7, <2>1, <3>1 DEF In
  <2>2. CASE i # front
    <3>1. Dist(front', i, Rqnum) = Dist(front, i, Rqnum) - 1
      BY <1>4, <1>7, <2>2, DistSucc
    <3>2. Dist(front, i, Rqnum) - 1 < Stored - 1 <=> Dist(front, i, Rqnum) < Stored
      <4>1. Dist(front, i, Rqnum) \in Int /\ Stored \in Int
        BY <1>6, <1>7
      <4> QED BY <4>1
    <3> QED BY <1>6, <2>2, <3>1, <3>2 DEF In
  <2> QED BY <2>1, <2>2
<1>9. rear' = Ahead(front', Stored', Rqnum) /\ Stored' <= Rqnum
  <2>1. Stored - 1 \in 0 .. Rqnum - 1 /\ (Stored - 1) + 1 = Stored
    <3>1. Rqnum \in Nat /\ Stored \in 1 .. Rqnum
      BY <1>6, <1>7
    <3> QED BY <3>1
  <2>2. Ahead(Succ(front, Rqnum), Stored - 1, Rqnum) = Ahead(front, (Stored - 1) + 1, Rqnum)
    BY <1>7, <2>1, AheadSucc
  <2>3. Stored - 1 <= Rqnum
    BY <1>6, <1>7
  <2> QED BY <1>1, <1>3, <1>4, <1>6, <2>1, <2>2, <2>3 DEF Ring
<1>10. Ring'
  <2>1. pcP' = "flag" => Stored' < Rqnum /\ rq'[rear'] \in Elems
    BY <1>1, <1>3, <1>6, <1>7 DEF Ring
  <2>2. \A i \in Slots : In(i)' => rq'[i] \in Elems
    BY <1>1, <1>3, <1>8 DEF Ring
  <2>3. \A i \in Slots : ~In(i)' => rq'[i] = Nullptr \/ (i = rear' /\ pcP' = "flag")
    BY <1>1, <1>3, <1>4, <1>8 DEF Ring
  <2>4. spmc' => \A i \in Slots : flags'[i] <=> In(i)'
    BY <1>1, <1>3, <1>4, <1>8 DEF Ring
  <2> QED BY <1>5, <1>9, <2>1, <2>2, <2>3, <2>4 DEF Ring
<1>11. Balance'
  <2>1. Held' = Held /\ Held \subseteq Elems
    BY <1>1 DEF Held, InSlots, TypeOK
  <2>2. Cardinality(Held) \in Nat /\ Cardinality(Late) \in Nat /\ Stored \in Nat
    BY <2>1, ElemsCount, AtCount, StoredType DEF Late, StoredOK
  <2>3. Cardinality(Held) + Cardinality(Late) = Stored + IF pcP = "flag" THEN 1 ELSE 0
    BY <1>3 DEF Balance
  <2>4. Cardinality(Held') + Cardinality(Late') = Cardinality(Held) + Cardinality(Late) - 1
    BY <2>1, <2>2, <1>5
  <2>5. Cardinality(Held') + Cardinality(Late') = Stored' + IF pcP = "flag" THEN 1 ELSE 0
    BY <1>6, <2>2, <2>3, <2>4
  <2> QED BY <1>1, <2>5 DEF Balance
<1>12. \A d \in Consumers : pcC'[d] \notin {"reload", "read", "clear", "advance"}
  BY <1>5 DEF Claimants
<1>13. Apart'
  <2>1. \A d \in Consumers : temp'[d] \in Elems <=> pcC'[d] \in {"clear", "advance", "work"}
    BY <1>1, <1>2, <1>3 DEF Apart
  <2>2. \A d \in Consumers : pcC[d] # "clear"
    BY <1>1, <1>2, <1>12
  <2>3. \A i, j \in Slots : rq'[i] = rq'[j] /\ rq'[i] \in Elems => i = j
    BY <1>1, <1>3 DEF Apart
  <2>4. \A d, e \in Consumers : temp'[d] = temp'[e] /\ temp'[d] \in Elems => d = e
    BY <1>1, <1>3 DEF Apart
  <2>5. \A d \in Consumers, i \in Slots : ~(temp'[d] = rq'[i] /\ temp'[d] \in Elems)
    BY <1>1, <1>3, <2>2 DEF Apart
  <2> QED BY <1>12, <2>1, <2>3, <2>4, <2>5 DEF Apart
<1>14. Claim1'
  <2>1. ~spmc' => \A d \in Consumers : /\ d # Single => pcC'[d] = "idle"
                                       /\ pcC'[d] \notin {"load", "cas"}
    BY <1>1, <1>2, <1>3 DEF Claim1
  <2> QED BY <1>5, <1>12, <2>1 DEF Claim1
<1>15. temp[c] \in Elems
  BY <1>1, <1>3 DEF Apart
<1> QED BY <1>4, <1>5, <1>6, <1>10, <1>11, <1>13, <1>14, <1>15 DEF Sound

(* The worker is done with its element. *)
LEMMA FinishSound ==
    ASSUME TypeOK, TypeOK', Sound, UNCHANGED spmc, NEW c \in Consumers, Finish(c)
    PROVE  Sound' /\ Stored' = Stored /\ Late' = Late
<1>1. /\ pcC[c] = "work" /\ Goto(c, "idle")
      /\ temp' = [temp EXCEPT ![c] = Nullptr]
      /\ UNCHANGED <<front, idx, rq, flags, rear, pcP, count>>
  BY DEF Finish, prodVars
<1>2. pcC'[c] = "idle" /\ \A d \in Consumers \ {c} : pcC'[d] = pcC[d]
  BY <1>1 DEF TypeOK, Goto
<1>3. Claim1 /\ Ring /\ Apart /\ Balance
  BY DEF Sound
<1>4. c \notin Claimants /\ c \notin Late /\ Late \subseteq Consumers /\ Claimants \subseteq Consumers
  BY <1>1 DEF Claimants, Late, At
<1>5. /\ Stored' = Stored + (count' - count) - 0 + 0
      /\ Late' = Late /\ Claimants' = Claimants
  <2>1. /\ Stored' = Stored + (count' - count) - (IF pcC[c] \in InGet THEN 1 ELSE 0)
                                         + (IF "idle" \in InGet THEN 1 ELSE 0)
        /\ \A d \in Consumers \ {c} : d \in Claimants' <=> d \in Claimants
        /\ c \in Claimants' <=> "idle" \in Claimed
        /\ \A d \in Consumers \ {c} : d \in Late' <=> d \in Late
        /\ c \in Late' <=> "idle" = "advance"
        /\ Claimants' \subseteq Consumers /\ Late' \subseteq Consumers
    BY <1>1, Counts
  <2>2. pcC[c] \notin InGet /\ "idle" \notin InGet /\ "idle" \notin Claimed
    BY <1>1 DEF InGet, Claimed
  <2>3. Stored' = Stored + (count' - count) - 0 + 0
    BY <2>1, <2>2
  <2>4. Late' = Late
    BY <1>4, <2>1
  <2>5. Claimants' = Claimants
    <3>1. c \notin Claimants'
      BY <2>1, <2>2, Zenon
    <3> QED BY <1>4, <2>1, <3>1
  <2> QED BY <2>3, <2>4, <2>5
<1>6. Stored' = Stored
  <2>1. Stored \in Nat /\ Stored' \in Nat /\ count \in Nat /\ count' = count
    BY <1>1, StoredType, StoredTypeNext DEF StoredOK, TypeOK
  <2> QED BY <1>5, <2>1
<1>7. Ring' /\ Balance'
  <2>1. /\ Ring /\ Balance /\ UNCHANGED <<spmc, front, rear, rq, flags>>
        /\ Stored' = Stored /\ (Late' = {} <=> Late = {}) /\ Cardinality(Late') = Cardinality(Late)
        /\ spmc => (Claimants' = {} <=> Claimants = {})
        /\ pcP' = pcP \/ (pcP # "flag" /\ pcP' # "flag")
    BY <1>1, <1>3, <1>5, <1>6
  <2> QED BY <2>1, SameRing, Zenon
<1>8. temp'[c] = Nullptr /\ Nullptr \notin Elems /\ \A d \in Consumers \ {c} : temp'[d] = temp[d]
  BY <1>1, Numbers DEF TypeOK
<1>9. Apart'
  <2>1. \A d \in Consumers : temp'[d] \in Elems <=> pcC'[d] \in {"clear", "advance", "work"}
    BY <1>2, <1>3, <1>8 DEF Apart
  <2>2. \A d \in Consumers : pcC'[d] = "clear" => temp'[d] = rq'[front']
    BY <1>1, <1>2, <1>3, <1>8 DEF Apart
  <2>3. \A d, e \in Consumers : temp'[d] = temp'[e] /\ temp'[d] \in Elems => d = e
    BY <1>3, <1>8 DEF Apart
  <2>4. \A d \in Consumers, i \in Slots : temp'[d] = rq'[i] /\ temp'[d] \in Elems => pcC'[d] = "clear"
    BY <1>1, <1>2, <1>3, <1>8 DEF Apart
  <2>5. \A i, j \in Slots : rq'[i] = rq'[j] /\ rq'[i] \in Elems => i = j
    BY <1>1, <1>3 DEF Apart
  <2> QED BY <2>1, <2>2, <2>3, <2>4, <2>5 DEF Apart
<1>10. Claim1'
  <2>1. /\ Claim1 /\ Goto(c, "idle") /\ UNCHANGED <<spmc, front>>
        /\ \A d \in Consumers \ {c} : idx'[d] = idx[d]
        /\ "idle" \in Claimed => pcC[c] \in Claimed \/ Claimants = {}
        /\ "idle" \in {"read", "clear", "advance"} => idx'[c] = front
        /\ ~spmc => c = Single /\ "idle" \notin {"load", "cas"}
    BY <1>1, <1>3 DEF Claim1, Claimed
  <2> QED BY <2>1, SameClaim
<1> QED BY <1>5, <1>6, <1>7, <1>9, <1>10 DEF Sound
-----------------------------------------------------------------------------
(* The workers, when the producer steps. *)
LEMMA Workers ==
    ASSUME UNCHANGED <<spmc, consVars>>
    PROVE  /\ Permitted' = Permitted /\ Claimants' = Claimants /\ Late' = Late
           /\ Claim1 => Claim1'
<1>1. Permitted' = Permitted /\ Claimants' = Claimants /\ Late' = Late
  BY DEF Permitted, Claimants, Late, At, consVars
<1> QED BY <1>1 DEF Claim1, consVars

(* There is room: the elements in the slots, the one a worker is about to  *)
(* leave with and the one to be put are different, and fit.                *)
LEMMA Room ==
    ASSUME TypeOK, Sound, pcP = "idle", NEW e \in Elems \ (InSlots \union WithWorkers)
    PROVE  Stored < Rqnum /\ rq[rear] = Nullptr
<1>1. Claim1 /\ Ring /\ Apart /\ Balance
  BY DEF Sound
<1>2. Held \subseteq Elems /\ e \notin Held
  BY DEF Held, InSlots, TypeOK
<1>3. Stored \in Nat /\ Cardinality(Held) + Cardinality(Late) = Stored
  <2>1. Cardinality(Held) \in Nat /\ Cardinality(Late) \in Nat /\ Stored \in Nat
    BY <1>2, ElemsCount, AtCount, StoredType DEF Late, StoredOK
  <2>2. Cardinality(Held) + Cardinality(Late) = Stored + 0
    BY <1>1 DEF Balance
  <2> QED BY <2>1, <2>2
<1>4. \E S \in SUBSET Elems : e \notin S /\ Cardinality(S) = Stored
  <2>1. CASE Late = {}
    <3>1. Cardinality(Late) = 0 /\ Cardinality(Held) \in Nat
      BY <2>1, <1>2, FS_EmptySet, ElemsCount
    <3>2. Cardinality(Held) = Stored
      BY <1>3, <3>1
    <3> QED BY <1>2, <3>2
  <2>2. CASE Late # {}
    <3>1. PICK c \in Late : TRUE
      BY <2>2
    <3>2. c \in Consumers /\ pcC[c] = "advance"
      BY <3>1 DEF Late, At
    <3>3. Late = {c}
      <4>1. \A d \in Late : d \in Claimants
        BY DEF Late, At, Claimants
      <4> QED BY <1>1, <3>1, <4>1 DEF Claim1
    <3>4. temp[c] \in Elems /\ temp[c] # e
      BY <1>1, <3>2 DEF Apart, WithWorkers
    <3>5. temp[c] \notin Held
      BY <1>1, <3>2, <3>4 DEF Apart, Held, InSlots
    <3>6. Cardinality(Late) = 1 /\ Cardinality(Held) \in Nat
      BY <3>3, <1>2, FS_Singleton, ElemsCount
    <3>7. Cardinality(Held \union {temp[c]}) = Cardinality(Held) + 1
      BY <1>2, <3>4, <3>5, ElemsCount
    <3>8. Cardinality(Held \union {temp[c]}) = Stored
      BY <1>3, <3>6, <3>7
    <3>9. Held \union {temp[c]} \in SUBSET Elems /\ e \notin Held \union {temp[c]}
      BY <1>2, <3>4
    <3> QED BY <3>8, <3>9
  <2> QED BY <2>1, <2>2
<1>5. Stored < Rqnum
  <2>1. PICK S \in SUBSET Elems : e \notin S /\ Cardinality(S) = Stored
    BY <1>4
  <2>2. Cardinality(S \union {e}) = Stored + 1
    BY <2>1, ElemsCount
  <2>3. Cardinality(S \union {e}) <= Cardinality(Elems)
    <3>1. S \union {e} \in SUBSET Elems
      OBVIOUS
    <3> QED BY <3>1, ElemsCount
  <2>4. Cardinality(Elems) \in Nat /\ Cardinality(Elems) <= Rqnum /\ Rqnum \in Nat
    BY Numbers
  <2> QED BY <1>3, <2>2, <2>3, <2>4
<1>6. rq[rear] = Nullptr
  <2>1. rear \in Slots /\ Dist(front, rear, Rqnum) = Stored
    BY <1>1, <1>5, Facts
  <2>2. ~In(rear)
    BY <1>3, <2>1 DEF In
  <2> QED BY <1>1, <2>1, <2>2 DEF Ring
<1> QED BY <1>5, <1>6

(* put stores its element ... *)
LEMMA StoreSound ==
    ASSUME TypeOK, TypeOK', Sound, UNCHANGED spmc, PutStore
    PROVE  /\ Sound' /\ Stored' = Stored /\ Late' = Late
           /\ Stored < Rqnum /\ Dist(front, rear, Rqnum) = Stored
           /\ \A i \in Slots \ {rear} : rq'[i] = rq[i]
<1>1. PICK e \in Elems \ (InSlots \union WithWorkers) : rq' = [rq EXCEPT ![rear] = e]
  BY DEF PutStore
<1>2. pcP = "idle" /\ pcP' = "flag" /\ UNCHANGED <<rear, flags, count, consVars, front, temp, pcC>>
  BY DEF PutStore, consVars
<1>3. Claim1 /\ Ring /\ Apart /\ Balance
  BY DEF Sound
<1>4. /\ Permitted' = Permitted /\ Claimants' = Claimants /\ Late' = Late /\ Claim1'
  BY <1>2, <1>3, Workers
<1>5. Stored' = Stored
  BY <1>2, <1>4 DEF Stored
<1>6. Stored < Rqnum /\ rq[rear] = Nullptr
  BY <1>2, Room
<1>7. /\ rear \in Slots /\ front \in Slots /\ Dist(front, rear, Rqnum) = Stored
      /\ Dist(front, front, Rqnum) = 0 /\ Stored \in 0 .. Rqnum
  BY <1>3, <1>6, Facts
<1>8. rq'[rear] = e /\ e \in Elems /\ \A i \in Slots \ {rear} : rq'[i] = rq[i]
  BY <1>1, <1>7 DEF TypeOK
<1>9. Permitted # {} => rear # front
  <2>1. Permitted # {} => Stored > 0
    BY StoredType DEF StoredOK
  <2> QED BY <1>7, <2>1
<1>10. ~In(rear) /\ \A i \in Slots : In(i)' <=> In(i)
  BY <1>2, <1>5, <1>7 DEF In
<1>11. Claimants \subseteq Permitted /\ Late \subseteq Claimants
  BY <1>3, Facts
<1>12. Ring'
  <2>1. Late' # {} => rq'[front'] = Nullptr
    BY <1>2, <1>3, <1>4, <1>7, <1>8, <1>9, <1>11 DEF Ring
  <2>2. \A i \in Slots : In(i)' => rq'[i] \in Elems \/ (i = front' /\ Late' # {})
    BY <1>2, <1>3, <1>4, <1>8, <1>10 DEF Ring
  <2>3. \A i \in Slots : ~In(i)' => rq'[i] = Nullptr \/ (i = rear' /\ pcP' = "flag")
    BY <1>2, <1>3, <1>8, <1>10 DEF Ring
  <2>4. spmc' => \A i \in Slots : flags'[i] <=> In(i)' /\ ~(i = front' /\ Claimants' # {})
    BY <1>2, <1>3, <1>4, <1>10 DEF Ring
  <2>5. rear' = Ahead(front', Stored', Rqnum) /\ Stored' <= Rqnum
    BY <1>2, <1>3, <1>5 DEF Ring
  <2>6. Stored' < Rqnum /\ rq'[rear'] \in Elems
    BY <1>2, <1>5, <1>6, <1>8
  <2> QED BY <2>1, <2>2, <2>3, <2>4, <2>5, <2>6 DEF Ring
<1>13. Held' = Held \union {e} /\ e \notin Held /\ Held \subseteq Elems
  <2>1. Held \subseteq Elems /\ e \notin Held
    BY DEF Held, InSlots, TypeOK
  <2>2. e \in Held'
    BY <1>7, <1>8, Numbers DEF Held, InSlots
  <2>3. ASSUME NEW x \in Held', x # e PROVE x \in Held
    <3>1. PICK i \in Slots : x = rq'[i] /\ x # Nullptr
      BY DEF Held, InSlots
    <3>2. x = rq[i]
      BY <1>8, <3>1, <2>3
    <3> QED BY <3>1, <3>2 DEF Held, InSlots
  <2>4. ASSUME NEW x \in Held PROVE x \in Held'
    <3>1. PICK i \in Slots : x = rq[i] /\ x # Nullptr
      BY DEF Held, InSlots
    <3>2. x = rq'[i]
      BY <1>6, <1>8, <3>1
    <3> QED BY <3>1, <3>2 DEF Held, InSlots
  <2> QED BY <2>1, <2>2, <2>3, <2>4
<1>14. Balance'
  <2>1. Cardinality(Held') = Cardinality(Held) + 1
    BY <1>1, <1>13, ElemsCount
  <2>2. Cardinality(Held) \in Nat /\ Cardinality(Late) \in Nat /\ Stored \in Nat
    BY <1>13, ElemsCount, AtCount, StoredType DEF Late, StoredOK
  <2>3. Cardinality(Held) + Cardinality(Late) = Stored + 0
    BY <1>2, <1>3 DEF Balance
  <2>4. Cardinality(Held') + Cardinality(Late') = Stored' + 1
    BY <1>4, <1>5, <2>1, <2>2, <2>3
  <2> QED BY <1>2, <2>4 DEF Balance
<1>15. Apart'
  <2>1. /\ \A i \in Slots : rq[i] # e
        /\ \A d \in Consumers : temp[d] # e
    BY <1>1 DEF InSlots, WithWorkers
  <2>2. \A d \in Consumers : pcC'[d] = "clear" => temp'[d] = rq'[front']
    <3>1. \A d \in Consumers : pcC[d] = "clear" => d \in Permitted
      BY DEF Permitted
    <3> QED BY <1>2, <1>3, <1>7, <1>8, <1>9, <3>1 DEF Apart
  <2>3. \A i, j \in Slots : rq'[i] = rq'[j] /\ rq'[i] \in Elems => i = j
    BY <1>3, <1>8, <2>1 DEF Apart
  <2>4. \A d \in Consumers, i \in Slots : temp'[d] = rq'[i] /\ temp'[d] \in Elems => pcC'[d] = "clear"
    BY <1>2, <1>3, <1>8, <2>1 DEF Apart
  <2> QED BY <1>2, <1>3, <2>2, <2>3, <2>4 DEF Apart
<1> QED BY <1>4, <1>5, <1>6, <1>7, <1>8, <1>12, <1>14, <1>15 DEF Sound

(* ... and sets the flag and advances __rear: one element more ...         *)
LEMMA FlagSound ==
    ASSUME TypeOK, TypeOK', Sound, UNCHANGED spmc, PutFlag
    PROVE  /\ Sound' /\ Stored' = Stored + 1 /\ Late' = Late
           /\ Stored \in 0 .. Rqnum - 1 /\ rq[rear] \in Elems /\ Dist(front, rear, Rqnum) = Stored
<1>1. /\ pcP = "flag" /\ pcP' = "post" /\ rear' = Succ(rear, Rqnum)
      /\ flags' = IF spmc THEN [flags EXCEPT ![rear] = TRUE] ELSE flags
      /\ UNCHANGED <<rq, count, consVars, front, temp, pcC>>
  BY DEF PutFlag, consVars
<1>2. Claim1 /\ Ring /\ Apart /\ Balance
  BY DEF Sound
<1>3. /\ Permitted' = Permitted /\ Claimants' = Claimants /\ Late' = Late /\ Claim1'
  BY <1>1, <1>2, Workers
<1>4. Stored' = Stored + 1
  <2>1. count \in Nat /\ Cardinality(Permitted) \in Nat
    BY StoredType DEF TypeOK, StoredOK
  <2> QED BY <1>1, <1>3, <2>1 DEF Stored
<1>5. Stored < Rqnum /\ rq[rear] \in Elems
  BY <1>1, <1>2 DEF Ring
<1>6. /\ Rqnum \in Nat \ {0} /\ Slots = 0 .. Rqnum - 1
      /\ front \in 0 .. Rqnum - 1 /\ rear \in 0 .. Rqnum - 1
      /\ Stored \in 0 .. Rqnum /\ Dist(front, rear, Rqnum) = Stored
      /\ Dist(front, front, Rqnum) = 0
      /\ \A i \in Slots : Dist(front, i, Rqnum) \in 0 .. Rqnum - 1
      /\ Claimants \subseteq Permitted
  BY <1>2, <1>5, Facts
<1>7. Stored \in 0 .. Rqnum - 1 /\ Stored + 1 <= Rqnum
  <2>1. Stored \in Nat /\ Rqnum \in Nat /\ Stored < Rqnum
    BY <1>5, <1>6
  <2> QED BY <2>1
<1>8. rear' = Ahead(front, Stored + 1, Rqnum)
  <2>1. rear = Ahead(front, Stored, Rqnum)
    BY <1>2 DEF Ring
  <2> QED BY <1>1, <1>6, <1>7, <2>1, AheadSucc
<1>9. \A i \in Slots : In(i)' <=> In(i) \/ i = rear
  <2> SUFFICES ASSUME NEW i \in Slots PROVE In(i)' <=> In(i) \/ i = rear
    OBVIOUS
  <2>1. Dist(front, i, Rqnum) = Stored <=> i = rear
    <3>1. rear = Ahead(front, Stored, Rqnum)
      BY <1>2 DEF Ring
    <3>2. /\ Rqnum \in Nat \ {0} /\ front \in 0 .. Rqnum - 1 /\ i \in 0 .. Rqnum - 1
          /\ Stored \in 0 .. Rqnum - 1
      BY <1>6, <1>7
    <3> QED BY <3>1, <3>2, DistAhead
  <2>2. Dist(front, i, Rqnum) < Stored + 1 <=> Dist(front, i, Rqnum) < Stored \/ Dist(front, i, Rqnum) = Stored
    <3>1. Dist(front, i, Rqnum) \in Int /\ Stored \in Int
      BY <1>6
    <3> QED BY <3>1
  <2> QED BY <1>1, <1>4, <2>1, <2>2 DEF In
<1>10. Claimants # {} => rear # front
  <2>1. Permitted # {} => Stored > 0
    BY StoredType DEF StoredOK
  <2> QED BY <1>6, <2>1
<1>11. ~In(rear)
  BY <1>6 DEF In
<1>12. Ring'
  <2>1. Late' # {} => rq'[front'] = Nullptr
    BY <1>1, <1>2, <1>3 DEF Ring
  <2>2. \A i \in Slots : In(i)' => rq'[i] \in Elems \/ (i = front' /\ Late' # {})
    BY <1>1, <1>2, <1>3, <1>5, <1>9 DEF Ring
  <2>3. \A i \in Slots : ~In(i)' => rq'[i] = Nullptr
    BY <1>1, <1>2, <1>9 DEF Ring
  <2>4. spmc => \A i \in Slots : flags'[i] <=> In(i)' /\ ~(i = front' /\ Claimants' # {})
    <3> SUFFICES ASSUME spmc, NEW i \in Slots
                 PROVE  flags'[i] <=> In(i)' /\ ~(i = front' /\ Claimants' # {})
      OBVIOUS
    <3>1. flags'[rear] /\ \A j \in Slots \ {rear} : flags'[j] = flags[j]
      BY <1>1, <1>6 DEF TypeOK
    <3>2. flags[i] <=> In(i) /\ ~(i = front /\ Claimants # {})
      BY <1>2 DEF Ring
    <3> QED BY <1>1, <1>3, <1>9, <1>10, <3>1, <3>2
  <2>5. rear' = Ahead(front', Stored', Rqnum) /\ Stored' <= Rqnum
    BY <1>1, <1>4, <1>7, <1>8
  <2> QED BY <1>1, <2>1, <2>2, <2>3, <2>4, <2>5 DEF Ring
<1>13. Balance'
  <2>1. Held' = Held
    BY <1>1 DEF Held, InSlots
  <2>2. Cardinality(Held) + Cardinality(Late) = Stored + 1
    BY <1>1, <1>2 DEF Balance
  <2>3. Stored + 1 \in Nat
    BY <1>6
  <2>4. Cardinality(Held') + Cardinality(Late') = Stored' + 0
    BY <1>3, <1>4, <2>1, <2>2, <2>3
  <2> QED BY <1>1, <2>4 DEF Balance
<1>14. Apart'
  BY <1>1, <1>2 DEF Apart
<1> QED BY <1>3, <1>4, <1>5, <1>6, <1>7, <1>12, <1>13, <1>14 DEF Sound

(* ... and posts the semaphore.  The destructor does not touch the ring.   *)
LEMMA PostSound ==
    ASSUME TypeOK, TypeOK', Sound, UNCHANGED spmc, PutPost \/ Destroy \/ Free
    PROVE  Sound' /\ Stored' = Stored /\ Late' = Late
<1>1. /\ UNCHANGED <<rear, rq, flags, consVars, front, temp, pcC>>
      /\ pcP # "flag" /\ pcP' # "flag"
  BY DEF PutPost, Destroy, Free, consVars
<1>2. Claim1 /\ Ring /\ Apart /\ Balance
  BY DEF Sound
<1>3. /\ Permitted' = Permitted /\ Claimants' = Claimants /\ Late' = Late /\ Claim1'
  BY <1>1, <1>2, Workers
<1>4. Stored' = Stored
  <2>1. count \in Nat /\ Cardinality(Permitted) \in Nat
    BY StoredType DEF TypeOK, StoredOK
  <2>2. CASE PutPost
    BY <1>3, <2>1, <2>2 DEF Stored, PutPost
  <2>3. CASE Destroy \/ Free
    BY <1>3, <2>3 DEF Stored, Destroy, Free
  <2> QED BY <2>2, <2>3
<1>5. Ring' /\ Balance'
  <2>1. /\ Ring /\ Balance /\ UNCHANGED <<spmc, front, rear, rq, flags>>
        /\ Stored' = Stored /\ (Late' = {} <=> Late = {}) /\ Cardinality(Late') = Cardinality(Late)
        /\ spmc => (Claimants' = {} <=> Claimants = {})
        /\ pcP' = pcP \/ (pcP # "flag" /\ pcP' # "flag")
    BY <1>1, <1>2, <1>3, <1>4
  <2> QED BY <2>1, SameRing, Zenon
<1>6. Apart'
  BY <1>1, <1>2 DEF Apart
<1> QED BY <1>3, <1>4, <1>5, <1>6 DEF Sound
-----------------------------------------------------------------------------
LEMMA Inductive == IInv /\ [Next]_vars => IInv'
<1> SUFFICES ASSUME IInv, [Next]_vars PROVE IInv'
  OBVIOUS
<1>1. TypeOK /\ TypeOK'
  BY TypeStep DEF IInv
<1>2. CASE UNCHANGED vars
  <2>1. UNCHANGED <<spmc, front, rear, rq, flags, count, pcP, pcC, idx, temp, lapped>>
    BY <1>2 DEF vars, prodVars, consVars
  <2>2. /\ Permitted' = Permitted /\ Claimants' = Claimants /\ Late' = Late
        /\ Claim1 => Claim1'
    BY <2>1, Workers DEF consVars
  <2>3. Stored' = Stored
    BY <2>1, <2>2 DEF Stored
  <2>4. ~lapped => Ring' /\ Balance'
    <3> SUFFICES ASSUME ~lapped PROVE Ring' /\ Balance'
      OBVIOUS
    <3>1. /\ Ring /\ Balance /\ UNCHANGED <<spmc, front, rear, rq, flags>>
          /\ Stored' = Stored /\ (Late' = {} <=> Late = {}) /\ Cardinality(Late') = Cardinality(Late)
          /\ spmc => (Claimants' = {} <=> Claimants = {})
          /\ pcP' = pcP \/ (pcP # "flag" /\ pcP' # "flag")
      BY <2>1, <2>2, <2>3 DEF IInv, Sound
    <3> QED BY <3>1, SameRing, Zenon
  <2>5. ~lapped => Apart'
    BY <2>1 DEF IInv, Sound, Apart
  <2> QED BY <1>1, <2>1, <2>2, <2>4, <2>5 DEF IInv, Sound
<1>3. CASE pcP # "freed" /\ Producer /\ UNCHANGED spmc
  <2>1. lapped' = lapped
    BY <1>3 DEF Producer, PutStore, PutFlag, PutPost, Destroy, Free, consVars
  <2>2. pcP' = "freed" => count' = 0
    BY <1>3 DEF Producer, PutStore, PutFlag, PutPost, Destroy, Free
  <2>3. ~lapped => Sound'
    BY <1>1, <1>3, StoreSound, FlagSound, PostSound DEF IInv, Producer
  <2> QED BY <1>1, <2>1, <2>2, <2>3 DEF IInv
<1>4. ASSUME NEW c \in Consumers, pcP # "freed", UNCHANGED spmc, Get(c) \/ Finish(c) PROVE IInv'
  <2>1. pcP' = pcP
    BY <1>4 DEF Get, Finish, Wait, Load, Busy, Claim, Reload, Read, Clear, Advance, prodVars
  <2>2. ~lapped' => ~lapped
    <3>1. CASE Claim(c)
      BY <3>1, Zenon DEF Claim
    <3>2. CASE ~Claim(c)
      BY <1>4, <3>2 DEF Get, Finish, Wait, Load, Busy, Reload, Read, Clear, Advance
    <3> QED BY <3>1, <3>2
  <2>3. ~lapped' => Sound'
    <3> SUFFICES ASSUME ~lapped' PROVE Sound'
      OBVIOUS
    <3>1. Sound
      BY <2>2 DEF IInv
    <3>2. CASE Wait(c)
      BY <1>1, <1>4, <3>1, <3>2, WaitSound
    <3>3. CASE Load(c) \/ Busy(c) \/ Reload(c)
      BY <1>1, <1>4, <3>1, <3>3, MoveSound
    <3>4. CASE Claim(c)
      BY <1>1, <1>4, <3>1, <3>4, ClaimSound
    <3>5. CASE Read(c)
      BY <1>1, <1>4, <3>1, <3>5, ReadSound
    <3>6. CASE Clear(c)
      BY <1>1, <1>4, <3>1, <3>6, ClearSound
    <3>7. CASE Advance(c)
      BY <1>1, <1>4, <3>1, <3>7, AdvanceSound
    <3>8. CASE Finish(c)
      BY <1>1, <1>4, <3>1, <3>8, FinishSound
    <3> QED BY <1>4, <3>2, <3>3, <3>4, <3>5, <3>6, <3>7, <3>8 DEF Get
  <2> QED BY <1>1, <1>4, <2>1, <2>3 DEF IInv
<1> QED BY <1>2, <1>3, <1>4 DEF Next, Alive

THEOREM Invariance == Spec => []IInv
BY InitInv, Inductive, PTL DEF Spec
-----------------------------------------------------------------------------
(* queue.hpp:139-161: until a worker is lapped, no completed work request  *)
(* is in two places, and get returns no null pointer.                      *)
THEOREM DeliversOnce == Spec => []NoDoubleDelivery
<1>1. IInv => NoDoubleDelivery
  <2> SUFFICES ASSUME IInv, ~lapped PROVE NoDoubleDelivery
    BY DEF NoDoubleDelivery
  <2>1. TypeOK /\ Claim1 /\ Apart /\ Nullptr \notin Elems
    BY Numbers DEF IInv, Sound
  <2>2. ASSUME NEW e \in Elems
        PROVE  Cardinality({<<"slot", i>> : i \in {i \in Slots : rq[i] = e /\
                              \A c \in Consumers : ~(pcC[c] = "clear" /\ idx[c] = i)}}
                        \union {<<"worker", c>> : c \in {c \in Consumers : temp[c] = e}}) <= 1
    <3> DEFINE A == {<<"slot", i>> : i \in {i \in Slots : rq[i] = e /\
                              \A c \in Consumers : ~(pcC[c] = "clear" /\ idx[c] = i)}}
               B == {<<"worker", c>> : c \in {c \in Consumers : temp[c] = e}}
               O == A \union B
    <3>1. \A x, y \in A : x = y
      BY <2>1 DEF Apart
    <3>2. \A x, y \in B : x = y
      BY <2>1 DEF Apart
    <3>3. A = {} \/ B = {}
      <4> SUFFICES ASSUME A # {}, B # {} PROVE FALSE
        OBVIOUS
      <4>1. PICK i \in Slots : rq[i] = e /\ \A c \in Consumers : ~(pcC[c] = "clear" /\ idx[c] = i)
        OBVIOUS
      <4>2. PICK c \in Consumers : temp[c] = e
        OBVIOUS
      <4>3. pcC[c] = "clear" /\ idx[c] = front /\ rq[front] = e /\ front \in Slots
        BY <2>1, <4>1, <4>2 DEF Apart, Claim1, TypeOK
      <4>4. i = front
        BY <2>1, <4>1, <4>3 DEF Apart
      <4> QED BY <4>1, <4>3, <4>4
    <3> HIDE DEF A, B
    <3>4. \A x, y \in O : x = y
      BY <3>1, <3>2, <3>3
    <3> HIDE DEF O
    <3>5. CASE O = {}
      BY <3>5, FS_EmptySet DEF A, B, O
    <3>6. CASE O # {}
      <4>1. PICK x \in O : TRUE
        BY <3>6
      <4>2. O = {x}
        BY <3>4, <4>1
      <4>3. Cardinality(O) = 1
        BY <4>2, FS_Singleton
      <4> QED BY <4>3 DEF A, B, O
    <3> QED BY <3>5, <3>6
  <2>3. \A c, d \in Claimants : c = d
    BY <2>1 DEF Claim1
  <2>4. \A c \in Consumers : pcC[c] \in {"clear", "advance", "work"} => temp[c] # Nullptr
    BY <2>1 DEF Apart
  <2> QED BY <2>2, <2>3, <2>4 DEF NoDoubleDelivery
<1> QED BY <1>1, Invariance, PTL

(* put, which does not look for room, always finds it: the ring is never   *)
(* run over, for every capacity at least the number of elements.           *)
THEOREM AlwaysRoom == Spec => []RoomForPut
<1>1. IInv => RoomForPut
  <2> SUFFICES ASSUME IInv, ~lapped PROVE RoomForPut
    BY DEF RoomForPut
  <2>1. Ring /\ Balance
    BY DEF IInv, Sound
  <2>2. Late = {c \in Consumers : pcC[c] = "advance"} /\ Held = InSlots \ {Nullptr}
    BY DEF Late, At, Held
  <2>3. pcP = "idle" => Stored = Cardinality(Held) + Cardinality(Late)
    <3>1. Stored \in Nat
      BY StoredType DEF IInv, StoredOK
    <3>2. pcP = "idle" => Cardinality(Held) + Cardinality(Late) = Stored + 0
      BY <2>1 DEF Balance
    <3> QED BY <3>1, <3>2
  <2>4. rear = Ahead(front, Stored, Rqnum)
    BY <2>1 DEF Ring
  <2> QED BY <2>2, <2>3, <2>4 DEF RoomForPut
<1> QED BY <1>1, Invariance, PTL

(* queue.hpp:117: the destructor frees the ring when no element is in it   *)
(* but those that a get under way will take.                               *)
THEOREM DrainsFirst == Spec => []FreedDrained
<1>1. IInv => FreedDrained
  <2> SUFFICES ASSUME IInv, ~lapped, pcP = "freed"
               PROVE  Cardinality(InSlots \ {Nullptr}) <= Cardinality(Permitted)
    BY DEF FreedDrained
  <2>1. TypeOK /\ Balance /\ count = 0 /\ Held = InSlots \ {Nullptr}
    BY DEF IInv, Sound, Held
  <2>2. Held \subseteq Elems
    BY <2>1 DEF TypeOK, InSlots
  <2>3. Cardinality(Held) \in Nat /\ Cardinality(Late) \in Nat /\ Cardinality(Permitted) \in Nat
    BY <2>1, <2>2, ElemsCount, AtCount, StoredType DEF Late, StoredOK
  <2>4. Stored = 0 + Cardinality(Permitted) + 0
    BY <2>1 DEF Stored
  <2>5. Cardinality(Held) + Cardinality(Late) = Stored + 0
    BY <2>1 DEF Balance
  <2>6. Cardinality(Held) <= Cardinality(Permitted)
    BY <2>3, <2>4, <2>5
  <2> QED BY <2>1, <2>6
<1> QED BY <1>1, Invariance, PTL
-----------------------------------------------------------------------------
(* The content of the queue as a segment of the ring. *)
Content(i) == IF i = front /\ Late # {} THEN temp[CHOOSE c \in Late : TRUE] ELSE rq[i]
Contents == [i \in Slots |-> Content(i)]
ItemSegment == Segment(Contents, front, Stored, Rqnum)

Shape == /\ Rqnum \in Nat \ {0} /\ Slots = 0 .. Rqnum - 1
         /\ front \in 0 .. Rqnum - 1 /\ rear \in 0 .. Rqnum - 1
         /\ Stored \in 0 .. Rqnum
         /\ \A i \in 0 .. Rqnum - 1 : Dist(front, i, Rqnum) < Stored => Contents[i] \in Elems
         /\ Items = ItemSegment

LEMMA ItemFacts == TypeOK /\ Sound => Shape
<1> SUFFICES ASSUME TypeOK, Sound PROVE Shape
  OBVIOUS
<1>1. Claim1 /\ Ring /\ Apart
  BY DEF Sound
<1>2. /\ Rqnum \in Nat \ {0} /\ Slots = 0 .. Rqnum - 1
      /\ front \in 0 .. Rqnum - 1 /\ rear \in 0 .. Rqnum - 1
      /\ Stored \in 0 .. Rqnum
  BY <1>1, Facts
<1>3. Late # {} => temp[CHOOSE c \in Late : TRUE] \in Elems
  <2>1. Late # {} => (CHOOSE c \in Late : TRUE) \in Late
    OBVIOUS
  <2>2. \A c \in Late : c \in Consumers /\ pcC[c] = "advance"
    BY DEF Late, At
  <2> QED BY <1>1, <2>1, <2>2 DEF Apart
<1>4. \A i \in 0 .. Rqnum - 1 : Dist(front, i, Rqnum) < Stored => Contents[i] \in Elems
  BY <1>1, <1>2, <1>3 DEF Ring, In, Contents, Content
<1>5. ASSUME NEW k \in 1 .. Stored
      PROVE  /\ Ahead(front, k - 1, Rqnum) \in Slots
             /\ Ahead(front, k - 1, Rqnum) = front <=> k = 1
  <2>1. k \in Int /\ k - 1 \in 0 .. Rqnum - 1
    BY <1>2
  <2> QED BY <1>2, <2>1 DEF Ahead
<1>6. Late = {c \in Consumers : pcC[c] = "advance"}
  BY DEF Late, At
<1>7. Items = ItemSegment
  <2>1. ASSUME NEW k \in 1 .. Stored
        PROVE  (IF k = 1 /\ Late # {} THEN temp[CHOOSE c \in Late : TRUE]
                                      ELSE rq[Ahead(front, k - 1, Rqnum)])
                  = Contents[Ahead(front, k - 1, Rqnum)]
    BY <1>5 DEF Contents, Content
  <2>2. Items = [k \in 1 .. Stored |->
                   IF k = 1 /\ Late # {} THEN temp[CHOOSE c \in Late : TRUE]
                                         ELSE rq[Ahead(front, k - 1, Rqnum)]]
    BY <1>6 DEF Items
  <2> QED BY <2>1, <2>2 DEF ItemSegment, Segment
<1> QED BY <1>2, <1>4, <1>7 DEF Shape

LEMMA ItemFactsNext == TypeOK' /\ Sound' => Shape'
BY ItemFacts, PTL

LEMMA InitRefines == Init => Fifo!QueueInit
<1> SUFFICES ASSUME Init PROVE Fifo!QueueInit
  OBVIOUS
<1>1. Permitted = {} /\ InWork = {}
  BY DEF Init, Permitted, InWork
<1>2. Stored = 0
  BY <1>1, FS_EmptySet DEF Init, Stored
<1>3. Items = <<>>
  BY <1>2 DEF Items
<1> QED BY <1>1, <1>3 DEF Fifo!QueueInit

(* Steps that change neither the content nor what is with the workers. *)
LEMMA Stutters ==
    ASSUME TypeOK, TypeOK', Sound, Sound', front' = front, Stored' = Stored, InWork' = InWork,
           \A i \in Slots : In(i) => Content(i)' = Content(i)
    PROVE  UNCHANGED Fifo!queueVars
<1>1. Shape /\ Shape'
  BY ItemFacts, ItemFactsNext
<1>2. \A i \in 0 .. Rqnum - 1 : Dist(front, i, Rqnum) < Stored => Contents'[i] = Contents[i]
  BY <1>1 DEF Shape, In, Contents
<1>3. Segment(Contents', front, Stored, Rqnum) = Segment(Contents, front, Stored, Rqnum)
  <2>1. Rqnum \in Nat \ {0} /\ front \in 0 .. Rqnum - 1 /\ Stored \in 0 .. Rqnum
    BY <1>1 DEF Shape
  <2> HIDE DEF Contents
  <2> QED BY <1>2, <2>1, SegmentEqual
<1>4. Items' = Items
  BY <1>1, <1>3 DEF Shape, ItemSegment
<1> QED BY <1>4 DEF Fifo!queueVars

(* A put takes effect when it advances __rear ... *)
LEMMA PutRefines ==
    ASSUME TypeOK, TypeOK', Sound, UNCHANGED spmc, Producer
    PROVE  [Fifo!QueueNext]_(Fifo!queueVars)
<1>1. UNCHANGED <<front, pcC, temp>>
  BY DEF Producer, PutStore, PutFlag, PutPost, Destroy, Free, consVars
<1>2. InWork' = InWork
  BY <1>1 DEF InWork
<1>3. CASE PutStore
  <2>1. /\ Sound' /\ Stored' = Stored /\ Late' = Late /\ Dist(front, rear, Rqnum) = Stored
        /\ \A i \in Slots \ {rear} : rq'[i] = rq[i]
    BY <1>3, StoreSound
  <2>2. \A i \in Slots : In(i) => i # rear
    <3>1. Stored \in Nat
      BY StoredType DEF StoredOK
    <3> QED BY <2>1, <3>1 DEF In
  <2>3. \A i \in Slots : In(i) => Content(i)' = Content(i)
    BY <1>1, <2>1, <2>2 DEF Content
  <2> QED BY <1>1, <1>2, <2>1, <2>3, Stutters
<1>4. CASE PutPost \/ Destroy \/ Free
  <2>1. Sound' /\ Stored' = Stored /\ Late' = Late /\ rq' = rq
    BY <1>4, PostSound DEF PutPost, Destroy, Free
  <2>2. \A i \in Slots : In(i) => Content(i)' = Content(i)
    BY <1>1, <2>1 DEF Content
  <2> QED BY <1>1, <1>2, <2>1, <2>2, Stutters
<1>5. CASE PutFlag
  <2> DEFINE e == rq[rear]
  <2>1. /\ Sound' /\ Stored' = Stored + 1 /\ Late' = Late /\ rq' = rq
        /\ Stored \in 0 .. Rqnum - 1 /\ e \in Elems /\ Dist(front, rear, Rqnum) = Stored
    BY <1>5, FlagSound DEF PutFlag
  <2>2. Shape /\ Shape' /\ Apart /\ Ring
    BY <2>1, ItemFacts, ItemFactsNext DEF Sound
  <2>3. Contents' = Contents
    BY <1>1, <2>1 DEF Contents, Content
  <2>4. rear = Ahead(front, Stored, Rqnum) /\ rear \in Slots
    BY <2>2 DEF Ring, Shape
  <2>5. Late # {} => rear # front
    <3>1. Late # {} => Permitted # {}
      BY DEF Late, At, Permitted
    <3>2. Late # {} => Stored > 0
      BY <3>1, StoredType DEF StoredOK
    <3>3. Dist(front, front, Rqnum) = 0
      BY <2>2, Facts
    <3> QED BY <2>1, <3>2, <3>3
  <2>6. Contents[rear] = e
    BY <2>4, <2>5 DEF Contents, Content
  <2>7. Items' = Append(Items, e)
    <3> HIDE DEF e
    <3>1. \A i \in 0 .. Rqnum - 1 : Dist(front, i, Rqnum) < Stored + 1 => Contents[i] \in Elems
      BY <1>1, <2>1, <2>2, <2>3 DEF Shape
    <3>2. Segment(Contents, front, Stored + 1, Rqnum)
             = Append(Segment(Contents, front, Stored, Rqnum), Contents[Ahead(front, Stored, Rqnum)])
      <4>1. Rqnum \in Nat \ {0} /\ front \in 0 .. Rqnum - 1 /\ Stored \in 0 .. Rqnum - 1
        BY <2>1, <2>2 DEF Shape
      <4> QED BY <3>1, <4>1, SegmentAppend
    <3>3. Items' = Segment(Contents, front, Stored + 1, Rqnum)
      BY <1>1, <2>1, <2>2, <2>3 DEF Shape, ItemSegment
    <3> QED BY <2>2, <2>4, <2>6, <3>2, <3>3 DEF Shape, ItemSegment
  <2>8. e \notin InWork
    BY <2>1, <2>2, <2>4 DEF InWork, Apart
  <2>9. \A k \in DOMAIN Items : Items[k] # e
    <3>1. Late # {} => temp[CHOOSE c \in Late : TRUE] # e
      <4>1. Late # {} => (CHOOSE c \in Late : TRUE) \in Late
        OBVIOUS
      <4>2. \A c \in Late : c \in Consumers /\ pcC[c] = "advance"
        BY DEF Late, At
      <4> QED BY <2>1, <2>2, <2>4, <4>1, <4>2 DEF Apart
    <3>2. \A i \in Slots : In(i) => Contents[i] # e
      <4> SUFFICES ASSUME NEW i \in Slots, In(i) PROVE Contents[i] # e
        OBVIOUS
      <4>1. i # rear
        BY <2>1 DEF In
      <4>2. rq[i] # e
        BY <2>1, <2>2, <2>4, <4>1 DEF Apart
      <4> QED BY <3>1, <4>2 DEF Contents, Content
    <3> HIDE DEF e
    <3>3. ASSUME NEW k \in 1 .. Stored PROVE Items[k] # e
      <4>1. k - 1 \in 0 .. Rqnum - 1 /\ k - 1 < Stored
        BY <2>1, <2>2 DEF Shape
      <4>2. Ahead(front, k - 1, Rqnum) \in Slots
        BY <2>2, <4>1 DEF Ahead, Shape
      <4>3. Dist(front, Ahead(front, k - 1, Rqnum), Rqnum) = k - 1
        BY <2>2, <4>1, <4>2, DistAhead DEF Shape
      <4>4. In(Ahead(front, k - 1, Rqnum))
        BY <4>1, <4>3 DEF In
      <4>5. Items[k] = Contents[Ahead(front, k - 1, Rqnum)]
        BY <2>2 DEF Shape, ItemSegment, Segment
      <4> QED BY <3>2, <4>2, <4>4, <4>5
    <3>4. DOMAIN Items = 1 .. Stored
      BY DEF Items
    <3> QED BY <3>3, <3>4
  <2> QED BY <1>2, <2>1, <2>7, <2>8, <2>9 DEF Fifo!QueueNext, Fifo!Enqueue
<1> QED BY <1>3, <1>4, <1>5 DEF Producer

(* ... a get when it advances __front; up to the clearing of the slot ...  *)
LEMMA QuietGet ==
    ASSUME TypeOK, TypeOK', NEW c \in Consumers,
           Wait(c) \/ Load(c) \/ Busy(c) \/ Claim(c) \/ Reload(c) \/ Read(c)
    PROVE  UNCHANGED Fifo!queueVars
<1> DEFINE l == pcC'[c]
<1>1. /\ pcC[c] \in {"idle", "load", "cas", "reload", "read"} /\ (pcC[c] = "idle" <=> Wait(c))
      /\ Goto(c, l) /\ l \in {"load", "cas", "reload", "read", "clear"}
      /\ \A d \in Consumers \ {c} : temp'[d] = temp[d]
      /\ UNCHANGED <<front, rear, pcP, rq>>
      /\ count' = IF Wait(c) THEN count - 1 ELSE count
  <2>1. CASE Wait(c)
    BY <2>1 DEF Wait, Goto, TypeOK, prodVars
  <2>2. CASE Load(c) \/ Busy(c) \/ Claim(c) \/ Reload(c)
    BY <2>2 DEF Wait, Load, Busy, Claim, Reload, Goto, TypeOK, prodVars
  <2>3. CASE Read(c)
    BY <2>3 DEF Wait, Read, Goto, TypeOK, prodVars
  <2> QED BY <2>1, <2>2, <2>3
<1> HIDE DEF l
<1>2. /\ pcC'[c] = l /\ \A d \in Consumers \ {c} : pcC'[d] = pcC[d]
      /\ Stored' = Stored + (count' - count) - (IF pcC[c] \in InGet THEN 1 ELSE 0)
                                         + (IF l \in InGet THEN 1 ELSE 0)
  BY <1>1, Counts
<1>3. Stored' = Stored
  <2>1. Stored \in Nat /\ count \in Nat /\ count' \in Nat
    BY StoredType DEF StoredOK, TypeOK
  <2>2. l \in InGet /\ (pcC[c] \in InGet <=> ~Wait(c))
    BY <1>1 DEF InGet
  <2>3. CASE Wait(c)
    <3>1. Stored' = Stored + (count' - count) - 0 + 1
      BY <1>2, <2>2, <2>3
    <3>2. count' = count - 1
      BY <1>1, <2>3
    <3> QED BY <2>1, <3>1, <3>2
  <2>4. CASE ~Wait(c)
    <3>1. Stored' = Stored + (count' - count) - 1 + 1
      BY <1>2, <2>2, <2>4
    <3>2. count' = count
      BY <1>1, <2>4
    <3> QED BY <2>1, <3>1, <3>2
  <2> QED BY <2>3, <2>4
<1>4. Late' = Late /\ \A d \in Late : temp'[d] = temp[d]
  BY <1>1, <1>2 DEF Late, At
<1>5. InWork' = InWork
  <2> DEFINE W == {d \in Consumers : pcC[d] = "work"}
  <2>1. W' = W /\ \A d \in W : temp'[d] = temp[d]
    BY <1>1, <1>2
  <2> QED BY <2>1 DEF InWork
<1>6. Items' = Items
  <2>1. Late = {d \in Consumers : pcC[d] = "advance"}
    BY DEF Late, At
  <2>2. Late' = {d \in Consumers : pcC'[d] = "advance"}
    BY DEF Late, At
  <2>3. Late # {} => (CHOOSE d \in Late : TRUE) \in Late
    OBVIOUS
  <2>4. Late # {} => temp'[CHOOSE d \in Late : TRUE] = temp[CHOOSE d \in Late : TRUE]
    BY <1>4, <2>3
  <2>5. Items = [k \in 1 .. Stored |-> IF k = 1 /\ Late # {} THEN temp[CHOOSE d \in Late : TRUE]
                                       ELSE rq[Ahead(front, k - 1, Rqnum)]]
    BY <2>1 DEF Items
  <2>6. Items' = [k \in 1 .. Stored' |-> IF k = 1 /\ Late' # {} THEN temp'[CHOOSE d \in Late' : TRUE]
                                         ELSE rq'[Ahead(front', k - 1, Rqnum)]]
    BY <2>2 DEF Items
  <2> QED BY <1>1, <1>3, <1>4, <2>4, <2>5, <2>6
<1> QED BY <1>5, <1>6 DEF Fifo!queueVars

(* ... the content stays, whoever has the first element. *)
LEMMA WorkerRefines ==
    ASSUME TypeOK, TypeOK', Sound, UNCHANGED spmc, NEW c \in Consumers, Get(c) \/ Finish(c)
    PROVE  [Fifo!QueueNext]_(Fifo!queueVars)
<1> DEFINE W == {d \in Consumers : pcC[d] = "work"}
<1>w. InWork = {temp[d] : d \in W} /\ W \subseteq Consumers
  BY DEF InWork
<1>1. CASE Wait(c) \/ Load(c) \/ Busy(c) \/ Claim(c) \/ Reload(c) \/ Read(c)
  BY <1>1, QuietGet
<1>2. CASE Clear(c)
  <2>1. /\ Sound' /\ Stored' = Stored /\ Late = {} /\ Late' = {c} /\ temp[c] = rq[front]
        /\ \A i \in Slots \ {front} : rq'[i] = rq[i]
    BY <1>2, ClearSound
  <2>2. /\ UNCHANGED <<front, temp>> /\ pcC[c] = "clear" /\ pcC'[c] = "advance"
        /\ \A d \in Consumers \ {c} : pcC'[d] = pcC[d]
    BY <1>2 DEF Clear, Goto, TypeOK
  <2>3. \A i \in Slots : In(i) => Content(i)' = Content(i)
    <3>1. (CHOOSE d \in {c} : TRUE) = c
      OBVIOUS
    <3> QED BY <2>1, <2>2, <3>1 DEF Content
  <2>4. InWork' = InWork
    <3>1. W' = W
      BY <2>2
    <3> QED BY <2>2, <3>1 DEF InWork
  <2> QED BY <2>1, <2>2, <2>3, <2>4, Stutters
<1>3. CASE Advance(c)
  <2>1. /\ Sound' /\ Stored > 0 /\ Stored' = Stored - 1 /\ front' = Succ(front, Rqnum)
        /\ Late = {c} /\ Late' = {} /\ temp[c] \in Elems
    BY <1>3, AdvanceSound
  <2>2. /\ UNCHANGED <<temp, rq>> /\ pcC[c] = "advance" /\ pcC'[c] = "work"
        /\ \A d \in Consumers \ {c} : pcC'[d] = pcC[d]
    BY <1>3 DEF Advance, Goto, TypeOK
  <2>3. Shape /\ Shape' /\ Stored \in 1 .. Rqnum
    <3>1. Shape /\ Shape'
      BY <2>1, ItemFacts, ItemFactsNext
    <3>2. Rqnum \in Nat \ {0} /\ Stored \in 0 .. Rqnum /\ Stored > 0
      BY <2>1, <3>1 DEF Shape
    <3> QED BY <3>1, <3>2
  <2>4. Contents[front] = temp[c]
    <3>1. (CHOOSE d \in {c} : TRUE) = c
      OBVIOUS
    <3> QED BY <2>1, <2>3, <3>1 DEF Contents, Content, Shape
  <2>5. \A i \in 0 .. Rqnum - 1 : i # front => Contents'[i] = Contents[i]
    BY <2>1, <2>2, <2>3 DEF Contents, Content, Shape
  <2>6. Items # <<>> /\ Head(Items) = temp[c] /\ Items' = Tail(Items)
    <3>1. /\ \A i \in 0 .. Rqnum - 1 : Dist(front, i, Rqnum) < Stored => Contents[i] \in Elems
          /\ Items = Segment(Contents, front, Stored, Rqnum)
          /\ Items' = Segment(Contents', Succ(front, Rqnum), Stored - 1, Rqnum)
      BY <2>1, <2>3 DEF Shape, ItemSegment
    <3>2. ASSUME NEW d, \A i \in 0 .. Rqnum - 1 :
                            i # front /\ Dist(front, i, Rqnum) < Stored => d[i] = Contents[i]
          PROVE  /\ Segment(Contents, front, Stored, Rqnum) # <<>>
                 /\ Head(Segment(Contents, front, Stored, Rqnum)) = Contents[front]
                 /\ Segment(d, Succ(front, Rqnum), Stored - 1, Rqnum)
                        = Tail(Segment(Contents, front, Stored, Rqnum))
      <4>1. Rqnum \in Nat \ {0} /\ front \in 0 .. Rqnum - 1 /\ Stored \in 1 .. Rqnum
        BY <2>3 DEF Shape
      <4> QED BY <3>1, <3>2, <4>1, SegmentPop, Zenon
    <3>3. \A i \in 0 .. Rqnum - 1 : i # front /\ Dist(front, i, Rqnum) < Stored => Contents'[i] = Contents[i]
      BY <2>5
    <3> QED BY <2>4, <3>1, <3>2, <3>3
  <2>7. InWork' = InWork \union {temp[c]}
    <3>1. W' = W \union {c}
      BY <2>2
    <3>2. InWork' = {temp'[d] : d \in W'}
      BY DEF InWork
    <3> QED BY <1>w, <2>2, <3>1, <3>2
  <2> QED BY <2>6, <2>7 DEF Fifo!QueueNext, Fifo!Dequeue
<1>4. CASE Finish(c)
  <2>1. Sound' /\ Stored' = Stored /\ Late' = Late
    BY <1>4, FinishSound
  <2>2. /\ UNCHANGED <<front, rq>> /\ pcC[c] = "work" /\ pcC'[c] = "idle"
        /\ \A d \in Consumers \ {c} : pcC'[d] = pcC[d] /\ temp'[d] = temp[d]
    BY <1>4 DEF Finish, Goto, TypeOK
  <2>3. temp[c] \in Elems /\ \A d \in Consumers \ {c} : temp[d] # temp[c]
    BY <2>2 DEF Sound, Apart
  <2>4. InWork' = InWork \ {temp[c]} /\ temp[c] \in InWork
    <3>1. W' = W \ {c} /\ c \in W
      BY <2>2
    <3>2. InWork' = {temp'[d] : d \in W'}
      BY DEF InWork
    <3>3. \A d \in W \ {c} : temp'[d] = temp[d] /\ temp[d] # temp[c]
      BY <2>2, <2>3
    <3> QED BY <1>w, <3>1, <3>2, <3>3
  <2>5. Items' = Items
    <3>1. Shape /\ Shape'
      BY <2>1, ItemFacts, ItemFactsNext
    <3>2. Late # {} => temp'[CHOOSE d \in Late : TRUE] = temp[CHOOSE d \in Late : TRUE]
      <4>1. Late # {} => (CHOOSE d \in Late : TRUE) \in Late
        OBVIOUS
      <4>2. \A d \in Late : d \in Consumers \ {c}
        BY <2>2 DEF Late, At
      <4> QED BY <2>2, <4>1, <4>2
    <3>3. Contents' = Contents
      BY <2>1, <2>2, <3>2 DEF Contents, Content
    <3> QED BY <2>1, <2>2, <3>1, <3>3 DEF Shape, ItemSegment
  <2> QED BY <2>4, <2>5 DEF Fifo!QueueNext, Fifo!Finish
<1> QED BY <1>1, <1>2, <1>3, <1>4 DEF Get

LEMMA StepRefines ==
    IInv /\ [Next]_vars => [Fifo!QueueNext \/ lapped]_(Fifo!queueVars)
<1> SUFFICES ASSUME IInv, [Next]_vars, ~lapped PROVE [Fifo!QueueNext]_(Fifo!queueVars)
  OBVIOUS
<1>1. TypeOK /\ TypeOK' /\ Sound
  BY TypeStep DEF IInv
<1>2. CASE UNCHANGED vars
  <2>1. UNCHANGED <<front, rq, count, pcP, pcC, temp>>
    BY <1>2 DEF vars, prodVars, consVars
  <2>2. Permitted' = Permitted /\ InWork' = InWork
    BY <2>1 DEF Permitted, InWork
  <2>3. Stored' = Stored
    BY <2>1, <2>2 DEF Stored
  <2>4. Items' = Items
    BY <2>1, <2>3 DEF Items
  <2> QED BY <2>2, <2>4 DEF Fifo!queueVars
<1>3. CASE Producer /\ UNCHANGED spmc
  BY <1>1, <1>3, PutRefines
<1>4. ASSUME NEW c \in Consumers, Get(c) \/ Finish(c), UNCHANGED spmc
      PROVE  [Fifo!QueueNext]_(Fifo!queueVars)
  BY <1>1, <1>4, WorkerRefines
<1> QED BY <1>2, <1>3, <1>4 DEF Next, Alive

(* Until a worker is lapped, rfts::queue is the FIFO queue: elements come  *)
(* out in the order they went in, each to one worker (queue.hpp:139-187).  *)
THEOREM Implements == Spec => ImplementsFifo
<1>1. IInv /\ [Next]_vars => [Fifo!QueueNext \/ lapped]_<<Fifo!queueVars>>
  BY StepRefines
<1> QED
  BY Invariance, InitRefines, <1>1, PTL DEF Spec, ImplementsFifo
-----------------------------------------------------------------------------
(* Until a worker is lapped a get spins only for a reason that passes:     *)
(* __front has moved, or another worker is about to move it                *)
(* (queue.hpp:128-153).                                                    *)
THEOREM NeverSpinsInVain == Spec => []SpinsForCause
<1>1. IInv => SpinsForCause
  <2> SUFFICES ASSUME IInv, ~lapped, NEW c \in Consumers, pcC[c] = "cas", ~flags[idx[c]],
                      idx[c] = front
               PROVE  Claimants # {}
    BY DEF SpinsForCause
  <2>1. TypeOK /\ Claim1 /\ Ring
    BY DEF IInv, Sound
  <2>2. spmc
    BY <2>1 DEF Claim1
  <2>3. Permitted # {}
    BY DEF Permitted
  <2>4. Stored \in Nat /\ Stored > 0
    BY <2>1, <2>3, StoredType DEF StoredOK
  <2>5. front \in Slots /\ Dist(front, front, Rqnum) = 0
    BY <2>1, Numbers DEF TypeOK, Dist
  <2>6. flags[front] <=> In(front) /\ ~(front = front /\ Claimants # {})
    BY <2>1, <2>2, <2>5 DEF Ring
  <2> QED BY <2>4, <2>5, <2>6 DEF In
<1> QED BY <1>1, Invariance, PTL
-----------------------------------------------------------------------------
(* Only when several workers compare and exchange can one be lapped.       *)
Alone == spmc => Consumers = {Single}
Unlapped == Alone => ~lapped /\ \A c \in Consumers : pcC[c] = "cas" => idx[c] = front

LEMMA UnlappedStep == IInv /\ Unlapped /\ [Next]_vars => Unlapped'
<1> SUFFICES ASSUME IInv, Unlapped, [Next]_vars, Alone'
             PROVE  ~lapped' /\ \A c \in Consumers : pcC'[c] = "cas" => idx'[c] = front'
  BY DEF Unlapped
<1>1. spmc' = spmc
  BY DEF Next, Alive, vars
<1>2. /\ Alone /\ ~lapped /\ TypeOK /\ Claim1
      /\ \A c \in Consumers : pcC[c] = "cas" => idx[c] = front
  BY <1>1 DEF Alone, Unlapped, IInv, Sound
<1>3. CASE UNCHANGED vars
  BY <1>2, <1>3 DEF vars, consVars
<1>4. CASE Producer
  <2>1. UNCHANGED <<front, pcC, idx, lapped>>
    BY <1>4 DEF Producer, PutStore, PutFlag, PutPost, Destroy, Free, consVars
  <2> QED BY <1>2, <2>1
<1>5. ASSUME NEW c \in Consumers, Get(c) \/ Finish(c)
      PROVE  ~lapped' /\ \A d \in Consumers : pcC'[d] = "cas" => idx'[d] = front'
  <2>1. \A d \in Consumers : pcC[d] = "cas" => d = c
    BY <1>2 DEF Claim1, Alone
  <2>2. CASE Claim(c)
    <3>1. ~lapped'
      BY <1>2, <2>2, Zenon DEF Claim
    <3>2. \A d \in Consumers : pcC'[d] = "cas" => pcC[d] = "cas"
      BY <1>2, <2>2 DEF Claim, Goto, TypeOK
    <3> QED BY <1>2, <2>2, <3>1, <3>2 DEF Claim
  <2>3. CASE Load(c)
    <3>1. lapped' = lapped /\ front' = front /\ idx'[c] = front
      BY <1>2, <2>3 DEF Load, LoadFront, TypeOK
    <3>2. \A d \in Consumers \ {c} : pcC'[d] # "cas"
      BY <1>2, <2>1, <2>3 DEF Load, Goto, TypeOK
    <3> QED BY <1>2, <3>1, <3>2
  <2>4. CASE Wait(c) \/ Busy(c) \/ Reload(c) \/ Read(c) \/ Clear(c) \/ Advance(c) \/ Finish(c)
    <3>1. lapped' = lapped /\ pcC'[c] # "cas"
      BY <1>2, <2>4 DEF Wait, Busy, Reload, Read, Clear, Advance, Finish, Goto, TypeOK
    <3>2. \A d \in Consumers \ {c} : pcC'[d] # "cas"
      BY <1>2, <2>1, <2>4 DEF Wait, Busy, Reload, Read, Clear, Advance, Finish, Goto, TypeOK
    <3> QED BY <1>2, <3>1, <3>2
  <2> QED BY <1>5, <2>2, <2>3, <2>4 DEF Get
<1> QED BY <1>3, <1>4, <1>5 DEF Next, Alive

(* Without RFTS_SPMC, and with it if there is one worker, no worker is     *)
(* ever lapped: what the theorems above say then holds without condition.  *)
THEOREM NeverLapped == Spec => [](Alone => ~lapped)
<1>1. Init => Unlapped
  BY DEF Init, Unlapped
<1>2. Unlapped => (Alone => ~lapped)
  BY DEF Unlapped
<1> QED
  BY Invariance, UnlappedStep, <1>1, <1>2, PTL DEF Spec

(* So with one worker, or without RFTS_SPMC, it is the FIFO queue from     *)
(* beginning to end.                                                       *)
THEOREM AloneImplements == Spec /\ []Alone => Fifo!QueueSpec
<1>1. ~lapped /\ [Fifo!QueueNext \/ lapped]_<<Fifo!queueVars>> => [Fifo!QueueNext]_<<Fifo!queueVars>>
  OBVIOUS
<1>2. [Fifo!QueueNext]_<<Fifo!queueVars>> => [Fifo!QueueNext]_(Fifo!queueVars)
  OBVIOUS
<1> QED BY NeverLapped, Implements, <1>1, <1>2, PTL DEF ImplementsFifo, Fifo!QueueSpec
=============================================================================
