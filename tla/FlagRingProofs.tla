--------------------------- MODULE FlagRingProofs ---------------------------
(***************************************************************************)
(* What the proofs about wr_pool and mpsc_sem_mem_pool have in common: who *)
(* owns a work request, and how many threads are at a place.               *)
(***************************************************************************)
EXTENDS FlagRing, RingArithProofs, FiniteSetTheorems

(* For an array r, the producers' elements e, the callers' holdings h, the *)
(* slots S that count and the work requests G in the hands of get: no work *)
(* request is in two places.                                               *)
Apart(r, e, h, S, G) ==
    /\ \A i, j \in S : r[i] = r[j] /\ r[i] \in Wrs => i = j
    /\ \A p, q \in Producers : e[p] = e[q] /\ e[p] \in Wrs => p = q
    /\ \A i \in S, p \in Producers : r[i] = e[p] => r[i] \notin Wrs
    /\ \A i \in S : r[i] \in Wrs => r[i] \notin h
    /\ \A p \in Producers : e[p] \in Wrs => e[p] \notin h
    /\ \A w \in G \intersect Wrs : /\ w \notin h
                                   /\ \A i \in S : r[i] # w
                                   /\ \A p \in Producers : e[p] # w

LEMMA OneOwner ==
    ASSUME NEW S, NEW G, Apart(rq, elem, held, S, G), NEW w \in Wrs
    PROVE  IsFiniteSet(Owners(w, S, G)) /\ Cardinality(Owners(w, S, G)) <= 1
<1>1. ASSUME NEW x \in Owners(w, S, G), NEW y \in Owners(w, S, G) PROVE x = y
  <2> DEFINE A == {<<"slot", i>> : i \in {i \in S : rq[i] = w}}
             B == {<<"put", p>> : p \in {p \in Producers : elem[p] = w}}
             C == {<<"callers", w>> : h \in held \intersect {w}}
             D == {<<"get", w>> : t \in G \intersect {w}}
  <2>1. Owners(w, S, G) = A \union B \union C \union D
    BY DEF Owners
  <2>a. A # {} => \E i \in S : rq[i] = w
    OBVIOUS
  <2>b. B # {} => \E p \in Producers : elem[p] = w
    OBVIOUS
  <2>c. (C # {} => w \in held) /\ (D # {} => w \in G)
    OBVIOUS
  <2>3. \A a, b \in A : a = b
    BY DEF Apart
  <2>4. \A a, b \in B : a = b
    BY DEF Apart
  <2>5. (\A a, b \in C : a = b) /\ (\A a, b \in D : a = b)
    OBVIOUS
  <2> HIDE DEF A, B, C, D
  <2>2. /\ A # {} => B = {} /\ C = {} /\ D = {}
        /\ B # {} => C = {} /\ D = {}
        /\ C # {} => D = {}
    <3>1. \A i \in S : rq[i] = w => w \notin held /\ w \notin G /\ \A p \in Producers : elem[p] # w
      BY DEF Apart
    <3>2. \A p \in Producers : elem[p] = w => w \notin held /\ w \notin G
      BY DEF Apart
    <3>3. ~(w \in held /\ w \in G)
      BY DEF Apart
    <3> QED BY <2>a, <2>b, <2>c, <3>1, <3>2, <3>3
  <2> QED BY <2>1, <2>2, <2>3, <2>4, <2>5
<1> DEFINE O == Owners(w, S, G)
<1> HIDE DEF O
<1>2. CASE O = {}
  BY <1>2, FS_EmptySet DEF O
<1>3. CASE O # {}
  <2>1. PICK x \in O : TRUE
    BY <1>3
  <2>2. O = {x}
    BY <1>1, <2>1 DEF O
  <2>3. IsFiniteSet(O) /\ Cardinality(O) = 1
    BY <2>2, FS_Singleton
  <2> QED BY <2>3 DEF O
<1> QED BY <1>2, <1>3

(* put only moves a work request: from the callers to the producer,        *)
(* from the producer into a slot.                                          *)
LEMMA PutApart ==
    ASSUME RingTypeOK, NEW p \in Producers, NEW S \in SUBSET Slots, NEW G,
           Apart(rq, elem, held, S, G),
           PutCall(p) \/ PutStep(p) \/ \E next : PutPublish(p, next)
    PROVE  Apart(rq', elem', held', S, G)
<1>1. CASE PutCall(p)
  <2>1. PICK w \in held : /\ elem' = [elem EXCEPT ![p] = w]
                          /\ held' = held \ {w} /\ rq' = rq
    BY <1>1 DEF PutCall
  <2>2. elem'[p] = w /\ \A q \in Producers \ {p} : elem'[q] = elem[q]
    BY <2>1 DEF RingTypeOK
  <2> QED BY <2>1, <2>2 DEF Apart
<1>2. CASE PutStore(p)
  <2>1. /\ rq' = [rq EXCEPT ![idx[p]] = elem[p]]
        /\ elem' = [elem EXCEPT ![p] = Nullptr] /\ held' = held
    BY <1>2 DEF PutStore
  <2>2. elem'[p] = Nullptr /\ \A q \in Producers \ {p} : elem'[q] = elem[q]
    BY <2>1 DEF RingTypeOK
  <2>3. rq'[idx[p]] = elem[p] /\ \A i \in S \ {idx[p]} : rq'[i] = rq[i]
    BY <2>1 DEF RingTypeOK
  <2>4. Nullptr \notin Wrs
    BY RingAssumption
  <2> HIDE DEF Slots, Wrs
  <2> QED BY <2>1, <2>2, <2>3, <2>4 DEF Apart
<1>3. CASE UNCHANGED <<rq, elem, held>>
  BY <1>3 DEF Apart
<1>4. CASE PutBusy(p) \/ PutAgain(p) \/ PutClaim(p) \/ PutReload(p)
           \/ \E next : PutPublish(p, next)
  BY <1>3, <1>4 DEF PutBusy, PutAgain, PutClaim, PutReload, PutPublish
<1> QED BY <1>1, <1>2, <1>4 DEF PutStep

LEMMA StaysLapped ==
    ASSUME NEW p \in Producers, ~lapped',
           PutCall(p) \/ PutStep(p) \/ \E next : PutPublish(p, next)
    PROVE  ~lapped
<1>1. CASE PutClaim(p)
  BY <1>1, Zenon DEF PutClaim
<1>2. CASE ~PutClaim(p)
  BY <1>2 DEF PutCall, PutStep, PutBusy, PutAgain, PutReload, PutStore, PutPublish
<1> QED BY <1>1, <1>2

(* After the constructors. *)
LEMMA InitType == RingInit => RingTypeOK
<1> SUFFICES ASSUME RingInit PROVE RingTypeOK
  OBVIOUS
<1>1. rear \in Slots /\ 0 \in Slots
  BY RingAssumption DEF RingInit, Slots
<1>2. rq \in [Slots -> Wrs \union {Nullptr}]
  <2>1. ASSUME NEW i \in Slots, i < Elenum PROVE i \in Wrs
    BY <2>1, RingAssumption DEF Slots, Wrs
  <2> QED BY <2>1 DEF RingInit
<1>3. flags \in [Slots -> BOOLEAN]
  <2>1. ASSUME NEW i PROVE (i < Elenum) \in BOOLEAN
    BY SMT
  <2> QED BY <2>1, Zenon DEF RingInit
<1> QED BY <1>1, <1>2, <1>3 DEF RingInit, RingTypeOK

(* The types of the ring, put by put. *)
LEMMA PutType ==
    ASSUME RingTypeOK, NEW p \in Producers, NEW next \in {"idle", "post"},
           PutCall(p) \/ PutStep(p) \/ PutPublish(p, next)
    PROVE  RingTypeOK'
<1>r. Rqnum \in Nat \ {0}
  BY RingAssumption
<1>1. CASE PutCall(p)
  BY <1>1 DEF RingTypeOK, PutCall, LoadRear, Goto
<1>2. CASE PutStore(p)
  BY <1>2 DEF RingTypeOK, PutStore, Goto
<1>3. CASE PutBusy(p) \/ PutAgain(p) \/ PutReload(p)
  BY <1>3 DEF RingTypeOK, PutBusy, PutAgain, PutReload, LoadRear, Goto
<1>4. CASE PutClaim(p)
  <2>1. lapped' \in BOOLEAN
    BY <1>4, Zenon DEF PutClaim, RingTypeOK
  <2>2. flags' \in [Slots -> BOOLEAN]
    BY <1>4 DEF PutClaim, RingTypeOK
  <2> QED BY <1>4, <2>1, <2>2 DEF RingTypeOK, PutClaim, Goto
<1>5. CASE PutPublish(p, next)
  <2>1. Succ(idx[p], Rqnum) \in Slots
    BY <1>r, SuccType DEF RingTypeOK, Slots
  <2> QED BY <1>5, <2>1 DEF RingTypeOK, PutPublish, Goto
<1> QED BY <1>1, <1>2, <1>3, <1>4, <1>5 DEF PutStep
-----------------------------------------------------------------------------
(* The producers whose control state is in L, and how many they are. *)
At(L) == {p \in Producers : pcP[p] \in L}

LEMMA AtCount ==
    ASSUME NEW L PROVE  /\ IsFiniteSet(At(L)) /\ Cardinality(At(L)) \in Nat
                        /\ Cardinality(At(L)) = 0 => At(L) = {}
BY RingAssumption, FS_Subset, FS_CardinalityType, FS_EmptySet DEF At

(* The step of a producer from one control state to another. *)
LEMMA AtMove ==
    ASSUME RingTypeOK, NEW p \in Producers, NEW l, Goto(p, l), NEW L
    PROVE  Cardinality(At(L)') = Cardinality(At(L)) - (IF pcP[p] \in L THEN 1 ELSE 0)
                                                    + (IF l \in L THEN 1 ELSE 0)
<1> DEFINE A == At(L)
           B == At(L)'
<1>1. /\ \A q \in Producers \ {p} : q \in B <=> q \in A
      /\ p \in B <=> l \in L
      /\ p \in A <=> pcP[p] \in L
      /\ A \subseteq Producers /\ B \subseteq Producers
  BY DEF RingTypeOK, Goto, At
<1>2. IsFiniteSet(A) /\ Cardinality(A) \in Nat
  BY AtCount
<1> HIDE DEF A, B
<1>3. CASE l \in L /\ pcP[p] \notin L
  <2>1. B = A \union {p} /\ p \notin A
    BY <1>1, <1>3
  <2>2. Cardinality(B) = Cardinality(A) + 1
    BY <1>2, <2>1, FS_AddElement
  <2> QED BY <1>2, <1>3, <2>2 DEF A, B
<1>4. CASE l \notin L /\ pcP[p] \in L
  <2>1. B = A \ {p} /\ p \in A
    BY <1>1, <1>4
  <2>2. Cardinality(B) = Cardinality(A) - 1
    BY <1>2, <2>1, FS_RemoveElement
  <2> QED BY <1>2, <1>4, <2>2 DEF A, B
<1>5. CASE l \in L <=> pcP[p] \in L
  <2>1. B = A
    BY <1>1, <1>5
  <2> QED BY <1>2, <1>5, <2>1 DEF A, B
<1> QED BY <1>3, <1>4, <1>5

LEMMA WrsFinite == IsFiniteSet(Wrs) /\ Cardinality(Wrs) = Elenum
BY RingAssumption, FS_Interval DEF Wrs

LEMMA HeldFinite == ASSUME NEW S \in SUBSET Wrs
                    PROVE  /\ IsFiniteSet(S)
                           /\ Cardinality(S) \in Nat
                           /\ Cardinality(S) = 0 => S = {}
                           /\ \A w \in Wrs \ S : Cardinality(S \union {w}) = Cardinality(S) + 1
                           /\ \A w \in S : Cardinality(S \ {w}) = Cardinality(S) - 1
<1>1. IsFiniteSet(S) /\ Cardinality(S) \in Nat
  BY WrsFinite, FS_Subset, FS_CardinalityType
<1>2. ASSUME NEW w \in Wrs \ S PROVE Cardinality(S \union {w}) = Cardinality(S) + 1
  BY <1>1, FS_AddElement
<1>3. ASSUME NEW w \in S PROVE Cardinality(S \ {w}) = Cardinality(S) - 1
  BY <1>1, FS_RemoveElement
<1>4. Cardinality(S) = 0 => S = {}
  BY <1>1, FS_EmptySet
<1> QED BY <1>1, <1>2, <1>3, <1>4
-----------------------------------------------------------------------------
Claims(pc) == {p \in Producers : pc[p] \in {"reload", "store", "publish"}}

(* A sound ring: k work requests are stored from slot f on, get is at c,   *)
(* and the rest are the variables of FlagRing.  At most one producer is    *)
(* between its claim and its publication, and it works on slot r, which is *)
(* right behind the ones stored; the flags say exactly which slots are in  *)
(* use; at "flag" get has cleared slot f, all other slots in use hold a    *)
(* work request and all slots not in use are null.                         *)
Ring(f, k, c, r, q, fl, pc, ix) ==
    /\ f \in Slots /\ k \in 0 .. Elenum /\ r = Ahead(f, k, Rqnum)
    /\ \A p1, p2 \in Claims(pc) : p1 = p2
    /\ \A p \in Claims(pc) : pc[p] # "reload" => ix[p] = r
    /\ Claims(pc) # {} => ~(Dist(f, r, Rqnum) < k)
    /\ \A i \in Slots : fl[i] <=> (Dist(f, i, Rqnum) < k \/ (i = r /\ Claims(pc) # {}))
    /\ \A i \in Slots : Dist(f, i, Rqnum) < k => q[i] \in Wrs \/ (c = "flag" /\ i = f)
    /\ c = "flag" => q[f] = Nullptr /\ k > 0
    /\ \A i \in Slots : ~(Dist(f, i, Rqnum) < k) /\ i # r => q[i] = Nullptr
    /\ ~(Dist(f, r, Rqnum) < k) =>
          IF \E p \in Producers : pc[p] = "publish" THEN q[r] \in Wrs ELSE q[r] = Nullptr

(* Steps of a put that leave the number of stored work requests alone. *)
LEMMA PutRing ==
    ASSUME RingTypeOK, NEW p \in Producers, NEW f, NEW k, NEW c,
           pcP[p] = "store" => elem[p] \in Wrs,
           Ring(f, k, c, rear, rq, flags, pcP, idx),
           PutCall(p) \/ PutStep(p), ~lapped'
    PROVE  Ring(f, k, c, rear', rq', flags', pcP', idx')
<1> DEFINE In(i) == Dist(f, i, Rqnum) < k
           C == Claims(pcP)
           D == Claims(pcP')
<1>0. /\ \A q \in Producers \ {p} : pcP'[q] = pcP[q] /\ idx'[q] = idx[q]
      /\ \A q \in Producers \ {p} : q \in D <=> q \in C
      /\ D \subseteq Producers /\ C \subseteq Producers
  BY DEF RingTypeOK, PutCall, PutStep, PutBusy, PutAgain, PutClaim, PutReload, PutStore,
         Goto, LoadRear, Claims
<1>1. CASE PutCall(p) \/ PutBusy(p) \/ PutAgain(p)
  <2>1. /\ pcP[p] \in {"idle", "cas", "again"} /\ pcP'[p] \in {"cas", "again"}
        /\ UNCHANGED <<rear, rq, flags>>
    BY <1>1 DEF RingTypeOK, PutCall, PutBusy, PutAgain, Goto
  <2>2. D = C
    BY <1>0, <2>1 DEF Claims
  <2>3. (\E q \in Producers : pcP'[q] = "publish") <=> \E q \in Producers : pcP[q] = "publish"
    BY <1>0, <2>1
  <2>4. \A q \in C : q # p
    BY <2>1 DEF Claims
  <2>5. \A q \in D : pcP'[q] # "reload" => idx'[q] = rear'
    BY <1>0, <2>1, <2>2, <2>4 DEF Ring
  <2> QED BY <2>1, <2>2, <2>3, <2>5 DEF Ring
<1>2. CASE PutClaim(p)
  <2>1. /\ pcP[p] = "cas" /\ pcP'[p] = "reload" /\ ~flags[idx[p]] /\ idx[p] = rear
        /\ flags' = [flags EXCEPT ![idx[p]] = TRUE]
        /\ UNCHANGED <<rear, rq>>
    BY <1>2 DEF RingTypeOK, PutClaim, Goto
  <2>2. rear \in Slots /\ C = {} /\ ~In(rear) /\ D = {p}
    <3>1. rear \in Slots
      BY DEF RingTypeOK
    <3>2. C = {} /\ ~In(rear)
      BY <2>1, <3>1 DEF Ring
    <3>3. p \in D
      BY <2>1 DEF Claims
    <3> QED BY <1>0, <3>1, <3>2, <3>3
  <2>3. \A i \in Slots : flags'[i] <=> (In(i) \/ i = rear)
    <3>1. \A i \in Slots : flags[i] <=> In(i)
      BY <2>2 DEF Ring
    <3>2. flags'[rear] /\ \A i \in Slots \ {rear} : flags'[i] = flags[i]
      BY <2>1, <2>2 DEF RingTypeOK
    <3> QED BY <3>1, <3>2, <2>2
  <2>4. (\E q \in Producers : pcP'[q] = "publish") <=> \E q \in Producers : pcP[q] = "publish"
    BY <1>0, <2>1
  <2> QED BY <2>1, <2>2, <2>3, <2>4 DEF Ring
<1>3. CASE PutReload(p)
  <2>1. /\ pcP[p] = "reload" /\ pcP'[p] = "store" /\ idx'[p] = rear
        /\ UNCHANGED <<rear, rq, flags>>
    BY <1>3 DEF RingTypeOK, PutReload, Goto, LoadRear
  <2>2. D = C
    BY <1>0, <2>1 DEF Claims
  <2>3. (\E q \in Producers : pcP'[q] = "publish") <=> \E q \in Producers : pcP[q] = "publish"
    BY <1>0, <2>1
  <2>4. \A q \in D : pcP'[q] # "reload" => idx'[q] = rear'
    BY <1>0, <2>1, <2>2 DEF Ring
  <2> QED BY <2>1, <2>2, <2>3, <2>4 DEF Ring
<1>4. CASE PutStore(p)
  <2>1. /\ pcP[p] = "store" /\ pcP'[p] = "publish" /\ elem[p] \in Wrs
        /\ rq' = [rq EXCEPT ![idx[p]] = elem[p]]
        /\ UNCHANGED <<rear, flags, idx>>
    BY <1>4 DEF RingTypeOK, PutStore, Goto
  <2>2. D = C /\ p \in C
    BY <1>0, <2>1 DEF Claims
  <2>3. idx[p] = rear /\ rear \in Slots /\ ~In(rear)
    BY <2>1, <2>2 DEF Ring, RingTypeOK
  <2>4. rq'[rear] \in Wrs /\ \A i \in Slots \ {rear} : rq'[i] = rq[i]
    BY <2>1, <2>3 DEF RingTypeOK
  <2>5. f # rear \/ c # "flag"
    <3>1. f \in Slots /\ (c = "flag" => k > 0)
      BY DEF Ring
    <3>2. Dist(f, f, Rqnum) = 0
      BY <3>1 DEF Dist, Slots
    <3> QED BY <2>3, <3>1, <3>2
  <2>6. \A q \in D : pcP'[q] # "reload" => idx'[q] = rear'
    BY <2>1, <2>2, <2>3 DEF Ring
  <2> QED BY <2>1, <2>2, <2>3, <2>4, <2>5, <2>6 DEF Ring
<1> QED BY <1>1, <1>2, <1>3, <1>4 DEF PutStep

(* A put publishes: one more work request is stored. *)
LEMMA PublishRing ==
    ASSUME RingTypeOK, NEW p \in Producers, NEW next \in {"idle", "post"},
           NEW f, NEW k, NEW c, k < Elenum,
           Ring(f, k, c, rear, rq, flags, pcP, idx), PutPublish(p, next)
    PROVE  /\ Ring(f, k + 1, c, rear', rq', flags', pcP', idx')
           /\ rear = Ahead(f, k, Rqnum) /\ rq[rear] \in Wrs
<1> DEFINE In(i) == Dist(f, i, Rqnum) < k
<1>1. /\ pcP[p] = "publish" /\ pcP'[p] = next /\ rear' = Succ(idx[p], Rqnum)
      /\ UNCHANGED <<rq, flags, idx>>
      /\ \A q \in Producers \ {p} : pcP'[q] = pcP[q]
  BY DEF RingTypeOK, PutPublish, Goto
<1>2. Claims(pcP) = {p} /\ Claims(pcP') = {} /\ idx[p] = rear
  <2>1. p \in Claims(pcP)
    BY <1>1 DEF Claims
  <2>2. Claims(pcP) = {p} /\ idx[p] = rear
    BY <1>1, <2>1 DEF Ring
  <2>3. \A q \in Producers : q \notin Claims(pcP')
    BY <1>1, <2>2 DEF Claims
  <2> QED BY <2>2, <2>3 DEF Claims
<1>3. /\ Rqnum \in Nat \ {0} /\ Elenum \in Nat /\ Elenum <= Rqnum /\ Slots = 0 .. Rqnum - 1
      /\ f \in 0 .. Rqnum - 1 /\ rear \in 0 .. Rqnum - 1
      /\ k \in 0 .. Rqnum - 1 /\ k + 1 \in 0 .. Elenum
      /\ rear = Ahead(f, k, Rqnum)
  BY RingAssumption DEF Ring, RingTypeOK, Slots
<1>4. rear' = Ahead(f, k + 1, Rqnum) /\ Dist(f, rear, Rqnum) = k
  BY <1>1, <1>2, <1>3, AheadSucc, DistAhead
<1>5. \A i \in Slots : Dist(f, i, Rqnum) < k + 1 <=> In(i) \/ i = rear
  <2> SUFFICES ASSUME NEW i \in Slots PROVE Dist(f, i, Rqnum) < k + 1 <=> In(i) \/ i = rear
    OBVIOUS
  <2>1. Dist(f, i, Rqnum) \in Int
    BY <1>3, DistRange
  <2>2. Dist(f, i, Rqnum) = k <=> i = rear
    BY <1>3, DistAhead
  <2> QED BY <1>3, <2>1, <2>2
<1>6. rq[rear] \in Wrs
  BY <1>1, <1>3, <1>4 DEF Ring
<1>7. \A i \in Slots : flags'[i] <=> Dist(f, i, Rqnum) < k + 1
  BY <1>1, <1>2, <1>5 DEF Ring
<1>8. \A q \in Producers : pcP'[q] # "publish"
  BY <1>2 DEF Claims
<1>9. \A i \in Slots : Dist(f, i, Rqnum) < k + 1 => rq'[i] \in Wrs \/ (c = "flag" /\ i = f)
  BY <1>1, <1>5, <1>6 DEF Ring
<1>10. \A i \in Slots : ~(Dist(f, i, Rqnum) < k + 1) => rq'[i] = Nullptr
  BY <1>1, <1>5 DEF Ring
<1>11. c = "flag" => rq'[f] = Nullptr /\ k + 1 > 0
  BY <1>1, <1>3 DEF Ring
<1>12. rear' \in Slots
  BY <1>1, <1>2, <1>3, SuccType
<1> HIDE DEF In
<1>13. Ring(f, k + 1, c, rear', rq', flags', pcP', idx')
  BY <1>2, <1>3, <1>4, <1>7, <1>8, <1>9, <1>10, <1>11, <1>12 DEF Ring
<1> QED BY <1>3, <1>6, <1>13

(* get: at "clear" the pointer in slot f is taken out ...                  *)
LEMMA ClearRing ==
    ASSUME RingTypeOK, NEW f, NEW k, k > 0,
           Ring(f, k, "clear", rear, rq, flags, pcP, idx),
           NEW q, q = [rq EXCEPT ![f] = Nullptr]
    PROVE  Ring(f, k, "flag", rear, q, flags, pcP, idx)
<1>1. f \in Slots /\ Dist(f, f, Rqnum) = 0 /\ k \in Nat
  BY DEF Ring, Dist, Slots
<1>2. q[f] = Nullptr /\ \A i \in Slots \ {f} : q[i] = rq[i]
  BY <1>1 DEF RingTypeOK
<1> QED BY <1>1, <1>2 DEF Ring

(* ... and at "flag" the slot is left. *)
LEMMA LeaveRing ==
    ASSUME RingTypeOK, NEW f, NEW k, k > 0,
           Ring(f, k, "flag", rear, rq, flags, pcP, idx),
           NEW fl, fl = [flags EXCEPT ![f] = FALSE]
    PROVE  Ring(Succ(f, Rqnum), k - 1, "idle", rear, rq, fl, pcP, idx)
<1> DEFINE g == Succ(f, Rqnum)
           C == Claims(pcP)
<1>1. /\ Rqnum \in Nat \ {0} /\ Elenum \in Nat /\ Elenum <= Rqnum /\ Slots = 0 .. Rqnum - 1
      /\ f \in 0 .. Rqnum - 1 /\ rear \in 0 .. Rqnum - 1
      /\ k \in 1 .. Elenum /\ k - 1 \in 0 .. Rqnum - 1 /\ k \in 1 .. Rqnum
      /\ rear = Ahead(f, k, Rqnum)
  BY RingAssumption DEF Ring, RingTypeOK, Slots
<1>2. g \in Slots /\ rear = Ahead(g, k - 1, Rqnum)
  BY <1>1, AheadSucc, SuccType
<1>3. Dist(f, f, Rqnum) = 0
  BY <1>1, DistSelf
<1>4. \A i \in Slots : Dist(g, i, Rqnum) < k - 1 <=> Dist(f, i, Rqnum) < k /\ i # f
  <2> SUFFICES ASSUME NEW i \in Slots
               PROVE  Dist(g, i, Rqnum) < k - 1 <=> Dist(f, i, Rqnum) < k /\ i # f
    OBVIOUS
  <2>1. CASE i = f
    BY <1>1, <2>1, DistLeft
  <2>2. CASE i # f
    <3>1. Dist(g, i, Rqnum) = Dist(f, i, Rqnum) - 1
      BY <1>1, <2>2, DistSucc
    <3>2. Dist(f, i, Rqnum) \in Int /\ k \in Int
      BY <1>1, DistRange
    <3> QED BY <2>2, <3>1, <3>2
  <2> QED BY <2>1, <2>2
<1>5. fl[f] = FALSE /\ \A i \in Slots \ {f} : fl[i] = flags[i]
  BY <1>1 DEF RingTypeOK
<1>6. C # {} => rear # f
  BY <1>1, <1>3 DEF Ring
<1>7. \A i \in Slots : fl[i] <=> (Dist(g, i, Rqnum) < k - 1 \/ (i = rear /\ C # {}))
  <2>1. \A i \in Slots : flags[i] <=> (Dist(f, i, Rqnum) < k \/ (i = rear /\ C # {}))
    BY DEF Ring
  <2> QED BY <1>4, <1>5, <1>6, <2>1
<1>8. \A i \in Slots : Dist(g, i, Rqnum) < k - 1 => rq[i] \in Wrs
  BY <1>4 DEF Ring
<1>9. \A i \in Slots : ~(Dist(g, i, Rqnum) < k - 1) /\ i # rear => rq[i] = Nullptr
  BY <1>4 DEF Ring
<1>10. ~(Dist(g, rear, Rqnum) < k - 1) =>
          IF \E p \in Producers : pcP[p] = "publish" THEN rq[rear] \in Wrs ELSE rq[rear] = Nullptr
  <2>1. CASE rear # f
    BY <1>1, <1>4, <2>1 DEF Ring
  <2>2. CASE rear = f
    <3>1. C = {} /\ rq[rear] = Nullptr
      BY <1>6, <2>2 DEF Ring
    <3> QED BY <3>1 DEF Claims
  <2> QED BY <2>1, <2>2
<1>11. C # {} => ~(Dist(g, rear, Rqnum) < k - 1)
  BY <1>1, <1>4 DEF Ring
<1>12. /\ \A p1, p2 \in C : p1 = p2
       /\ \A p \in C : pcP[p] # "reload" => idx[p] = rear
  BY DEF Ring
<1>13. k - 1 \in 0 .. Elenum
  BY <1>1
<1> HIDE DEF C, g
<1>14. Ring(g, k - 1, "idle", rear, rq, fl, pcP, idx)
  BY <1>2, <1>7, <1>8, <1>9, <1>10, <1>11, <1>12, <1>13 DEF Ring, C
<1> QED BY <1>14 DEF g

(* Only at "flag" does it matter where get is. *)
LEMMA RingAnywhere ==
    ASSUME NEW f, NEW k, NEW c, NEW d, c # "flag", d # "flag",
           Ring(f, k, c, rear, rq, flags, pcP, idx)
    PROVE  Ring(f, k, d, rear, rq, flags, pcP, idx)
BY DEF Ring
-----------------------------------------------------------------------------
(* The producers that carry a work request are those that have one. *)
Carried == \A p \in Producers : elem[p] \in Wrs <=> p \in Carriers

LEMMA PutCarried ==
    ASSUME RingTypeOK, Carried, NEW p \in Producers,
           PutCall(p) \/ PutStep(p) \/ \E next \in {"idle", "post"} : PutPublish(p, next)
    PROVE  Carried'
<1>n. Nullptr \notin Wrs
  BY RingAssumption
<1>1. CASE PutCall(p)
  BY <1>1 DEF RingTypeOK, Carried, Carriers, PutCall, Goto
<1>2. CASE PutStore(p)
  BY <1>n, <1>2 DEF RingTypeOK, Carried, Carriers, PutStore, Goto
<1>3. CASE PutBusy(p) \/ PutAgain(p) \/ PutClaim(p) \/ PutReload(p)
  BY <1>3 DEF RingTypeOK, Carried, Carriers, PutBusy, PutAgain, PutClaim, PutReload, Goto
<1>4. CASE \E next \in {"idle", "post"} : PutPublish(p, next)
  BY <1>4 DEF RingTypeOK, Carried, Carriers, PutPublish, Goto
<1> QED BY <1>1, <1>2, <1>3, <1>4 DEF PutStep

(* Every work request is somewhere. *)
Somewhere(r, e, h, G) ==
    \A w \in Wrs : \/ w \in h \union G
                   \/ \E p \in Producers : e[p] = w
                   \/ \E i \in Slots : r[i] = w

LEMMA PutSomewhere ==
    ASSUME RingTypeOK, Carried, NEW p \in Producers, NEW f, NEW k, NEW c, NEW G,
           Ring(f, k, c, rear, rq, flags, pcP, idx),
           Somewhere(rq, elem, held, G),
           PutCall(p) \/ PutStep(p)
    PROVE  Somewhere(rq', elem', held', G)
<1>n. Nullptr \notin Wrs
  BY RingAssumption
<1>1. CASE PutCall(p)
  <2>1. PICK w \in held : /\ elem' = [elem EXCEPT ![p] = w]
                          /\ held' = held \ {w} /\ rq' = rq
    BY <1>1 DEF PutCall
  <2>2. elem'[p] = w /\ \A q \in Producers \ {p} : elem'[q] = elem[q]
    BY <2>1 DEF RingTypeOK
  <2>3. elem[p] \notin Wrs
    BY <1>1 DEF PutCall, Carried, Carriers
  <2> QED BY <2>1, <2>2, <2>3 DEF Somewhere
<1>2. CASE PutStore(p)
  <2>1. /\ rq' = [rq EXCEPT ![idx[p]] = elem[p]]
        /\ elem' = [elem EXCEPT ![p] = Nullptr] /\ held' = held /\ pcP[p] = "store"
    BY <1>2 DEF PutStore
  <2>2. p \in Claims(pcP)
    BY <2>1 DEF Claims
  <2>3. idx[p] = rear /\ rear \in Slots /\ rq[rear] = Nullptr
    <3>1. idx[p] = rear /\ rear \in Slots /\ ~(Dist(f, rear, Rqnum) < k)
      BY <2>1, <2>2 DEF Ring, RingTypeOK
    <3>2. \A q \in Producers : pcP[q] # "publish"
      BY <2>1, <2>2 DEF Ring, Claims
    <3> QED BY <3>1, <3>2 DEF Ring
  <2>4. elem'[p] = Nullptr /\ \A q \in Producers \ {p} : elem'[q] = elem[q]
    BY <2>1 DEF RingTypeOK
  <2>5. rq'[rear] = elem[p] /\ \A i \in Slots \ {rear} : rq'[i] = rq[i]
    BY <2>1, <2>3 DEF RingTypeOK
  <2> HIDE DEF Slots, Wrs
  <2> QED BY <1>n, <2>1, <2>3, <2>4, <2>5 DEF Somewhere
<1>3. CASE PutBusy(p) \/ PutAgain(p) \/ PutClaim(p) \/ PutReload(p)
  BY <1>3 DEF Somewhere, PutBusy, PutAgain, PutClaim, PutReload
<1> QED BY <1>1, <1>2, <1>3 DEF PutStep
-----------------------------------------------------------------------------
(* A put takes nothing from Out before it publishes ... *)
LEMMA OutPut ==
    ASSUME RingTypeOK, NEW p \in Producers, NEW f, NEW k, NEW c,
           Ring(f, k, c, rear, rq, flags, pcP, idx),
           PutCall(p) \/ PutStep(p)
    PROVE  /\ Out' = Out /\ rear' = rear
           /\ \/ rq' = rq
              \/ rq' = [rq EXCEPT ![rear] = elem[p]] /\ ~(Dist(f, rear, Rqnum) < k)
<1> DEFINE Publishing == {q \in Producers : pcP[q] = "publish"}
<1>1. CASE PutCall(p)
  <2>1. PICK w \in held : /\ elem' = [elem EXCEPT ![p] = w]
                          /\ held' = held \ {w} /\ rq' = rq
    BY <1>1 DEF PutCall
  <2>2. /\ pcP[p] = "idle" /\ pcP' = [pcP EXCEPT ![p] = "cas"] /\ rear' = rear
        /\ elem'[p] = w /\ \A q \in Producers \ {p} : elem'[q] = elem[q]
    BY <1>1, <2>1 DEF PutCall, RingTypeOK, Goto
  <2>3. Carriers' = Carriers \union {p} /\ p \notin Carriers /\ Publishing' = Publishing
    BY <2>2 DEF Carriers, RingTypeOK
  <2>4. {elem'[q] : q \in Carriers'} = {elem[q] : q \in Carriers} \union {w}
    BY <2>2, <2>3 DEF Carriers
  <2> QED BY <2>1, <2>2, <2>3, <2>4 DEF Out
<1>2. CASE PutStep(p) /\ ~PutStore(p)
  <2>1. /\ UNCHANGED <<rear, rq, elem, held>>
        /\ pcP[p] \in {"cas", "again", "reload"}
        /\ \E l \in {"cas", "again", "reload", "store"} : pcP' = [pcP EXCEPT ![p] = l]
    BY <1>2 DEF PutStep, PutBusy, PutAgain, PutClaim, PutReload, Goto, RingTypeOK
  <2>2. Carriers' = Carriers /\ Publishing' = Publishing
    BY <2>1 DEF Carriers, RingTypeOK
  <2> QED BY <2>1, <2>2 DEF Out
<1>3. CASE PutStore(p)
  <2>1. /\ rq' = [rq EXCEPT ![idx[p]] = elem[p]] /\ pcP[p] = "store"
        /\ elem' = [elem EXCEPT ![p] = Nullptr]
        /\ pcP' = [pcP EXCEPT ![p] = "publish"] /\ UNCHANGED <<rear, held>>
    BY <1>3 DEF PutStore, Goto
  <2>2. p \in Claims(pcP)
    BY <2>1 DEF Claims
  <2>3. idx[p] = rear /\ Publishing = {} /\ ~(Dist(f, rear, Rqnum) < k)
    BY <2>1, <2>2 DEF Ring, Claims
  <2>4. rq'[rear] = elem[p]
    BY <2>1, <2>3 DEF RingTypeOK
  <2>5. Carriers' = Carriers \ {p} /\ p \in Carriers /\ Publishing' = {p}
    BY <2>1, <2>3 DEF Carriers, RingTypeOK
  <2>6. \A q \in Producers \ {p} : elem'[q] = elem[q]
    BY <2>1 DEF RingTypeOK
  <2>7. {elem[q] : q \in Carriers} = {elem'[q] : q \in Carriers'} \union {elem[p]}
    BY <2>5, <2>6 DEF Carriers
  <2>8. {rq'[rear'] : q \in Publishing'} = {elem[p]} /\ {rq[rear] : q \in Publishing} = {}
    BY <2>1, <2>3, <2>4, <2>5
  <2>9. Out' = Out
    BY <2>1, <2>7, <2>8 DEF Out
  <2> QED BY <2>1, <2>3, <2>9
<1> QED BY <1>1, <1>2, <1>3

(* ... and then the work request it has stored. *)
LEMMA OutPublish ==
    ASSUME RingTypeOK, NEW p \in Producers, NEW next \in {"idle", "post"},
           NEW f, NEW k, NEW c, NEW S, NEW G,
           Ring(f, k, c, rear, rq, flags, pcP, idx),
           Apart(rq, elem, held, S, G), rear \in S,
           PutPublish(p, next)
    PROVE  Out' = Out \ {rq[rear]} /\ rq[rear] \in Out /\ rq[rear] \in Wrs /\ rq' = rq
<1> DEFINE Publishing == {q \in Producers : pcP[q] = "publish"}
           w == rq[rear]
<1>1. pcP[p] = "publish" /\ pcP' = [pcP EXCEPT ![p] = next] /\ UNCHANGED <<rq, elem, held>>
  BY DEF PutPublish, Goto
<1>2. p \in Claims(pcP)
  BY <1>1 DEF Claims
<1>3. Claims(pcP) = {p} /\ ~(Dist(f, rear, Rqnum) < k)
  BY <1>2 DEF Ring
<1>4. w \in Wrs /\ Publishing = {p}
  BY <1>1, <1>3 DEF Ring, Claims
<1>5. Publishing' = {} /\ Carriers' = Carriers
  BY <1>1, <1>4 DEF Carriers, RingTypeOK
<1>6. w \notin held /\ \A q \in Producers : elem[q] # w
  BY <1>4 DEF Apart
<1>7. Out = held \union {elem[q] : q \in Carriers} \union {w}
  BY <1>4 DEF Out
<1>8. Out' = held \union {elem[q] : q \in Carriers}
  BY <1>1, <1>5 DEF Out
<1> QED BY <1>1, <1>4, <1>6, <1>7, <1>8 DEF Carriers
-----------------------------------------------------------------------------
(* A work request that is somewhere has an owner, if get has those in the  *)
(* slots that do not count.                                                *)
LEMMA SomeOwner ==
    ASSUME NEW S, NEW G, Somewhere(rq, elem, held, G),
           \A i \in Slots : i \in S \/ rq[i] \in G, NEW w \in Wrs
    PROVE  Owners(w, S, G) # {}
<1>1. CASE w \in held
  <2>1. <<"callers", w>> \in Owners(w, S, G)
    BY <1>1 DEF Owners
  <2> QED BY <2>1
<1>2. CASE w \in G
  <2>1. <<"get", w>> \in Owners(w, S, G)
    BY <1>2 DEF Owners
  <2> QED BY <2>1
<1>3. CASE \E p \in Producers : elem[p] = w
  <2>1. PICK p \in Producers : elem[p] = w
    BY <1>3
  <2>2. <<"put", p>> \in Owners(w, S, G)
    BY <2>1 DEF Owners
  <2> QED BY <2>2
<1>4. CASE w \notin G /\ \E i \in Slots : rq[i] = w
  <2>1. PICK i \in Slots : rq[i] = w
    BY <1>4
  <2>2. <<"slot", i>> \in Owners(w, S, G)
    BY <1>4, <2>1 DEF Owners
  <2> QED BY <2>2
<1> QED BY <1>1, <1>2, <1>3, <1>4 DEF Somewhere
-----------------------------------------------------------------------------
(* Only another producer can move __rear between a load and the            *)
(* compare-exchange that uses it.                                          *)
Alone == \A p, q \in Producers : p = q
Unlapped == Alone => ~lapped /\ \A p \in Producers : pcP[p] = "cas" => idx[p] = rear

LEMMA UnlappedInit == RingInit => Unlapped
BY DEF RingInit, Unlapped

LEMMA UnlappedPut ==
    ASSUME RingTypeOK, Unlapped, NEW p \in Producers, NEW next \in {"idle", "post"},
           PutCall(p) \/ PutStep(p) \/ PutPublish(p, next)
    PROVE  Unlapped'
<1> SUFFICES ASSUME Alone
             PROVE  ~lapped' /\ (pcP'[p] = "cas" => idx'[p] = rear')
  BY DEF Alone, Unlapped
<1>1. ~lapped /\ (pcP[p] = "cas" => idx[p] = rear)
  BY DEF Unlapped
<1>2. CASE PutCall(p) \/ PutAgain(p)
  BY <1>1, <1>2 DEF PutCall, PutAgain, LoadRear, Goto, RingTypeOK
<1>3. CASE PutClaim(p)
  <2>1. idx[p] = rear /\ lapped' = (lapped \/ idx[p] # rear)
    BY <1>1, <1>3, Zenon DEF PutClaim
  <2>2. ~lapped'
    BY <1>1, <2>1, Zenon
  <2>3. pcP'[p] # "cas"
    BY <1>3 DEF PutClaim, Goto, RingTypeOK
  <2> QED BY <2>2, <2>3
<1>4. CASE PutBusy(p) \/ PutReload(p) \/ PutStore(p) \/ PutPublish(p, next)
  BY <1>1, <1>4 DEF PutBusy, PutReload, PutStore, PutPublish, Goto, RingTypeOK
<1> QED BY <1>2, <1>3, <1>4 DEF PutStep

LEMMA UnlappedKept == ASSUME Unlapped, UNCHANGED <<rear, pcP, idx, lapped>> PROVE Unlapped'
BY DEF Unlapped, Alone
=============================================================================
