---------------------------- MODULE ServerProofs ----------------------------
(***************************************************************************)
(* Safety of the composed server for every number of work requests and of  *)
(* workers, every device and every queue pair; then, at the end, of the    *)
(* construction and the release of its resources (CommuResources), for any *)
(* names, ports and sizes.  The two modules share no variable.             *)
(***************************************************************************)
EXTENDS Server, CommuResources, SequenceTheorems, FiniteSetTheorems, TLAPS

TypeOK ==
    /\ free \in Seq(Wrs) /\ recving \in Seq(Wrs) /\ nohand \in Seq(Wrs) /\ posted \in Seq(Wrs)
    /\ owed \in Nat /\ sem \in Nat /\ pre \in Nat /\ done \in Nat
    /\ pcR \in {"next", "wait", "get", "post", "put", "done"}
    /\ phase \in {"pre", "loop", "drain"}
    /\ hand \in Wrs \union {None}
    /\ start \in BOOLEAN
    /\ thnum \in 1 .. MaxWorkers
    /\ pcW \in [Workers -> {"check", "count", "recount", "get", "put", "ended", "none"}]
    /\ elem \in [Workers -> Wrs \union {None}]
    /\ joined \in {{}, {0}}
    /\ pcD \in {"no", "join", "freed"} /\ pcPool \in {"no", "freed"}
    /\ exit \in {"no", "einval", "overrun", "post", "terminate"}

(* Who has a work request in hand. *)
Hands == /\ pcR \in {"post", "put"} => hand \in Wrs
         /\ \A w \in Workers : elem[w] # None <=> pcW[w] = "put"

(* Where the work requests are, and how many there are. *)
InHand == IF pcR = "post" THEN {hand} ELSE {}
Everyone == Elements(free) \union InHand \union Elements(posted) \union Elements(nohand)
               \union {elem[w] : w \in Working}
Amount == Len(free) + Len(posted) + Len(nohand) + Cardinality(Working)
               + IF pcR = "post" THEN 1 ELSE 0

Places == /\ Everyone = Wrs /\ Amount = Elenum
          /\ posted = IF pcR = "put" THEN Append(recving, hand) ELSE recving

(* Receives outstanding and still to be posted. *)
Turns == /\ Len(posted) + owed + sem + InTurn = done
         /\ done <= pre
         /\ phase # "pre" => done = pre

(* Why the process has ended, and what the destructors waited for. *)
Ends == /\ exit = "overrun" => Len(nohand) + Cardinality(Working) > Elenum - pre
        /\ exit = "post" => pre > QpCapacity
        /\ exit = "terminate" => thnum > 1 /\ pcW[0] = "ended"
        /\ joined # {} => pcW[0] = "ended"
        /\ pcD = "freed" => thnum = 1 /\ pcW[0] = "ended"
        /\ pcPool = "freed" => posted = <<>> /\ recving = <<>> /\ nohand = <<>> /\ Working = {}

IInv == TypeOK /\ Hands /\ Places /\ Turns /\ Ends
-----------------------------------------------------------------------------
LEMMA Numbers == /\ Elenum \in Nat /\ Elenum >= 1 /\ MaxWorkers \in Nat /\ MaxWorkers >= 1
                 /\ MaxQpWr \in Nat /\ QpCapacity \in Nat /\ None \notin Wrs
                 /\ 0 \in Workers /\ IsFiniteSet(Workers)
<1>1. IsFiniteSet(Workers)
  BY ServerAssumption, FS_Interval DEF Workers
<1> QED BY <1>1, ServerAssumption DEF Workers

LEMMA WorkingFinite ==
    ASSUME NEW S \in SUBSET Workers
    PROVE  /\ IsFiniteSet(S) /\ Cardinality(S) \in Nat
           /\ Cardinality(S) = 0 => S = {}
           /\ \A w \in S : Cardinality(S \ {w}) = Cardinality(S) - 1
           /\ \A w \in Workers \ S : Cardinality(S \union {w}) = Cardinality(S) + 1
<1>1. IsFiniteSet(S) /\ Cardinality(S) \in Nat /\ (Cardinality(S) = 0 => S = {})
  BY Numbers, FS_Subset, FS_CardinalityType, FS_EmptySet
<1>2. \A w \in S : Cardinality(S \ {w}) = Cardinality(S) - 1
  BY <1>1, FS_RemoveElement
<1>3. \A w \in Workers \ S : Cardinality(S \union {w}) = Cardinality(S) + 1
  BY <1>1, FS_AddElement
<1> QED BY <1>1, <1>2, <1>3

(* What Append and Tail do to the elements of a queue. *)
LEMMA ElementsAppend ==
    ASSUME NEW S, NEW s \in Seq(S), NEW e \in S
    PROVE  /\ Append(s, e) \in Seq(S) /\ Len(Append(s, e)) = Len(s) + 1
           /\ Elements(Append(s, e)) = Elements(s) \union {e}
<1>1. /\ Append(s, e) \in Seq(S) /\ Len(Append(s, e)) = Len(s) + 1
      /\ \A i \in 1 .. Len(s) : Append(s, e)[i] = s[i]
      /\ Append(s, e)[Len(s) + 1] = e
  BY AppendProperties
<1>2. DOMAIN Append(s, e) = 1 .. Len(s) + 1 /\ DOMAIN s = 1 .. Len(s) /\ Len(s) \in Nat
  BY <1>1, LenProperties
<1> QED BY <1>1, <1>2 DEF Elements

LEMMA ElementsTail ==
    ASSUME NEW S, NEW s \in Seq(S), s # <<>>
    PROVE  /\ Head(s) \in S /\ Tail(s) \in Seq(S) /\ Len(Tail(s)) = Len(s) - 1
           /\ Elements(s) = Elements(Tail(s)) \union {Head(s)}
<1>1. /\ Head(s) \in S /\ Tail(s) \in Seq(S) /\ Len(Tail(s)) = Len(s) - 1
      /\ \A i \in 1 .. Len(Tail(s)) : Tail(s)[i] = s[i + 1]
  BY HeadTailProperties
<1>2. /\ DOMAIN Tail(s) = 1 .. Len(s) - 1 /\ DOMAIN s = 1 .. Len(s)
      /\ Len(s) \in Nat /\ Len(s) > 0 /\ Head(s) = s[1]
  BY <1>1, LenProperties, EmptySeq
<1>3. \A i \in 2 .. Len(s) : i - 1 \in 1 .. Len(s) - 1 /\ s[i] = Tail(s)[i - 1]
  BY <1>1, <1>2
<1>4. \A i \in 1 .. Len(s) - 1 : i + 1 \in 1 .. Len(s)
  BY <1>2
<1>5. ASSUME NEW x \in Elements(s) PROVE x \in Elements(Tail(s)) \union {Head(s)}
  <2>1. PICK i \in 1 .. Len(s) : x = s[i]
    BY <1>2 DEF Elements
  <2>2. CASE i = 1
    BY <1>2, <2>1, <2>2
  <2>3. CASE i # 1
    <3>1. i \in 2 .. Len(s)
      BY <1>2, <2>3
    <3>2. i - 1 \in DOMAIN Tail(s) /\ x = Tail(s)[i - 1]
      BY <1>2, <1>3, <2>1, <3>1
    <3> QED BY <3>2 DEF Elements
  <2> QED BY <2>2, <2>3
<1>6. ASSUME NEW x \in Elements(Tail(s)) \union {Head(s)} PROVE x \in Elements(s)
  <2>1. CASE x = Head(s)
    BY <1>2, <2>1 DEF Elements
  <2>2. CASE x \in Elements(Tail(s))
    <3>1. PICK i \in 1 .. Len(s) - 1 : x = Tail(s)[i]
      BY <1>2, <2>2 DEF Elements
    <3>2. x = s[i + 1] /\ i + 1 \in 1 .. Len(s)
      BY <1>1, <1>2, <1>4, <3>1
    <3> QED BY <1>2, <3>2 DEF Elements
  <2> QED BY <2>1, <2>2
<1> QED BY <1>1, <1>5, <1>6

LEMMA TailAppend ==
    ASSUME NEW S, NEW s \in Seq(S), NEW e \in S, s # <<>>
    PROVE  Head(Append(s, e)) = Head(s) /\ Tail(Append(s, e)) = Append(Tail(s), e)
<1>1. /\ Append(s, e) \in Seq(S) /\ Append(s, e) # <<>> /\ Len(Append(s, e)) = Len(s) + 1
      /\ \A i \in 1 .. Len(s) : Append(s, e)[i] = s[i]
      /\ Append(s, e)[Len(s) + 1] = e
  BY AppendProperties
<1>2. /\ Tail(s) \in Seq(S) /\ Len(Tail(s)) = Len(s) - 1 /\ Len(s) \in Nat /\ Len(s) > 0
      /\ \A i \in 1 .. Len(s) - 1 : Tail(s)[i] = s[i + 1]
  BY HeadTailProperties, LenProperties, EmptySeq
<1>3. /\ Tail(Append(s, e)) \in Seq(S) /\ Len(Tail(Append(s, e))) = Len(s)
      /\ \A i \in 1 .. Len(s) : Tail(Append(s, e))[i] = Append(s, e)[i + 1]
  BY <1>1, <1>2, HeadTailProperties
<1>4. /\ Append(Tail(s), e) \in Seq(S) /\ Len(Append(Tail(s), e)) = Len(s)
      /\ \A i \in 1 .. Len(s) - 1 : Append(Tail(s), e)[i] = Tail(s)[i]
      /\ Append(Tail(s), e)[Len(s)] = e
  BY <1>2, AppendProperties
<1>5. \A i \in 1 .. Len(s) : Tail(Append(s, e))[i] = Append(Tail(s), e)[i]
  <2> SUFFICES ASSUME NEW i \in 1 .. Len(s)
               PROVE  Tail(Append(s, e))[i] = Append(Tail(s), e)[i]
    OBVIOUS
  <2>1. CASE i = Len(s)
    BY <1>1, <1>2, <1>3, <1>4, <2>1
  <2>2. CASE i # Len(s)
    <3>1. i \in Int /\ i >= 1 /\ i <= Len(s) /\ Len(s) \in Int
      BY <1>2
    <3>2. i \in 1 .. Len(s) - 1 /\ i + 1 \in 1 .. Len(s)
      BY <2>2, <3>1
    <3> QED BY <1>1, <1>2, <1>3, <1>4, <3>2
  <2> QED BY <2>1, <2>2
<1>6. Tail(Append(s, e)) = Append(Tail(s), e)
  BY <1>3, <1>4, <1>5, SeqEqual
<1>7. Head(Append(s, e)) = Head(s)
  BY <1>1, <1>2
<1> QED BY <1>6, <1>7
-----------------------------------------------------------------------------
LEMMA InitInv == Init => IInv
<1> SUFFICES ASSUME Init PROVE IInv
  OBVIOUS
<1>1. TypeOK
  <2>1. free \in Seq(Wrs)
    <3>1. \A k \in 1 .. Elenum : k - 1 \in Wrs
      BY Numbers DEF Wrs
    <3> QED BY <3>1, Numbers, IsASeq DEF Init
  <2>2. pre \in Nat
    BY Numbers DEF Init, Clamp
  <2>3. <<>> \in Seq(Wrs)
    BY EmptySeq
  <2>4. /\ pcW \in [Workers -> {"check", "count", "recount", "get", "put", "ended", "none"}]
        /\ elem \in [Workers -> Wrs \union {None}]
    BY DEF Init
  <2> QED BY <2>1, <2>2, <2>3, <2>4 DEF Init, TypeOK
<1>2. Hands
  BY DEF Init, Hands
<1>3. Working = {} /\ Cardinality(Working) = 0
  BY FS_EmptySet DEF Init, Working
<1>4. DOMAIN free = 1 .. Elenum /\ Len(free) = Elenum /\ Elements(free) = Wrs
  <2>1. DOMAIN free = 1 .. Elenum /\ Len(free) = Elenum
    BY <1>1, Numbers, LenProperties DEF Init, TypeOK
  <2>2. \A k \in 1 .. Elenum : free[k] \in Wrs
    BY Numbers DEF Init, Wrs
  <2>3. \A w \in Wrs : w + 1 \in 1 .. Elenum /\ free[w + 1] = w
    BY Numbers DEF Init, Wrs
  <2> QED BY <2>1, <2>2, <2>3 DEF Elements
<1>5. Elements(<<>>) = {} /\ Len(<<>>) = 0
  BY DEF Elements
<1>6. Places
  <2>1. /\ recving = <<>> /\ nohand = <<>> /\ posted = <<>> /\ pcR = "next"
    BY DEF Init
  <2>2. Everyone = Wrs
    BY <1>3, <1>4, <1>5, <2>1 DEF Everyone, InHand
  <2>3. Amount = Elenum
    BY <1>3, <1>4, <1>5, <2>1, Numbers DEF Amount
  <2> QED BY <2>1, <2>2, <2>3 DEF Places
<1>7. Turns
  BY <1>1, <1>5 DEF Init, Turns, InTurn, TypeOK
<1>8. Ends
  BY DEF Init, Ends
<1> QED BY <1>1, <1>2, <1>6, <1>7, <1>8 DEF IInv
-----------------------------------------------------------------------------
LEMMA Facts ==
    ASSUME IInv
    PROVE  /\ free \in Seq(Wrs) /\ recving \in Seq(Wrs) /\ nohand \in Seq(Wrs) /\ posted \in Seq(Wrs)
           /\ Len(free) \in Nat /\ Len(recving) \in Nat /\ Len(nohand) \in Nat /\ Len(posted) \in Nat
           /\ owed \in Nat /\ sem \in Nat /\ pre \in Nat /\ done \in Nat
           /\ Working \in SUBSET Workers /\ Cardinality(Working) \in Nat
           /\ Working = {w \in Workers : pcW[w] = "put"}
<1>1. /\ free \in Seq(Wrs) /\ recving \in Seq(Wrs) /\ nohand \in Seq(Wrs) /\ posted \in Seq(Wrs)
      /\ owed \in Nat /\ sem \in Nat /\ pre \in Nat /\ done \in Nat
  BY DEF IInv, TypeOK
<1>2. Working \in SUBSET Workers /\ Working = {w \in Workers : pcW[w] = "put"}
  BY DEF Working, IInv, Hands
<1>3. Cardinality(Working) \in Nat
  BY <1>2, WorkingFinite
<1>4. /\ Len(free) \in Nat /\ Len(recving) \in Nat /\ Len(nohand) \in Nat /\ Len(posted) \in Nat
  BY <1>1, LenProperties
<1> QED BY <1>1, <1>2, <1>3, <1>4

(* Steps that move no work request. *)
LEMMA Unmoved ==
    ASSUME IInv, UNCHANGED <<free, recving, nohand, posted, elem, hand>>,
           pcR = pcR' \/ (pcR \notin {"post", "put"} /\ pcR' \notin {"post", "put"})
    PROVE  Places' /\ Working' = Working
<1>1. Working' = Working
  BY DEF Working
<1>2. Everyone' = Everyone /\ Amount' = Amount
  BY <1>1 DEF Everyone, Amount, InHand
<1> QED BY <1>1, <1>2 DEF IInv, Places

(* The receive thread between two work requests. *)
LEMMA WaitInv ==
    ASSUME IInv, Alive, PreNext \/ LoopNext \/ DrainNext \/ SemTaken \/ DrainExpires
    PROVE  IInv'
<1>1. /\ UNCHANGED <<free, recving, nohand, posted, elem, hand, owed, pre, thnum, pcW,
                     start, joined, pcD, pcPool, exit>>
      /\ pcR \in {"next", "wait"} /\ pcR' \in {"next", "get", "wait", "done"}
  BY DEF PreNext, LoopNext, DrainNext, SemTaken, DrainExpires, Receive, workVars, stopVars
<1>2. Places' /\ Working' = Working
  BY <1>1, Unmoved
<1>3. sem' \in Nat /\ done' \in Nat /\ phase' \in {"pre", "loop", "drain"} /\ Turns'
  <2>1. Turns /\ Len(posted) \in Nat /\ owed \in Nat /\ sem \in Nat /\ done \in Nat /\ pre \in Nat
        /\ phase \in {"pre", "loop", "drain"}
    BY Facts DEF IInv, TypeOK
  <2>2. CASE PreNext
    <3>1. /\ pcR = "next" /\ sem' = sem /\ phase = "pre"
          /\ IF done < pre THEN pcR' = "get" /\ done' = done + 1 /\ phase' = phase
                           ELSE pcR' = "next" /\ done' = done /\ phase' = "loop"
      BY <2>2 DEF PreNext, Receive
    <3> QED BY <1>1, <2>1, <3>1 DEF Turns, InTurn
  <2>3. CASE LoopNext \/ DrainNext
    <3>1. /\ pcR = "next" /\ pcR' = "wait" /\ sem' = sem /\ done' = done
          /\ phase \in {"loop", "drain"} /\ phase' \in {"loop", "drain"}
      BY <2>3 DEF LoopNext, DrainNext, Receive
    <3> QED BY <1>1, <2>1, <3>1 DEF Turns, InTurn
  <2>4. CASE SemTaken
    <3>1. /\ pcR = "wait" /\ pcR' = "get" /\ sem > 0 /\ sem' = sem - 1
          /\ done' = done /\ phase' = phase
      BY <2>4 DEF SemTaken, Receive
    <3> QED BY <1>1, <2>1, <3>1 DEF Turns, InTurn
  <2>5. CASE DrainExpires
    <3>1. /\ pcR = "wait" /\ pcR' = "done" /\ sem' = sem /\ done' = done /\ phase' = phase
      BY <2>5 DEF DrainExpires, Receive
    <3> QED BY <1>1, <2>1, <3>1 DEF Turns, InTurn
  <2> QED BY <2>2, <2>3, <2>4, <2>5
<1>4. TypeOK'
  BY <1>1, <1>3 DEF IInv, TypeOK
<1>5. Hands'
  BY <1>1 DEF IInv, Hands
<1>6. Ends'
  BY <1>1, <1>2 DEF IInv, Ends
<1> QED BY <1>2, <1>3, <1>4, <1>5, <1>6 DEF IInv

(* The receive thread moves a work request from the pool to the QP. *)
LEMMA RecvInv == ASSUME IInv, Alive, GetWr \/ PostRecv \/ PutRecving PROVE IInv'
<1>1. /\ UNCHANGED <<nohand, elem, owed, sem, pre, done, phase, thnum, pcW,
                     start, joined, pcD, pcPool, exit>>
      /\ exit = "no" /\ pcPool = "no"
  BY DEF GetWr, PostRecv, PutRecving, Receive, workVars, stopVars, Alive
<1>2. Working' = Working
  BY <1>1 DEF Working
<1>3. CASE GetWr
  <2>1. /\ pcR = "get" /\ pcR' = "post" /\ free # <<>> /\ hand' = Head(free)
        /\ free' = Tail(free) /\ UNCHANGED <<recving, posted>>
    BY <1>3 DEF GetWr, Receive
  <2>2. /\ hand' \in Wrs /\ free' \in Seq(Wrs) /\ Len(free') = Len(free) - 1
        /\ Elements(free) = Elements(free') \union {hand'}
    BY <2>1, Facts, ElementsTail
  <2>3. Everyone' = Everyone
    BY <1>1, <1>2, <2>1, <2>2 DEF Everyone, InHand
  <2>4. Amount' = Amount
    BY <1>1, <1>2, <2>1, <2>2, Facts DEF Amount
  <2>5. Places'
    BY <2>1, <2>3, <2>4 DEF IInv, Places
  <2>6. Turns'
    BY <1>1, <2>1 DEF IInv, Turns, InTurn
  <2> QED BY <1>1, <1>2, <2>1, <2>2, <2>5, <2>6 DEF IInv, TypeOK, Hands, Ends
<1>4. CASE PostRecv
  <2>1. /\ pcR = "post" /\ pcR' = "put" /\ posted' = Append(posted, hand)
        /\ UNCHANGED <<free, recving, hand>> /\ hand \in Wrs
    BY <1>4 DEF PostRecv, Receive, IInv, Hands
  <2>2. /\ posted' \in Seq(Wrs) /\ Len(posted') = Len(posted) + 1
        /\ Elements(posted') = Elements(posted) \union {hand}
    BY <2>1, Facts, ElementsAppend
  <2>3. Everyone' = Everyone
    BY <1>1, <1>2, <2>1, <2>2 DEF Everyone, InHand
  <2>4. Amount' = Amount
    BY <1>1, <1>2, <2>1, <2>2, Facts DEF Amount
  <2>5. Places'
    BY <2>1, <2>3, <2>4 DEF IInv, Places
  <2>6. Turns'
    BY <1>1, <2>1, <2>2, Facts DEF IInv, Turns, InTurn
  <2> QED BY <1>1, <1>2, <2>1, <2>2, <2>5, <2>6 DEF IInv, TypeOK, Hands, Ends
<1>5. CASE PutRecving
  <2>1. /\ pcR = "put" /\ pcR' = "next" /\ recving' = Append(recving, hand)
        /\ hand' = None /\ UNCHANGED <<free, posted>> /\ hand \in Wrs
    BY <1>5 DEF PutRecving, Receive, IInv, Hands
  <2>2. recving' \in Seq(Wrs)
    BY <2>1, Facts, ElementsAppend
  <2>3. Everyone' = Everyone
    BY <1>1, <1>2, <2>1 DEF Everyone, InHand
  <2>4. Amount' = Amount
    BY <1>1, <1>2, <2>1 DEF Amount
  <2>5. Places'
    BY <2>1, <2>3, <2>4 DEF IInv, Places
  <2>6. Turns'
    BY <1>1, <2>1 DEF IInv, Turns, InTurn
  <2> QED BY <1>1, <1>2, <2>1, <2>2, <2>5, <2>6 DEF IInv, TypeOK, Hands, Ends
<1> QED BY <1>3, <1>4, <1>5

(* The process ends. *)
LEMMA DieInv == ASSUME IInv, Alive, DrainInvalid \/ GetOverrun \/ PostFails PROVE IInv'
<1>1. /\ UNCHANGED <<free, recving, nohand, posted, elem, hand, pcR, phase, owed, sem, pre, done,
                     thnum, pcW, start, joined, pcD, pcPool>>
      /\ exit' \in {"einval", "overrun", "post"} /\ pcPool = "no"
  BY DEF DrainInvalid, GetOverrun, PostFails, Die, qpVars, recvVars, workVars, stopVars, Alive
<1>2. Places' /\ Working' = Working
  BY <1>1, Unmoved
<1>3. exit' = "overrun" => Len(nohand) + Cardinality(Working) > Elenum - pre
  <2> SUFFICES ASSUME GetOverrun PROVE Len(nohand) + Cardinality(Working) > Elenum - pre
    BY DEF DrainInvalid, GetOverrun, PostFails, Die
  <2>1. pcR = "get" /\ free = <<>> /\ Len(free) = 0
    BY DEF GetOverrun
  <2>2. Len(posted) + Len(nohand) + Cardinality(Working) = Elenum
    BY <2>1, Facts DEF IInv, Places, Amount
  <2>3. Len(posted) + owed + sem + 1 <= pre
    BY <2>1, Facts DEF IInv, Turns, InTurn
  <2> QED BY <2>2, <2>3, Facts, Numbers
<1>4. exit' = "post" => pre > QpCapacity
  <2> SUFFICES ASSUME PostFails PROVE pre > QpCapacity
    BY DEF DrainInvalid, GetOverrun, PostFails, Die
  <2>1. pcR = "post" /\ Len(posted) >= QpCapacity
    BY DEF PostFails
  <2>2. Len(posted) + owed + sem + 1 <= pre
    BY <2>1, Facts DEF IInv, Turns, InTurn
  <2> QED BY <2>1, <2>2, Facts, Numbers
<1>5. Turns' /\ TypeOK' /\ Hands'
  BY <1>1 DEF IInv, Turns, InTurn, TypeOK, Hands
<1> QED BY <1>1, <1>2, <1>3, <1>4, <1>5 DEF IInv, Ends
-----------------------------------------------------------------------------
(* A completion takes from the queue what the message has filled.          *)
LEMMA CompleteInv == ASSUME IInv, Alive, Complete PROVE IInv'
<1>1. /\ posted # <<>> /\ recving # <<>> /\ posted' = Tail(posted) /\ owed' = owed + 1
      /\ nohand' = Append(nohand, Head(recving)) /\ recving' = Tail(recving)
      /\ UNCHANGED <<free, sem, pre, done, pcR, phase, hand, thnum, pcW, elem,
                     start, joined, pcD, pcPool, exit>>
      /\ exit = "no" /\ pcPool = "no"
  BY DEF Complete, recvVars, workVars, stopVars, Alive
<1>2. Working' = Working
  BY <1>1 DEF Working
<1>3. /\ posted' \in Seq(Wrs) /\ Len(posted') = Len(posted) - 1
      /\ Elements(posted) = Elements(posted') \union {Head(posted)}
  BY <1>1, Facts, ElementsTail
<1>4. recving' \in Seq(Wrs) /\ Head(recving) \in Wrs
  BY <1>1, Facts, ElementsTail
<1>5. /\ nohand' \in Seq(Wrs) /\ Len(nohand') = Len(nohand) + 1
      /\ Elements(nohand') = Elements(nohand) \union {Head(recving)}
  BY <1>1, <1>4, Facts, ElementsAppend
<1>6. /\ Head(posted) = Head(recving)
      /\ posted' = IF pcR = "put" THEN Append(recving', hand) ELSE recving'
  <2>1. CASE pcR = "put"
    BY <1>1, <2>1, Facts, TailAppend DEF IInv, Places, Hands
  <2>2. CASE pcR # "put"
    BY <1>1, <2>2 DEF IInv, Places
  <2> QED BY <2>1, <2>2
<1>7. Everyone' = Everyone
  BY <1>1, <1>2, <1>3, <1>5, <1>6 DEF Everyone, InHand
<1>8. Amount' = Amount
  BY <1>1, <1>2, <1>3, <1>5, Facts DEF Amount
<1>9. Places'
  BY <1>1, <1>6, <1>7, <1>8 DEF IInv, Places
<1>10. Turns'
  BY <1>1, <1>3, Facts DEF IInv, Turns, InTurn
<1> QED BY <1>1, <1>3, <1>4, <1>5, <1>9, <1>10, Facts DEF IInv, TypeOK, Hands, Ends

LEMMA SignalInv == ASSUME IInv, Alive, Signal PROVE IInv'
<1>1. /\ owed > 0 /\ owed' = owed - 1 /\ sem' = sem + 1
      /\ UNCHANGED <<free, recving, nohand, posted, pre, done, pcR, phase, hand, thnum, pcW, elem,
                     start, joined, pcD, pcPool, exit>>
  BY DEF Signal, recvVars, workVars, stopVars
<1>2. Places' /\ Working' = Working
  BY <1>1, Unmoved
<1>3. InTurn' = InTurn /\ InTurn \in Nat
  BY <1>1 DEF InTurn
<1>4. owed' \in Nat /\ sem' \in Nat /\ owed' + sem' = owed + sem
  <2>1. owed \in Nat /\ sem \in Nat
    BY Facts
  <2>2. owed > 0 /\ owed' = owed - 1 /\ sem' = sem + 1
    BY <1>1
  <2> QED BY <2>1, <2>2
<1>5. Len(posted)' + owed' + sem' + InTurn' = Len(posted) + owed + sem + InTurn
  <2>1. Len(posted)' = Len(posted) /\ Len(posted) \in Nat /\ owed \in Nat /\ sem \in Nat
    BY <1>1, Facts
  <2>2. owed > 0 /\ owed' = owed - 1 /\ sem' = sem + 1
    BY <1>1
  <2>3. Len(posted) + (owed - 1) + (sem + 1) + InTurn = Len(posted) + owed + sem + InTurn
    BY <1>3, <2>1, <2>2
  <2> QED BY <1>3, <2>1, <2>2, <2>3
<1>6. Turns'
  BY <1>1, <1>5 DEF IInv, Turns
<1> QED BY <1>1, <1>2, <1>4, <1>6 DEF IInv, TypeOK, Hands, Ends

(* A worker. *)
LEMMA WorkerInv == ASSUME IInv, Alive, NEW w \in Workers, Worker(w) PROVE IInv'
<1>1. /\ UNCHANGED <<recving, posted, owed, sem, pre, done, pcR, phase, hand, thnum,
                     start, joined, pcD, pcPool, exit>>
      /\ exit = "no" /\ pcPool = "no"
      /\ pcW[w] # "ended" /\ pcW \in [Workers -> {"check", "count", "recount", "get", "put",
                                                  "ended", "none"}]
      /\ elem \in [Workers -> Wrs \union {None}]
  BY DEF Worker, LoadStart, Busy, Quiet, Take, GiveBack, Work, qpVars, recvVars, stopVars, Alive,
         IInv, TypeOK
<1>2. Turns'
  BY <1>1 DEF IInv, Turns, InTurn
<1>3. ASSUME NEW l \in {"check", "count", "recount", "get", "put", "ended"},
             pcW' = [pcW EXCEPT ![w] = l]
      PROVE  /\ pcW' \in [Workers -> {"check", "count", "recount", "get", "put", "ended", "none"}]
             /\ pcW'[w] = l /\ \A v \in Workers \ {w} : pcW'[v] = pcW[v]
             /\ pcW[0] = "ended" => pcW'[0] = "ended"
  BY <1>1, <1>3, Numbers
<1>4. CASE LoadStart(w) \/ Busy(w) \/ Quiet(w)
  <2>1. /\ UNCHANGED <<free, nohand, elem>> /\ pcW[w] # "put"
        /\ \E l \in {"check", "count", "recount", "get", "ended"} : pcW' = [pcW EXCEPT ![w] = l]
    BY <1>4 DEF LoadStart, Busy, Quiet, Work
  <2>2. PICK l \in {"check", "count", "recount", "get", "ended"} : pcW' = [pcW EXCEPT ![w] = l]
    BY <2>1
  <2>3. Places' /\ Working' = Working
    BY <1>1, <2>1, Unmoved
  <2>4. TypeOK' /\ (pcW[0] = "ended" => pcW'[0] = "ended")
    BY <1>1, <1>3, <2>1, <2>2 DEF IInv, TypeOK
  <2>5. Hands'
    BY <1>1, <1>3, <2>1, <2>2 DEF IInv, Hands
  <2>6. Ends'
    BY <1>1, <2>4 DEF IInv, Ends, Alive
  <2> QED BY <1>2, <2>3, <2>4, <2>5, <2>6 DEF IInv
<1>5. CASE Take(w)
  <2> DEFINE e == Head(nohand)
  <2>1. /\ nohand # <<>> /\ nohand' = Tail(nohand) /\ free' = free
        /\ elem' = [elem EXCEPT ![w] = e]
        /\ pcW[w] = "get" /\ pcW' = [pcW EXCEPT ![w] = "put"]
    BY <1>5 DEF Take, Work
  <2>2. /\ e \in Wrs /\ nohand' \in Seq(Wrs) /\ Len(nohand') = Len(nohand) - 1
        /\ Elements(nohand) = Elements(nohand') \union {e}
    BY <2>1, Facts, ElementsTail
  <2> HIDE DEF e
  <2>3. /\ elem'[w] = e /\ \A v \in Workers \ {w} : elem'[v] = elem[v]
        /\ elem' \in [Workers -> Wrs \union {None}] /\ elem[w] = None /\ e # None
    BY <1>1, <2>1, <2>2, Numbers DEF IInv, Hands
  <2>4. /\ pcW' \in [Workers -> {"check", "count", "recount", "get", "put", "ended", "none"}]
        /\ pcW'[w] = "put" /\ (\A v \in Workers \ {w} : pcW'[v] = pcW[v])
        /\ pcW[0] = "ended" => pcW'[0] = "ended"
    BY <1>3, <2>1
  <2>5. Working' = Working \union {w} /\ w \notin Working
    BY <2>3 DEF Working
  <2>6. Cardinality(Working') = Cardinality(Working) + 1
    BY <2>5, Facts, WorkingFinite
  <2>7. {elem'[v] : v \in Working'} = {elem[v] : v \in Working} \union {e}
    BY <2>3, <2>5 DEF Working
  <2>8. Everyone' = Everyone
    BY <1>1, <2>1, <2>2, <2>7 DEF Everyone, InHand
  <2>9. Amount' = Amount
    BY <1>1, <2>1, <2>2, <2>6, Facts DEF Amount
  <2>10. Places' /\ TypeOK' /\ Hands' /\ Ends'
    BY <1>1, <2>1, <2>2, <2>3, <2>4, <2>8, <2>9 DEF IInv, Places, TypeOK, Hands, Ends
  <2> QED BY <1>2, <2>10 DEF IInv
<1>6. CASE GiveBack(w)
  <2> DEFINE e == elem[w]
  <2>1. /\ free' = Append(free, e) /\ nohand' = nohand
        /\ elem' = [elem EXCEPT ![w] = None]
        /\ pcW[w] = "put" /\ pcW' = [pcW EXCEPT ![w] = "check"] /\ e \in Wrs
    BY <1>1, <1>6 DEF GiveBack, Work, IInv, Hands
  <2>2. /\ free' \in Seq(Wrs) /\ Len(free') = Len(free) + 1
        /\ Elements(free') = Elements(free) \union {e}
    BY <2>1, Facts, ElementsAppend
  <2>3. /\ elem'[w] = None /\ \A v \in Workers \ {w} : elem'[v] = elem[v]
        /\ elem' \in [Workers -> Wrs \union {None}] /\ e # None
    BY <1>1, <2>1, Numbers
  <2>4. /\ pcW' \in [Workers -> {"check", "count", "recount", "get", "put", "ended", "none"}]
        /\ pcW'[w] = "check" /\ (\A v \in Workers \ {w} : pcW'[v] = pcW[v])
        /\ pcW[0] = "ended" => pcW'[0] = "ended"
    BY <1>3, <2>1
  <2>5. Working' = Working \ {w} /\ w \in Working
    BY <2>3 DEF Working
  <2>6. Cardinality(Working') = Cardinality(Working) - 1
    BY <2>5, Facts, WorkingFinite
  <2>7. {elem[v] : v \in Working} = {elem'[v] : v \in Working'} \union {e}
    BY <2>3, <2>5 DEF Working
  <2>8. Everyone' = Everyone
    BY <1>1, <2>1, <2>2, <2>7 DEF Everyone, InHand
  <2>9. Amount' = Amount
    BY <1>1, <2>1, <2>2, <2>6, Facts DEF Amount
  <2> HIDE DEF e
  <2>10. Places' /\ TypeOK' /\ Hands' /\ Ends'
    BY <1>1, <2>1, <2>2, <2>3, <2>4, <2>8, <2>9 DEF IInv, Places, TypeOK, Hands, Ends
  <2> QED BY <1>2, <2>10 DEF IInv
<1> QED BY <1>4, <1>5, <1>6 DEF Worker

(* The program and its destructors. *)
LEMMA ShutdownInv == ASSUME IInv, Alive, Shutdown PROVE IInv'
<1>1. /\ UNCHANGED <<free, recving, nohand, posted, owed, sem, pre, done, pcR, phase, hand,
                     thnum, pcW, elem>>
      /\ exit = "no" /\ pcPool = "no"
  BY DEF Shutdown, Stop, BeginJoin, Join, DeleteThreads, FreePool, Quit, qpVars, recvVars, workVars,
         Alive
<1>2. Places' /\ Working' = Working
  BY <1>1, Unmoved
<1>3. Turns' /\ Hands'
  BY <1>1 DEF IInv, Turns, InTurn, Hands
<1>4. TypeOK' /\ Ends'
  <2>1. CASE Stop \/ BeginJoin
    BY <1>1, <1>2, <2>1 DEF Stop, BeginJoin, IInv, TypeOK, Ends
  <2>2. CASE Join
    BY <1>1, <1>2, <2>2 DEF Join, IInv, TypeOK, Ends
  <2>3. CASE DeleteThreads
    <3>1. joined = {0} /\ pcW[0] = "ended" /\ thnum \in 1 .. MaxWorkers
      BY <2>3 DEF DeleteThreads, IInv, TypeOK, Ends
    <3>2. (\A w \in Workers : w < thnum => w \in joined) <=> thnum = 1
      <4>1. CASE thnum = 1
        BY <3>1, <4>1 DEF Workers
      <4>2. CASE thnum # 1
        <5>1. 1 \in Workers /\ 1 < thnum
          BY <3>1, <4>2, Numbers DEF Workers
        <5> QED BY <3>1, <4>2, <5>1
      <4> QED BY <4>1, <4>2
    <3>3. /\ UNCHANGED <<start, joined, pcPool>>
          /\ \/ thnum = 1 /\ pcD' = "freed" /\ exit' = exit
             \/ thnum > 1 /\ pcD' = pcD /\ exit' = "terminate"
      BY <2>3, <3>1, <3>2, Numbers DEF DeleteThreads
    <3> QED BY <1>1, <1>2, <3>1, <3>3 DEF IInv, TypeOK, Ends
  <2>4. CASE FreePool
    <3>1. /\ pcR = "done" /\ Len(free) = Elenum /\ pcPool' = "freed"
          /\ UNCHANGED <<start, joined, pcD, exit>>
      BY <2>4 DEF FreePool
    <3>2. Len(posted) = 0 /\ Len(nohand) = 0 /\ Cardinality(Working) = 0
      BY <3>1, Facts, Numbers DEF IInv, Places, Amount
    <3>3. posted = <<>> /\ nohand = <<>> /\ Working = {} /\ recving = posted
      BY <3>1, <3>2, Facts, WorkingFinite, EmptySeq DEF IInv, Places
    <3> QED BY <1>1, <1>2, <3>1, <3>3 DEF IInv, TypeOK, Ends
  <2> QED BY <2>1, <2>2, <2>3, <2>4 DEF Shutdown
<1> QED BY <1>2, <1>3, <1>4 DEF IInv
-----------------------------------------------------------------------------
LEMMA StepInv == IInv /\ [Next]_vars => IInv'
<1> SUFFICES ASSUME IInv, [Next]_vars PROVE IInv'
  OBVIOUS
<1>1. CASE UNCHANGED vars
  <2>1. UNCHANGED <<free, recving, nohand, posted, owed, sem, pre, done, pcR, phase, hand,
                    thnum, pcW, elem, start, joined, pcD, pcPool, exit>>
    BY <1>1 DEF vars, qpVars, recvVars, workVars, stopVars
  <2>2. Places' /\ Working' = Working
    BY <2>1, Unmoved
  <2> QED BY <2>1, <2>2 DEF IInv, TypeOK, Hands, Turns, InTurn, Ends
<1>2. CASE Alive /\ Receiver
  BY <1>2, WaitInv, RecvInv, DieInv DEF Receiver
<1>3. CASE Alive /\ (Environment \/ Shutdown)
  BY <1>3, CompleteInv, SignalInv, ShutdownInv DEF Environment
<1>4. ASSUME Alive, NEW w \in Workers, Worker(w) PROVE IInv'
  BY <1>4, WorkerInv
<1> QED BY <1>1, <1>2, <1>3, <1>4 DEF Next

THEOREM Invariance == Spec => []IInv
BY InitInv, StepInv, PTL DEF Spec
-----------------------------------------------------------------------------
LEMMA ElementsConcat ==
    ASSUME NEW S, NEW s \in Seq(S), NEW t \in Seq(S)
    PROVE  /\ s \o t \in Seq(S) /\ Len(s \o t) = Len(s) + Len(t)
           /\ Elements(s \o t) = Elements(s) \union Elements(t)
<1>1. /\ s \o t \in Seq(S) /\ Len(s \o t) = Len(s) + Len(t)
      /\ \A i \in 1 .. Len(s) + Len(t) :
            (s \o t)[i] = IF i <= Len(s) THEN s[i] ELSE t[i - Len(s)]
  BY ConcatProperties
<1>2. /\ DOMAIN s = 1 .. Len(s) /\ DOMAIN t = 1 .. Len(t)
      /\ DOMAIN (s \o t) = 1 .. Len(s) + Len(t) /\ Len(s) \in Nat /\ Len(t) \in Nat
  BY <1>1, LenProperties
<1>3. \A i \in 1 .. Len(s) : i \in 1 .. Len(s) + Len(t) /\ (s \o t)[i] = s[i]
  BY <1>1, <1>2
<1>4. \A i \in 1 .. Len(t) : Len(s) + i \in 1 .. Len(s) + Len(t) /\ (s \o t)[Len(s) + i] = t[i]
  BY <1>1, <1>2
<1>5. \A i \in 1 .. Len(s) + Len(t) : \/ i \in 1 .. Len(s)
                                      \/ i - Len(s) \in 1 .. Len(t) /\ (s \o t)[i] = t[i - Len(s)]
  BY <1>1, <1>2
<1>6. ASSUME NEW x \in Elements(s \o t) PROVE x \in Elements(s) \union Elements(t)
  <2>1. PICK i \in 1 .. Len(s) + Len(t) : x = (s \o t)[i]
    BY <1>2 DEF Elements
  <2>2. CASE i \in 1 .. Len(s)
    BY <1>2, <1>3, <2>1, <2>2 DEF Elements
  <2>3. CASE i - Len(s) \in 1 .. Len(t) /\ (s \o t)[i] = t[i - Len(s)]
    BY <1>2, <2>1, <2>3 DEF Elements
  <2> QED BY <1>5, <2>2, <2>3
<1>7. ASSUME NEW x \in Elements(s) \union Elements(t) PROVE x \in Elements(s \o t)
  <2>1. CASE x \in Elements(s)
    <3>1. PICK i \in 1 .. Len(s) : x = s[i]
      BY <1>2, <2>1 DEF Elements
    <3>2. i \in DOMAIN (s \o t) /\ x = (s \o t)[i]
      BY <1>2, <1>3, <3>1
    <3> QED BY <3>2 DEF Elements
  <2>2. CASE x \in Elements(t)
    <3>1. PICK i \in 1 .. Len(t) : x = t[i]
      BY <1>2, <2>2 DEF Elements
    <3>2. Len(s) + i \in DOMAIN (s \o t) /\ x = (s \o t)[Len(s) + i]
      BY <1>2, <1>4, <3>1
    <3> QED BY <3>2 DEF Elements
  <2> QED BY <2>1, <2>2
<1> QED BY <1>1, <1>6, <1>7

(* Every work request is in exactly one place, and a completion takes the  *)
(* one that was filled (commu.cpp:285-306).                                *)
THEOREM Located == Spec => []OnePlace
<1>1. IInv => OnePlace
  <2> SUFFICES ASSUME IInv PROVE OnePlace
    OBVIOUS
  <2> DEFINE inHand == IF pcR = "post" THEN <<hand>> ELSE <<>>
             late == IF pcR = "put" THEN <<hand>> ELSE <<>>
             all == free \o inHand \o posted \o nohand
  <2>1. /\ inHand \in Seq(Wrs) /\ Elements(inHand) = InHand
        /\ Len(inHand) = IF pcR = "post" THEN 1 ELSE 0
    <3>1. CASE pcR = "post"
      <4>1. hand \in Wrs /\ inHand = <<hand>>
        BY <3>1 DEF IInv, Hands
      <4>2. DOMAIN <<hand>> = {1} /\ <<hand>>[1] = hand
        OBVIOUS
      <4> QED BY <3>1, <4>1, <4>2 DEF Elements, InHand
    <3>2. CASE pcR # "post"
      <4>1. DOMAIN <<>> = {}
        OBVIOUS
      <4> QED BY <3>2, <4>1 DEF Elements, InHand
    <3> QED BY <3>1, <3>2
  <2>2. posted = recving \o late
    <3>1. CASE pcR = "put"
      <4>1. posted = Append(recving, hand) /\ hand \in Wrs
        BY <3>1 DEF IInv, Places, Hands
      <4>2. Append(recving, hand) = recving \o <<hand>>
        BY <4>1, Facts, AppendIsConcat
      <4> QED BY <3>1, <4>1, <4>2
    <3>2. CASE pcR # "put"
      BY <3>2, Facts, ConcatEmptySeq DEF IInv, Places
    <3> QED BY <3>1, <3>2
  <2> HIDE DEF inHand, late
  <2>3. /\ free \o inHand \in Seq(Wrs) /\ Len(free \o inHand) = Len(free) + Len(inHand)
        /\ Elements(free \o inHand) = Elements(free) \union Elements(inHand)
    BY <2>1, Facts, ElementsConcat
  <2> DEFINE ab == free \o inHand
             abc == ab \o posted
  <2>4. ab \in Seq(Wrs) /\ all = abc \o nohand
    BY <2>3
  <2> HIDE DEF ab
  <2>5. /\ abc \in Seq(Wrs) /\ Len(abc) = Len(ab) + Len(posted)
        /\ Elements(abc) = Elements(ab) \union Elements(posted)
    BY <2>4, Facts, ElementsConcat
  <2> HIDE DEF abc
  <2>6. /\ Len(abc \o nohand) = Len(abc) + Len(nohand)
        /\ Elements(abc \o nohand) = Elements(abc) \union Elements(nohand)
    <3>1. abc \in Seq(Wrs) /\ nohand \in Seq(Wrs)
      BY <2>5, Facts
    <3> QED BY <3>1, ElementsConcat, Zenon
  <2>7. Len(ab) = Len(free) + Len(inHand) /\ Elements(ab) = Elements(free) \union Elements(inHand)
    BY <2>3 DEF ab
  <2> HIDE DEF all
  <2>8. Len(all) + Cardinality(Working) = Elenum
    <3>1. /\ Len(free) \in Nat /\ Len(posted) \in Nat /\ Len(nohand) \in Nat
          /\ Cardinality(Working) \in Nat /\ Len(inHand) \in Nat
      BY <2>1, Facts
    <3>2. Len(all) = Len(free) + Len(inHand) + Len(posted) + Len(nohand)
      BY <2>4, <2>5, <2>6, <2>7, <3>1
    <3>3. Amount = Len(free) + Len(posted) + Len(nohand) + Cardinality(Working) + Len(inHand)
      BY <2>1 DEF Amount
    <3>4. Amount = Elenum
      BY DEF IInv, Places
    <3> QED BY <3>1, <3>2, <3>3, <3>4
  <2>9. Elements(all) \union {elem[w] : w \in Working} = Wrs
    BY <2>1, <2>4, <2>5, <2>6, <2>7 DEF IInv, Places, Everyone
  <2> QED BY <2>2, <2>8, <2>9 DEF OnePlace, inHand, late, all
<1> QED BY <1>1, Invariance, PTL

(* The receives outstanding stay at pre_recv_wr, and when the pool runs    *)
(* empty or a post fails (commu.cpp:293-294) it is known why.              *)
THEOREM Balanced == Spec => []Outstanding
<1>1. IInv => Outstanding
  BY DEF IInv, Turns, Ends, Outstanding
<1> QED BY <1>1, Invariance, PTL

(* ~datahandle returns only with one worker (handle_data.hpp:62-72), and   *)
(* ~wr_pool frees no buffer that the QP, a queue or a worker has.          *)
THEOREM ShutsDownCleanly == Spec => []CleanShutdown
<1>1. IInv => CleanShutdown
  BY DEF IInv, Ends, CleanShutdown
<1> QED BY <1>1, Invariance, PTL
-----------------------------------------------------------------------------
(* Counting: the five places hold Elenum work requests together and miss   *)
(* none, so no place has one twice, and no two places have the same.       *)
Busies == {elem[w] : w \in Working}

Separate ==
    /\ Cardinality(Elements(free)) = Len(free)
    /\ Cardinality(Elements(posted)) = Len(posted)
    /\ Cardinality(Elements(nohand)) = Len(nohand)
    /\ \A v, w \in Working : elem[v] = elem[w] => v = w
    /\ Elements(free) \intersect (InHand \union Elements(posted) \union Elements(nohand)
                                    \union Busies) = {}
    /\ Elements(posted) \intersect (InHand \union Elements(nohand) \union Busies) = {}
    /\ Elements(nohand) \intersect Busies = {}

LEMMA ElementsSize == ASSUME NEW S, NEW s \in Seq(S)
                      PROVE  /\ IsFiniteSet(Elements(s)) /\ Cardinality(Elements(s)) \in Nat
                             /\ Cardinality(Elements(s)) <= Len(s)
<1>1. DOMAIN s = 1 .. Len(s) /\ Len(s) \in Nat /\ s \in [1 .. Len(s) -> S]
  BY LenProperties
<1>2. s \in Surjection(1 .. Len(s), Elements(s))
  BY <1>1 DEF Surjection, Elements
<1>3. IsFiniteSet(1 .. Len(s)) /\ Cardinality(1 .. Len(s)) = Len(s)
  BY <1>1, FS_Interval
<1>4. IsFiniteSet(Elements(s)) /\ Cardinality(Elements(s)) <= Len(s)
  BY <1>2, <1>3, FS_Surjection
<1> QED BY <1>4, FS_CardinalityType

(* A queue with as many elements as places: its head is not in the rest,   *)
(* and what was appended was not in it.                                    *)
LEMMA HeadOnce == ASSUME NEW S, NEW s \in Seq(S), s # <<>>, Cardinality(Elements(s)) = Len(s)
                  PROVE  Head(s) \notin Elements(Tail(s))
<1>1. /\ Tail(s) \in Seq(S) /\ Len(Tail(s)) = Len(s) - 1 /\ Len(s) \in Nat
      /\ Elements(s) = Elements(Tail(s)) \union {Head(s)}
  BY ElementsTail, LenProperties
<1>2. Cardinality(Elements(Tail(s))) <= Len(s) - 1 /\ Cardinality(Elements(Tail(s))) \in Nat
  BY <1>1, ElementsSize
<1>3. Cardinality(Elements(Tail(s))) # Cardinality(Elements(s))
  <2>1. Cardinality(Elements(s)) \in Nat /\ Cardinality(Elements(Tail(s))) <= Cardinality(Elements(s)) - 1
    BY <1>1, <1>2
  <2> QED BY <1>2, <2>1
<1>4. Head(s) \in Elements(Tail(s)) => Elements(s) = Elements(Tail(s))
  BY <1>1
<1> QED BY <1>3, <1>4, Zenon

LEMMA LastOnce == ASSUME NEW S, NEW s \in Seq(S), NEW e \in S,
                         Cardinality(Elements(Append(s, e))) = Len(Append(s, e))
                  PROVE  e \notin Elements(s)
<1>1. Len(Append(s, e)) = Len(s) + 1 /\ Elements(Append(s, e)) = Elements(s) \union {e}
  BY ElementsAppend
<1>2. /\ Cardinality(Elements(s)) <= Len(s) /\ Cardinality(Elements(s)) \in Nat
      /\ Len(s) \in Nat
  BY ElementsSize, LenProperties
<1>3. Cardinality(Elements(Append(s, e))) # Cardinality(Elements(s))
  <2>1. Cardinality(Elements(Append(s, e))) = Len(s) + 1
    BY <1>1
  <2> QED BY <1>2, <2>1
<1>4. e \in Elements(s) => Elements(Append(s, e)) = Elements(s)
  BY <1>1
<1> QED BY <1>3, <1>4, Zenon

(* Two sets that together have as many elements as they could have.        *)
LEMMA Tight ==
    ASSUME NEW A, NEW B, NEW a \in Nat, NEW b \in Nat,
           IsFiniteSet(A), Cardinality(A) <= a, IsFiniteSet(B), Cardinality(B) <= b
    PROVE  /\ IsFiniteSet(A \union B) /\ Cardinality(A \union B) <= a + b
           /\ Cardinality(A \union B) = a + b =>
                 Cardinality(A) = a /\ Cardinality(B) = b /\ A \intersect B = {}
<1>1. /\ IsFiniteSet(A \union B)
      /\ Cardinality(A \union B) = Cardinality(A) + Cardinality(B) - Cardinality(A \intersect B)
  BY FS_Union
<1>2. IsFiniteSet(A \intersect B)
  BY FS_Intersection
<1>3. Cardinality(A) \in Nat /\ Cardinality(B) \in Nat /\ Cardinality(A \intersect B) \in Nat
  BY <1>2, FS_CardinalityType
<1>4. Cardinality(A \intersect B) = 0 => A \intersect B = {}
  BY <1>2, FS_EmptySet
<1>5. /\ Cardinality(A \union B) <= a + b
      /\ Cardinality(A \union B) = a + b =>
            Cardinality(A) = a /\ Cardinality(B) = b /\ Cardinality(A \intersect B) = 0
  BY <1>1, <1>3
<1> QED BY <1>1, <1>4, <1>5, Zenon

(* Five sets that make up a set as large as they could be together.        *)
Apart(A, B, C, D, E, a, c, d, e) ==
    /\ Cardinality(A) = a /\ Cardinality(C) = c /\ Cardinality(D) = d /\ Cardinality(E) = e
    /\ A \intersect B = {} /\ (A \union B) \intersect C = {}
    /\ ((A \union B) \union C) \intersect D = {}
    /\ (((A \union B) \union C) \union D) \intersect E = {}

LEMMA TightFive ==
    ASSUME NEW A, NEW B, NEW C, NEW D, NEW E, NEW a \in Nat, NEW b \in Nat, NEW c \in Nat,
           NEW d \in Nat, NEW e \in Nat,
           IsFiniteSet(A), Cardinality(A) <= a, IsFiniteSet(B), Cardinality(B) <= b,
           IsFiniteSet(C), Cardinality(C) <= c, IsFiniteSet(D), Cardinality(D) <= d,
           IsFiniteSet(E), Cardinality(E) <= e,
           Cardinality(((A \union B) \union C) \union D \union E) = a + b + c + d + e
    PROVE  Apart(A, B, C, D, E, a, c, d, e)
<1> DEFINE AB == A \union B
           ABC == AB \union C
           ABCD == ABC \union D
           ab == a + b
           abc == ab + c
           abcd == abc + d
<1>1. ab \in Nat /\ abc \in Nat /\ abcd \in Nat
  OBVIOUS
<1>2. /\ IsFiniteSet(AB) /\ Cardinality(AB) <= ab
      /\ Cardinality(AB) = ab => Cardinality(A) = a /\ Cardinality(B) = b /\ A \intersect B = {}
  BY Tight, Zenon
<1>3. Cardinality(ABCD \union E) = abcd + e
  OBVIOUS
<1> HIDE DEF AB, ab
<1>4. /\ IsFiniteSet(ABC) /\ Cardinality(ABC) <= abc
      /\ Cardinality(ABC) = abc =>
            Cardinality(AB) = ab /\ Cardinality(C) = c /\ AB \intersect C = {}
  BY <1>1, <1>2, Tight, Zenon
<1> HIDE DEF ABC, abc
<1>5. /\ IsFiniteSet(ABCD) /\ Cardinality(ABCD) <= abcd
      /\ Cardinality(ABCD) = abcd =>
            Cardinality(ABC) = abc /\ Cardinality(D) = d /\ ABC \intersect D = {}
  BY <1>1, <1>4, Tight, Zenon
<1> HIDE DEF ABCD, abcd
<1>6. Cardinality(ABCD) = abcd /\ Cardinality(E) = e /\ ABCD \intersect E = {}
  BY <1>1, <1>3, <1>5, Tight, Zenon
<1> QED BY <1>2, <1>4, <1>5, <1>6, Zenon DEF AB, ABC, ABCD, Apart

LEMMA IsSeparate == IInv => Separate
<1> SUFFICES ASSUME IInv PROVE Separate
  OBVIOUS
<1> DEFINE F == Elements(free)
           Q == Elements(posted)
           N == Elements(nohand)
           h == IF pcR = "post" THEN 1 ELSE 0
           five == ((F \union InHand) \union Q) \union N \union Busies
<1>1. /\ IsFiniteSet(F) /\ Cardinality(F) <= Len(free)
      /\ IsFiniteSet(Q) /\ Cardinality(Q) <= Len(posted)
      /\ IsFiniteSet(N) /\ Cardinality(N) <= Len(nohand)
  BY Facts, ElementsSize
<1>2. IsFiniteSet(InHand) /\ Cardinality(InHand) <= h
  <2>1. CASE pcR = "post"
    <3>1. InHand = {hand} /\ h = 1
      BY <2>1 DEF InHand
    <3>2. IsFiniteSet({hand}) /\ Cardinality({hand}) = 1
      BY FS_Singleton
    <3> QED BY <3>1, <3>2
  <2>2. CASE pcR # "post"
    <3>1. InHand = {} /\ h = 0
      BY <2>2 DEF InHand
    <3> QED BY <3>1, FS_EmptySet
  <2> QED BY <2>1, <2>2
<1>3. /\ IsFiniteSet(Busies) /\ Cardinality(Busies) <= Cardinality(Working)
      /\ Cardinality(Busies) = Cardinality(Working)
            => \A v, w \in Working : elem[v] = elem[w] => v = w
  <2> DEFINE f == [w \in Working |-> elem[w]]
  <2>1. f \in Surjection(Working, Busies)
    BY DEF Surjection, Busies
  <2>2. IsFiniteSet(Working)
    BY Facts, WorkingFinite
  <2>3. \A w \in Working : f[w] = elem[w]
    OBVIOUS
  <2> HIDE DEF f
  <2>4. /\ IsFiniteSet(Busies) /\ Cardinality(Busies) <= Cardinality(Working)
        /\ (Cardinality(Busies) = Cardinality(Working) <=> f \in Injection(Working, Busies))
    BY <2>1, <2>2, FS_Surjection
  <2>5. f \in Injection(Working, Busies) => \A v, w \in Working : f[v] = f[w] => v = w
    BY DEF Injection, IsInjective
  <2> QED BY <2>3, <2>4, <2>5
<1>4. /\ Len(free) \in Nat /\ h \in Nat /\ Len(posted) \in Nat /\ Len(nohand) \in Nat
      /\ Cardinality(Working) \in Nat
  BY Facts
<1>5. Cardinality(five) = Len(free) + h + Len(posted) + Len(nohand) + Cardinality(Working)
  <2>1. five = Wrs
    BY DEF IInv, Places, Everyone, Busies
  <2>2. Cardinality(Wrs) = Elenum
    BY Numbers, FS_Interval DEF Wrs
  <2>3. Len(free) + Len(posted) + Len(nohand) + Cardinality(Working) + h = Elenum
    BY DEF IInv, Places, Amount
  <2>4. Len(free) + h + Len(posted) + Len(nohand) + Cardinality(Working) = Elenum
    BY <1>4, <2>3
  <2> QED BY <2>1, <2>2, <2>4, Zenon
<1> HIDE DEF h
<1>6. Apart(F, InHand, Q, N, Busies, Len(free), Len(posted), Len(nohand), Cardinality(Working))
  <2> HIDE DEF F, Q, N
  <2>1. Cardinality(((F \union InHand) \union Q) \union N \union Busies)
           = Len(free) + h + Len(posted) + Len(nohand) + Cardinality(Working)
    BY <1>5
  <2>2. IsFiniteSet(Busies) /\ Cardinality(Busies) <= Cardinality(Working)
    BY <1>3
  <2> HIDE DEF five
  <2> QED BY <1>1, <1>2, <2>2, <1>4, <2>1, TightFive, Zenon
<1> QED BY <1>3, <1>6 DEF Separate, Apart
-----------------------------------------------------------------------------
(* Which steps change the pool or a queue. *)
LEMMA Movers ==
    ASSUME [Next]_vars
    PROVE  \/ GetWr /\ UNCHANGED <<nohand, elem>>
           \/ PutRecving /\ UNCHANGED <<nohand, elem>>
           \/ Complete
           \/ \E w \in Workers : Take(w) \/ GiveBack(w)
           \/ UNCHANGED <<free, recving, nohand, elem>>
<1>1. CASE UNCHANGED vars
  BY <1>1 DEF vars, workVars
<1>2. CASE Receiver
  BY <1>2 DEF Receiver, PreNext, LoopNext, DrainNext, SemTaken, DrainExpires, DrainInvalid, GetWr,
              GetOverrun, PostRecv, PostFails, PutRecving, Receive, Die, workVars
<1>3. CASE Environment
  BY <1>3 DEF Environment, Signal, workVars
<1>4. CASE Shutdown
  BY <1>4 DEF Shutdown, Stop, BeginJoin, Join, DeleteThreads, FreePool, Quit, workVars
<1>5. ASSUME NEW w \in Workers, Worker(w)
      PROVE  Take(w) \/ GiveBack(w) \/ UNCHANGED <<free, recving, nohand, elem>>
  BY <1>5 DEF Worker, LoadStart, Busy, Quiet, Work
<1> QED BY <1>1, <1>2, <1>3, <1>4, <1>5 DEF Next

(* What a worker does to the set of the work requests that are handled.    *)
LEMMA TakeBusies ==
    ASSUME IInv, NEW w \in Workers, Take(w)
    PROVE  /\ Head(nohand) \in Wrs /\ Elements(nohand) = Elements(nohand') \union {Head(nohand)}
           /\ Busies' = Busies \union {Head(nohand)}
<1>1. /\ nohand # <<>> /\ nohand' = Tail(nohand) /\ elem' = [elem EXCEPT ![w] = Head(nohand)]
      /\ pcW[w] = "get"
  BY DEF Take, Work
<1>2. Head(nohand) \in Wrs /\ Elements(nohand) = Elements(nohand') \union {Head(nohand)}
  BY <1>1, Facts, ElementsTail
<1>3. elem \in [Workers -> Wrs \union {None}] /\ elem[w] = None
  BY <1>1 DEF IInv, TypeOK, Hands
<1>4. elem'[w] = Head(nohand) /\ Head(nohand) # None
  BY <1>1, <1>2, <1>3, Numbers
<1>5. \A v \in Workers \ {w} : elem'[v] = elem[v]
  BY <1>1, <1>3
<1>6. Working' = Working \union {w} /\ w \notin Working
  BY <1>3, <1>4, <1>5 DEF Working
<1>7. Busies' = Busies \union {Head(nohand)}
  BY <1>4, <1>5, <1>6 DEF Busies, Working
<1> QED BY <1>2, <1>7

LEMMA GiveBusies ==
    ASSUME IInv, NEW w \in Workers, GiveBack(w)
    PROVE  elem[w] \in Wrs /\ elem[w] \in Busies /\ Busies' = Busies \ {elem[w]}
<1>1. elem' = [elem EXCEPT ![w] = None] /\ pcW[w] = "put"
  BY DEF GiveBack, Work
<1>2. elem \in [Workers -> Wrs \union {None}] /\ elem[w] # None /\ w \in Working
  BY <1>1 DEF IInv, TypeOK, Hands, Working
<1>3. elem'[w] = None /\ \A v \in Workers \ {w} : elem'[v] = elem[v]
  BY <1>1, <1>2
<1>4. Working' = Working \ {w}
  BY <1>2, <1>3 DEF Working
<1>5. \A v \in Working : elem[v] = elem[w] => v = w
  BY <1>2, IsSeparate DEF Separate
<1>6. Busies' = {elem[v] : v \in Working \ {w}}
  BY <1>3, <1>4 DEF Busies, Working
<1>7. {elem[v] : v \in Working \ {w}} = Busies \ {elem[w]}
  BY <1>2, <1>5 DEF Busies
<1> QED BY <1>2, <1>6, <1>7 DEF Busies

(* A completion takes the element of the buffer that was filled, which     *)
(* nobody else has.                                                        *)
LEMMA CompleteTakes ==
    ASSUME IInv, Complete
    PROVE  /\ recving # <<>> /\ recving' = Tail(recving) /\ UNCHANGED <<free, elem>>
           /\ Head(recving) \in Wrs /\ nohand' = Append(nohand, Head(recving))
           /\ Elements(nohand') = Elements(nohand) \union {Head(recving)}
           /\ Head(recving) \notin Elements(nohand) /\ Head(recving) \notin Busies
<1>1. /\ recving # <<>> /\ recving' = Tail(recving) /\ UNCHANGED <<free, elem>>
      /\ nohand' = Append(nohand, Head(recving))
  BY DEF Complete, workVars
<1>2. Head(recving) \in Wrs /\ Head(recving) \in Elements(recving)
  BY <1>1, Facts, ElementsTail
<1>3. Elements(nohand') = Elements(nohand) \union {Head(recving)}
  BY <1>1, <1>2, Facts, ElementsAppend
<1>4. Elements(recving) \subseteq Elements(posted)
  <2>1. CASE pcR = "put"
    <3>1. hand \in Wrs /\ posted = Append(recving, hand)
      BY <2>1 DEF IInv, Hands, Places
    <3> QED BY <3>1, Facts, ElementsAppend
  <2>2. CASE pcR # "put"
    BY <2>2 DEF IInv, Places
  <2> QED BY <2>1, <2>2
<1> QED BY <1>1, <1>2, <1>3, <1>4, IsSeparate DEF Separate
-----------------------------------------------------------------------------
LEMMA PoolStep == IInv /\ [Next]_vars => [Pool!FifoNext]_<<free>>
<1> SUFFICES ASSUME IInv, [Next]_vars PROVE [Pool!FifoNext]_<<free>>
  OBVIOUS
<1>1. CASE GetWr
  <2>1. free # <<>> /\ free' = Tail(free)
    BY <1>1 DEF GetWr
  <2>2. Head(free) \in Wrs /\ Elements(free) = Elements(free') \union {Head(free)}
    BY <2>1, Facts, ElementsTail
  <2>3. Head(free) \notin Elements(free')
    BY <2>1, Facts, IsSeparate, HeadOnce DEF Separate
  <2>4. Wrs \ Elements(free') = (Wrs \ Elements(free)) \union {Head(free)}
    BY <2>2, <2>3
  <2>5. Pool!FifoGet
    BY <2>1, <2>4 DEF Pool!FifoGet
  <2> QED BY <2>5 DEF Pool!FifoNext
<1>2. ASSUME NEW w \in Workers, GiveBack(w) PROVE Pool!FifoNext
  <2>1. free' = Append(free, elem[w])
    BY <1>2 DEF GiveBack
  <2>2. elem[w] \in Wrs /\ elem[w] \in Busies
    BY <1>2, GiveBusies
  <2>3. Elements(free') = Elements(free) \union {elem[w]}
    BY <2>1, <2>2, Facts, ElementsAppend
  <2>4. elem[w] \in Wrs \ Elements(free)
    BY <2>2, IsSeparate DEF Separate
  <2>5. Wrs \ Elements(free') = (Wrs \ Elements(free)) \ {elem[w]}
    BY <2>3
  <2>6. Pool!FifoPut
    BY <2>1, <2>4, <2>5 DEF Pool!FifoPut
  <2> QED BY <2>6 DEF Pool!FifoNext
<1>3. CASE free' = free
  BY <1>3
<1>4. PutRecving \/ Complete \/ (\E w \in Workers : Take(w)) => free' = free
  BY DEF PutRecving, Complete, Take
<1> QED BY <1>1, <1>2, <1>3, <1>4, Movers

LEMMA UnhandledStep == IInv /\ [Next]_vars => [Unhandled!QueueNext]_<<nohand, elem>>
<1> SUFFICES ASSUME IInv, [Next]_vars PROVE [Unhandled!QueueNext]_<<nohand, elem>>
  OBVIOUS
<1>1. CASE Complete
  <2>1. Busies' = Busies
    BY <1>1, CompleteTakes DEF Busies, Working
  <2>2. \A k \in DOMAIN nohand : nohand[k] # Head(recving)
    BY <1>1, CompleteTakes DEF Elements
  <2>3. Unhandled!Enqueue
    BY <1>1, <2>1, <2>2, CompleteTakes DEF Unhandled!Enqueue, Busies
  <2> QED BY <2>3 DEF Unhandled!QueueNext
<1>2. ASSUME NEW w \in Workers, Take(w) PROVE Unhandled!QueueNext
  <2>1. nohand # <<>> /\ nohand' = Tail(nohand)
    BY <1>2 DEF Take
  <2>2. Unhandled!Dequeue
    BY <1>2, <2>1, TakeBusies DEF Unhandled!Dequeue, Busies
  <2> QED BY <2>2 DEF Unhandled!QueueNext
<1>3. ASSUME NEW w \in Workers, GiveBack(w) PROVE Unhandled!QueueNext
  <2>1. nohand' = nohand
    BY <1>3 DEF GiveBack
  <2>2. Unhandled!Finish
    BY <1>3, <2>1, GiveBusies DEF Unhandled!Finish, Busies
  <2> QED BY <2>2 DEF Unhandled!QueueNext
<1>4. CASE UNCHANGED <<nohand, elem>>
  BY <1>4
<1> QED BY <1>1, <1>2, <1>3, <1>4, Movers

LEMMA RecvingStep == IInv /\ [Next]_vars => [Recving!QueueNext]_<<recving, Recving!queueVars>>
<1> DEFINE Held == Elements(nohand) \union Busies
<1> SUFFICES ASSUME IInv, [Next]_vars
             PROVE  Recving!QueueNext \/ (recving' = recving /\ Held' = Held)
  BY DEF Recving!queueVars, Busies
<1>1. CASE PutRecving /\ UNCHANGED <<nohand, elem>>
  <2>1. pcR = "put" /\ recving' = Append(recving, hand)
    BY <1>1 DEF PutRecving, Receive
  <2>2. hand \in Wrs /\ posted = Append(recving, hand)
    BY <2>1 DEF IInv, Hands, Places
  <2>3. hand \notin Elements(recving)
    BY <2>2, Facts, IsSeparate, LastOnce DEF Separate
  <2>4. hand \in Elements(posted)
    BY <2>2, Facts, ElementsAppend
  <2>5. hand \notin Held
    BY <2>4, IsSeparate DEF Separate
  <2>6. Held' = Held
    BY <1>1 DEF Busies, Working
  <2>7. \A k \in DOMAIN recving : recving[k] # hand
    BY <2>3 DEF Elements
  <2>8. Recving!Enqueue
    BY <2>1, <2>2, <2>5, <2>6, <2>7 DEF Recving!Enqueue, Busies
  <2> QED BY <2>8 DEF Recving!QueueNext
<1>2. CASE Complete
  <2>1. Busies' = Busies
    BY <1>2, CompleteTakes DEF Busies, Working
  <2>2. Held' = Held \union {Head(recving)}
    BY <1>2, <2>1, CompleteTakes
  <2>3. Recving!Dequeue
    BY <1>2, <2>2, CompleteTakes DEF Recving!Dequeue, Busies
  <2> QED BY <2>3 DEF Recving!QueueNext
<1>3. ASSUME NEW w \in Workers, Take(w) PROVE recving' = recving /\ Held' = Held
  <2>1. recving' = recving
    BY <1>3 DEF Take, Work
  <2> QED BY <1>3, <2>1, TakeBusies
<1>4. ASSUME NEW w \in Workers, GiveBack(w) PROVE Recving!QueueNext
  <2>1. recving' = recving /\ nohand' = nohand
    BY <1>4 DEF GiveBack, Work
  <2>2. elem[w] \in Held /\ elem[w] \notin Elements(nohand)
    BY <1>4, GiveBusies, IsSeparate DEF Separate
  <2>3. Held' = Held \ {elem[w]}
    BY <1>4, <2>1, <2>2, GiveBusies
  <2>4. Recving!Finish
    BY <2>1, <2>2, <2>3 DEF Recving!Finish, Busies
  <2> QED BY <2>4 DEF Recving!QueueNext
<1>5. CASE UNCHANGED <<recving, nohand, elem>>
  BY <1>5 DEF Busies, Working
<1>6. GetWr => recving' = recving
  BY DEF GetWr
<1> QED BY <1>1, <1>2, <1>3, <1>4, <1>5, <1>6, Movers

LEMMA StartsFifo == Init => Pool!FifoInit /\ Unhandled!QueueInit /\ Recving!QueueInit
<1> SUFFICES ASSUME Init PROVE Pool!FifoInit /\ Unhandled!QueueInit /\ Recving!QueueInit
  OBVIOUS
<1>1. /\ free = [k \in 1 .. Elenum |-> k - 1] /\ recving = <<>> /\ nohand = <<>> /\ Working = {}
  BY DEF Init, Working
<1>2. \A w \in Wrs : w + 1 \in DOMAIN free /\ free[w + 1] = w
  BY <1>1, Numbers DEF Wrs
<1>3. DOMAIN free = {w + 1 : w \in Wrs}
  <2>1. \A k \in DOMAIN free : k - 1 \in Wrs /\ k = (k - 1) + 1
    BY <1>1, Numbers DEF Wrs
  <2> QED BY <1>2, <2>1
<1>4. Wrs \ Elements(free) = {}
  BY <1>2 DEF Elements
<1>5. Elements(nohand) = {}
  BY <1>1 DEF Elements
<1>6. Pool!FifoInit
  BY <1>2, <1>3, <1>4 DEF Pool!FifoInit
<1>7. Unhandled!QueueInit /\ Recving!QueueInit
  BY <1>1, <1>5 DEF Unhandled!QueueInit, Recving!QueueInit
<1> QED BY <1>6, <1>7

(* The threads of the server together use the pool and both queues as the  *)
(* abstract specifications of them demand (handle_data.hpp:78-94,          *)
(* commu.cpp:285-306): what the pools and queues were proved to promise,   *)
(* the server may rely on.                                                 *)
THEOREM KeepsContracts == Spec => Contracts
<1>1. Spec => []IInv
  BY Invariance
<1> QED BY <1>1, StartsFifo, PoolStep, UnhandledStep, RecvingStep, PTL DEF Spec, Contracts
-----------------------------------------------------------------------------
(***************************************************************************)
(* CommuResources: the constructor, its failures, and the destructor.      *)
(* While nothing has failed, the step tells which objects there are;       *)
(* afterwards, what is left of Releases does.                              *)
(***************************************************************************)

(* The objects there are at each step of a constructor that has not failed. *)
Own0 == {"device_attr_ex", "port_attr"}
Have(p) == CASE p \in {"list", "open"} -> Own0
             [] p \in {"device", "port", "mtu", "pd"} -> Own0 \union {"context"}
             [] p = "mr" -> Own0 \union {"context", "pd"}
             [] p = "comp_channel" -> Own0 \union {"context", "pd", "mr"}
             [] p = "cq" -> Own0 \union {"context", "pd", "mr", "comp_channel"}
             [] p = "qp" -> Own0 \union {"context", "pd", "mr", "comp_channel", "cq"}
             [] OTHER -> DOMAIN Parents

Steps == DOMAIN Uses \union {"list", "open", "built", "destroyed"}

(* What is left of Releases after its first k. *)
Rest(k) == [i \in 1 .. 7 - k |-> Releases[k + i]]

(* The destructor has got as far as order says: nothing before it is left. *)
Released(k) == order = Rest(k) /\ \A i \in 1 .. k : Releases[i] \notin live

Smooth == /\ live = Have(pc) /\ order = IF pc = "destroyed" THEN Releases ELSE <<>>
          /\ pc \notin {"list", "open", "device", "port"} =>
                given.ib_port \in 1 .. given.phys_port_cnt

Broken == /\ pc \in DOMAIN Uses /\ "qp" \notin live
          /\ \E k \in 0 .. 7 : Released(k)

Opened == pc \notin {"list", "open"} => list = "freed" /\ given.dev_name \in {NoDevice, device}

Ended == /\ ended = "busy" => "qp" \in live
         /\ ended = "undefined" => failed

CommuInv == /\ pc \in Steps /\ failed \in BOOLEAN
            /\ live \subseteq fields /\ live \subseteq DOMAIN Parents
            /\ \A o \in live : Parents[o] \subseteq live
            /\ IF failed THEN Broken ELSE Smooth
            /\ Opened /\ Ended
-----------------------------------------------------------------------------
Objs == {"context", "device_attr_ex", "port_attr", "pd", "mr", "comp_channel", "cq", "qp"}
Calls == {"device", "port", "mtu", "pd", "mr", "comp_channel", "cq", "qp", "cap"}

LEMMA Domains == DOMAIN Parents = Objs /\ DOMAIN Uses = Calls
BY DEF Parents, Uses, Objs, Calls

LEMMA ReleasesFacts ==
    /\ Releases \in Seq(Objs) /\ Len(Releases) = 7
    /\ Releases[1] = "cq" /\ Releases[2] = "comp_channel" /\ Releases[3] = "mr"
    /\ Releases[4] = "pd" /\ Releases[5] = "port_attr" /\ Releases[6] = "device_attr_ex"
    /\ Releases[7] = "context"
BY DEF Releases, Objs

LEMMA RestType == ASSUME NEW k \in 0 .. 7
                  PROVE  Rest(k) \in Seq(Objs) /\ Len(Rest(k)) = 7 - k
<1> DEFINE F(i) == Releases[k + i]
<1>1. \A i \in 1 .. 7 : Releases[i] \in Objs
  BY ReleasesFacts DEF Objs
<1>2. \A i \in 1 .. 7 - k : F(i) \in Objs
  BY <1>1
<1>3. Rest(k) = [i \in 1 .. 7 - k |-> F(i)] /\ 7 - k \in Nat
  BY DEF Rest
<1> HIDE DEF F
<1> QED BY <1>2, <1>3

LEMMA RestFacts ==
    ASSUME NEW k \in 0 .. 7, Rest(k) # <<>>
    PROVE  k < 7 /\ Head(Rest(k)) = Releases[k + 1] /\ Tail(Rest(k)) = Rest(k + 1)
<1>0. Rest(k) \in Seq(Objs) /\ Len(Rest(k)) = 7 - k
  BY RestType
<1>1. Rest(k) \in Seq(Objs) /\ Len(Rest(k)) = 7 - k /\ Len(Rest(k)) # 0
  BY <1>0
<1>2. k < 7 /\ k + 1 \in 0 .. 7
  BY <1>1
<1>3. /\ Tail(Rest(k)) \in Seq(Objs) /\ Len(Tail(Rest(k))) = 6 - k
      /\ \A i \in 1 .. 6 - k : Tail(Rest(k))[i] = Rest(k)[i + 1]
  BY <1>1, HeadTailProperties
<1>4. Rest(k + 1) \in Seq(Objs) /\ Len(Rest(k + 1)) = 6 - k
  <2>1. Rest(k + 1) \in Seq(Objs) /\ Len(Rest(k + 1)) = 7 - (k + 1)
    BY <1>2, RestType
  <2> QED BY <2>1
<1>5. \A i \in 1 .. 6 - k : Rest(k)[i + 1] = Rest(k + 1)[i]
  BY <1>2 DEF Rest
<1>6. Tail(Rest(k)) = Rest(k + 1)
  BY <1>3, <1>4, <1>5, SeqEqual
<1>7. Head(Rest(k)) = Rest(k)[1] /\ Rest(k)[1] = Releases[k + 1]
  BY <1>1, <1>2 DEF Rest
<1> QED BY <1>2, <1>6, <1>7

LEMMA RestStart == Rest(0) = Releases
<1>1. Releases = [i \in 1 .. 7 |-> Releases[i]]
  BY ReleasesFacts
<1>2. Rest(0) = [i \in 1 .. 7 |-> Releases[i]]
  BY DEF Rest
<1> QED BY <1>1, <1>2

(* A constructor that goes on after the destructor has run finds nothing.  *)
LEMMA Emptied == ASSUME CommuInv, failed, order = <<>> PROVE live = {}
<1>1. PICK k \in 0 .. 7 : Released(k)
  BY DEF CommuInv, Broken
<1>2. k = 7
  <2>1. Len(Rest(k)) = 7 - k /\ Rest(k) = <<>>
    BY <1>1, RestType DEF Released
  <2>2. 7 - k = 0
    BY <2>1, EmptySeq
  <2> QED BY <2>2
<1>3. \A i \in 1 .. 7 : Releases[i] \notin live
  BY <1>1, <1>2 DEF Released
<1>4. live \subseteq Objs \ {"qp"}
  BY Domains DEF CommuInv, Broken
<1> QED BY <1>3, <1>4, ReleasesFacts DEF Objs

(* Before a failure every call finds what it uses.                         *)
LEMMA Prepared == ASSUME CommuInv, ~failed, pc \in DOMAIN Uses PROVE Uses[pc] \subseteq live
<1>1. live = Have(pc) /\ pc \in Calls
  BY Domains DEF CommuInv, Smooth
<1> QED BY <1>1, Domains DEF Have, Own0, Uses, Calls, Objs

LEMMA CommuInitInv == CommuInit => CommuInv
<1> SUFFICES ASSUME CommuInit PROVE CommuInv
  OBVIOUS
<1>1. /\ live = Own0 /\ fields = live /\ pc = "list" /\ order = <<>> /\ failed = FALSE
      /\ ended = "no"
  BY DEF CommuInit, Own0
<1>2. live = Have(pc)
  BY <1>1 DEF Have
<1>3. Smooth /\ Opened /\ Ended
  BY <1>1, <1>2 DEF Smooth, Opened, Ended
<1>4. live \subseteq DOMAIN Parents /\ \A o \in live : Parents[o] \subseteq live
  BY <1>1, Domains DEF Own0, Parents, Objs
<1> QED BY <1>1, <1>3, <1>4 DEF CommuInv, Steps

LEMMA GetDeviceListInv == ASSUME CommuInv, GetDeviceList PROVE CommuInv'
<1>1. UNCHANGED <<given, device, live, fields, order, failed>> /\ pc = "list" /\ pc' \in {"list", "open"}
      /\ ended' \in {ended, "list"}
  BY DEF GetDeviceList, Leave
<1>2. ~failed /\ live = Have("list") /\ Have(pc') = Have("list") /\ order = <<>>
  BY <1>1, Domains DEF CommuInv, Broken, Smooth, Calls, Have
<1>3. Smooth' /\ Opened' /\ Ended'
  BY <1>1, <1>2 DEF Smooth, Opened, Ended, CommuInv
<1> QED BY <1>1, <1>2, <1>3 DEF CommuInv, Steps

LEMMA OpenDeviceInv == ASSUME CommuInv, OpenDevice PROVE CommuInv'
<1>1. pc = "open" /\ ~failed /\ live = Own0 /\ order = <<>>
  BY Domains DEF OpenDevice, CommuInv, Broken, Smooth, Calls, Have
<1>2. CASE Leave("einval") \/ Leave("open")
  <2>1. UNCHANGED <<given, device, live, fields, pc, order, failed>> /\ ended' \in {"einval", "open"}
    BY <1>2 DEF Leave
  <2>2. Smooth' /\ Opened' /\ Ended'
    BY <1>1, <2>1 DEF Smooth, Opened, Ended, CommuInv, Have
  <2> QED BY <1>1, <2>1, <2>2 DEF CommuInv
<1>3. CASE /\ \E k \in Wanted : device' = given.devices[k]
           /\ live' = live \union {"context"} /\ fields' = fields \union {"context"}
           /\ pc' = "device" /\ UNCHANGED <<given, order, failed, ended>>
  <2>1. given.dev_name \in {NoDevice, device'}
    BY <1>3 DEF Wanted
  <2>2. list' = "freed"
    BY DEF OpenDevice
  <2>3. Smooth' /\ Opened' /\ Ended'
    BY <1>1, <1>3, <2>1, <2>2 DEF Smooth, Opened, Ended, CommuInv, Have
  <2>4. \A o \in live' : Parents[o] \subseteq live'
    BY <1>1, <1>3 DEF Own0, Parents
  <2> QED BY <1>1, <1>3, <2>3, <2>4, Domains DEF CommuInv, Steps, Calls, Objs
<1> QED BY <1>2, <1>3 DEF OpenDevice

LEMMA MisuseInv == ASSUME CommuInv, Misuse PROVE CommuInv'
<1>1. /\ UNCHANGED <<given, list, device, live, fields, pc, order, failed>> /\ ended' = "undefined"
      /\ pc \in DOMAIN Uses /\ ~(Uses[pc] \subseteq live)
  BY DEF Misuse, Call
<1>2. failed
  BY <1>1, Prepared DEF CommuInv
<1> QED BY <1>1, <1>2 DEF CommuInv, Broken, Released, Opened, Ended

LEMMA SucceedInv == ASSUME CommuInv, Succeed PROVE CommuInv'
<1> DEFINE made == Creates \intersect {pc}
<1>1. /\ pc \in Calls /\ order = <<>> /\ UNCHANGED <<given, list, device, order, failed, ended>>
      /\ Uses[pc] \subseteq live /\ CanSucceed
      /\ live' = live \union made /\ fields' = fields \union made /\ pc' = After[pc]
  BY Domains DEF Succeed, Call
<1>2. ~failed
  BY <1>1, Emptied DEF Uses, Calls
<1>3. live = Have(pc)
  BY <1>2 DEF CommuInv, Smooth
<1>4. live' = Have(pc') /\ pc' \in Steps /\ pc' \notin {"list", "open", "device", "destroyed"}
  <2>1. CASE pc = "device"
    BY <1>1, <1>3, <2>1, Domains DEF Have, Own0, Objs, After, Creates, Steps, Calls
  <2>2. CASE pc = "port"
    BY <1>1, <1>3, <2>2, Domains DEF Have, Own0, Objs, After, Creates, Steps, Calls
  <2>3. CASE pc = "mtu"
    BY <1>1, <1>3, <2>3, Domains DEF Have, Own0, Objs, After, Creates, Steps, Calls
  <2>4. CASE pc = "pd"
    BY <1>1, <1>3, <2>4, Domains DEF Have, Own0, Objs, After, Creates, Steps, Calls
  <2>5. CASE pc = "mr"
    BY <1>1, <1>3, <2>5, Domains DEF Have, Own0, Objs, After, Creates, Steps, Calls
  <2>6. CASE pc = "comp_channel"
    BY <1>1, <1>3, <2>6, Domains DEF Have, Own0, Objs, After, Creates, Steps, Calls
  <2>7. CASE pc = "cq"
    BY <1>1, <1>3, <2>7, Domains DEF Have, Own0, Objs, After, Creates, Steps, Calls
  <2>8. CASE pc = "qp"
    BY <1>1, <1>3, <2>8, Domains DEF Have, Own0, Objs, After, Creates, Steps, Calls
  <2>9. CASE pc = "cap"
    BY <1>1, <1>3, <2>9, Domains DEF Have, Own0, Objs, After, Creates, Steps, Calls
  <2> QED BY <1>1, <2>1, <2>2, <2>3, <2>4, <2>5, <2>6, <2>7, <2>8, <2>9 DEF Calls
<1>5. Smooth'
  BY <1>1, <1>2, <1>4 DEF Smooth, CanSucceed, CommuInv, After, Calls
<1>6. \A o \in live' : Parents[o] \subseteq live'
  <2>1. \A o \in made : Parents[o] \subseteq live
    BY <1>1 DEF Creates, Parents, Uses, Calls
  <2> QED BY <1>1, <2>1 DEF CommuInv
<1>7. Opened' /\ Ended'
  BY <1>1, <1>4 DEF CommuInv, Opened, Ended, Calls
<1>8. live' \subseteq fields' /\ live' \subseteq DOMAIN Parents
  BY <1>1, Domains DEF CommuInv, Creates, Objs
<1> QED BY <1>1, <1>2, <1>4, <1>5, <1>6, <1>7, <1>8 DEF CommuInv

LEMMA FailStepInv == ASSUME CommuInv, Fail PROVE CommuInv'
<1>1. /\ pc \in Calls \ {"cap"} /\ order = <<>>
      /\ UNCHANGED <<given, list, device, live, fields, ended>>
      /\ Uses[pc] \subseteq live /\ failed' = TRUE /\ order' = Releases /\ pc' = After[pc]
  BY Domains DEF Fail, Call, CanFail
<1>2. ~failed
  BY <1>1, Emptied DEF Uses, Calls
<1>3. live = Have(pc)
  BY <1>2 DEF CommuInv, Smooth
<1>4. pc' \in Calls /\ "qp" \notin live
  BY <1>1, <1>3 DEF Have, Own0, Calls, After
<1>5. Released(0)'
  BY <1>1, RestStart DEF Released, Rest
<1>6. Broken'
  BY <1>1, <1>4, <1>5, Domains DEF Broken
<1>7. Opened' /\ Ended'
  BY <1>1, <1>4 DEF CommuInv, Opened, Ended, Calls
<1> QED BY <1>1, <1>4, <1>6, <1>7, Domains DEF CommuInv, Steps

LEMMA DestroyStepInv == ASSUME CommuInv, Destroy PROVE CommuInv'
<1>1. /\ pc = "built" /\ order' = Releases /\ pc' = "destroyed"
      /\ UNCHANGED <<given, list, device, live, fields, failed, ended>>
  BY DEF Destroy
<1>2. ~failed /\ live = Have("built") /\ Have("built") = Have("destroyed")
  BY <1>1, Domains DEF CommuInv, Broken, Smooth, Calls, Have
<1>3. Smooth'
  BY <1>1, <1>2 DEF CommuInv, Smooth
<1> QED BY <1>1, <1>2, <1>3 DEF CommuInv, Steps, Opened, Ended

(* Only the QP can keep the destructor from going on: what else depends on *)
(* the next object was released before it.                                 *)
LEMMA OnlyTheQp ==
    ASSUME CommuInv, NEW k \in 0 .. 6, \A i \in 1 .. k : Releases[i] \notin live,
           NEW o \in live, Releases[k + 1] \in Parents[o]
    PROVE  o = "qp"
<1>1. o \in Objs /\ \A i \in 1 .. 7 : i <= k => Releases[i] # o
  BY Domains DEF CommuInv
<1>2. CASE k = 0
  BY <1>1, <1>2, ReleasesFacts DEF Objs, Parents
<1>3. CASE k = 1
  BY <1>1, <1>3, ReleasesFacts DEF Objs, Parents
<1>4. CASE k = 2
  BY <1>1, <1>4, ReleasesFacts DEF Objs, Parents
<1>5. CASE k = 3
  BY <1>1, <1>5, ReleasesFacts DEF Objs, Parents
<1>6. CASE k = 4
  BY <1>1, <1>6, ReleasesFacts DEF Objs, Parents
<1>7. CASE k = 5
  BY <1>1, <1>7, ReleasesFacts DEF Objs, Parents
<1>8. CASE k = 6
  BY <1>1, <1>8, ReleasesFacts DEF Objs, Parents
<1> QED BY <1>2, <1>3, <1>4, <1>5, <1>6, <1>7, <1>8

LEMMA ReleaseInv == ASSUME CommuInv, Release PROVE CommuInv'
<1> DEFINE r == Head(order)
           Blocked == \E o \in live : r \in Parents[o]
<1>1. order # <<>> /\ UNCHANGED <<given, list, device, fields, pc, failed>>
  BY DEF Release
<1>2. \/ r \notin fields /\ order' = Tail(order) /\ UNCHANGED <<live, ended>>
      \/ r \in fields \ live /\ ended' = "undefined" /\ UNCHANGED <<live, order>>
      \/ r \in fields \intersect live /\ Blocked /\ ended' = "busy" /\ UNCHANGED <<live, order>>
      \/ r \in fields \intersect live /\ ~Blocked /\ live' = live \ {r} /\ order' = Tail(order) /\ UNCHANGED ended
  BY DEF Release
<1>3. CASE failed
  <2>1. PICK k \in 0 .. 7 : Released(k)
    BY <1>3 DEF CommuInv, Broken
  <2>2. k \in 0 .. 6 /\ r = Releases[k + 1] /\ Tail(order) = Rest(k + 1) /\ k + 1 \in 0 .. 7
    <3>1. Rest(k) # <<>> /\ order = Rest(k)
      BY <1>1, <2>1 DEF Released
    <3>2. k < 7 /\ Head(Rest(k)) = Releases[k + 1] /\ Tail(Rest(k)) = Rest(k + 1)
      BY <3>1, RestFacts
    <3> QED BY <3>1, <3>2
  <2>3. live' \subseteq live /\ \A o \in live' : Parents[o] \subseteq live'
    BY <1>2 DEF CommuInv
  <2>4. ~Blocked
    BY <1>3, <2>1, <2>2, OnlyTheQp DEF CommuInv, Broken, Released
  <2>5. CASE r \in fields \ live /\ ended' = "undefined" /\ UNCHANGED <<live, order>>
    BY <1>1, <1>3, <2>5 DEF CommuInv, Broken, Released, Opened, Ended
  <2>6. CASE r \notin live' /\ order' = Tail(order) /\ UNCHANGED ended
    <3>1. Released(k + 1)'
      <4>1. order' = Rest(k + 1)
        BY <2>2, <2>6
      <4>2. \A i \in 1 .. k + 1 : Releases[i] \notin live'
        BY <2>1, <2>2, <2>3, <2>6 DEF Released
      <4> QED BY <4>1, <4>2 DEF Released, Rest, Releases
    <3>2. Broken'
      BY <1>1, <1>3, <2>2, <2>3, <3>1 DEF CommuInv, Broken
    <3>3. ended # "busy"
      <4>1. Broken /\ Ended
        BY <1>3 DEF CommuInv
      <4> QED BY <4>1 DEF Broken, Ended
    <3> QED BY <1>1, <1>3, <2>3, <2>6, <3>2, <3>3 DEF CommuInv, Opened, Ended
  <2>7. r \notin fields => r \notin live
    BY DEF CommuInv
  <2> QED BY <1>2, <2>4, <2>5, <2>6, <2>7
<1>4. CASE ~failed
  <2>1. order = Releases /\ pc = "destroyed" /\ live = Objs
    BY <1>1, <1>4, Domains DEF CommuInv, Smooth, Have
  <2>2. r = "cq" /\ r \in live /\ Blocked /\ "qp" \in live
    BY <2>1, ReleasesFacts DEF Objs, Parents
  <2>3. ended' = "busy" /\ UNCHANGED <<live, order>>
    BY <1>2, <2>2 DEF CommuInv
  <2> QED BY <1>1, <1>4, <2>2, <2>3 DEF CommuInv, Smooth, Opened, Ended
<1> QED BY <1>3, <1>4

LEMMA CommuStutterInv == ASSUME CommuInv, UNCHANGED commuVars PROVE CommuInv'
BY DEF commuVars, CommuInv, Smooth, Broken, Released, Opened, Ended

LEMMA CommuInvariance == CommuSpec => []CommuInv
<1>1. CommuInv /\ [CommuNext]_commuVars => CommuInv'
  BY GetDeviceListInv, OpenDeviceInv, MisuseInv, SucceedInv, FailStepInv, DestroyStepInv,
     ReleaseInv, CommuStutterInv DEF CommuNext
<1> QED BY CommuInitInv, <1>1, PTL DEF CommuSpec

(* Wherever the constructor fails, its destructor releases every object    *)
(* before those it depends on; a commu that is built is complete; and the  *)
(* destructor of one that is built never returns, because of the QP.       *)
THEOREM ReleasesSafely == CommuSpec => []ReleaseSafe
<1>1. CommuInv => ReleaseSafe
  <2> SUFFICES ASSUME CommuInv PROVE ReleaseSafe
    OBVIOUS
  <2>1. pc \in {"built", "destroyed"} => ~failed
    BY Domains DEF CommuInv, Broken, Calls
  <2>2. Built
    BY <2>1 DEF Built, CommuInv, Smooth, Opened, Have
  <2>3. ~(pc = "destroyed" /\ order = <<>>)
    <3>1. Releases # <<>>
      BY DEF Releases
    <3>2. pc = "destroyed" => Smooth
      BY <2>1 DEF CommuInv
    <3> QED BY <3>1, <3>2 DEF Smooth
  <2> QED BY <2>2, <2>3 DEF CommuInv, Ended, ReleaseSafe
<1> QED BY CommuInvariance, <1>1, PTL
=============================================================================
