---------------------------- MODULE MemoryProofs ----------------------------
(***************************************************************************)
(* Memory that is shared, owned and handed round without a lock.           *)
(*                                                                         *)
(* First, posix_shm for every length, every number of threads, every size  *)
(* of access and every width of a word.  Of the width the proofs use only  *)
(* that a word is big enough for Length (ShmAssumption).                   *)
(*                                                                         *)
(* Then construction, move and destruction of all classes that own memory, *)
(* for any number of objects and any number of elements.                   *)
(*                                                                         *)
(* Then spsc_atomic_mem_pool, which knows of its other side through two    *)
(* indices alone, for every capacity and every GET_TRY_NUM.  The three     *)
(* modules share no variable and no constant.                              *)
(***************************************************************************)
EXTENDS PosixShm, Lifecycle, SpscAtomicPool, RingArithProofs, FiniteSetTheorems, TLAPS

(* A bound on the position: seek(SEEK_CUR) from 0 by Length - 1, whose     *)
(* last store adds Length - 1 once more, reaches 2 * Length - 2, and a     *)
(* write of the last byte reaches Length.                                  *)
Last == 2 * Length - 1

(* Unless it was moved below zero, the position is one that a sum with the *)
(* size of an access does not wrap, and it is past every byte taken.       *)
Position == ~below => cur <= Last /\ taken \subseteq 0 .. cur - 1

(* What thread t knows of its own call. *)
Argument(t) == /\ pc[t] \in {"rewind", "load", "copy", "cas"} => call[t].arg \in Sizes
               /\ pc[t] \in {"seek", "reset"} => call[t].arg \in Offsets

Tested(t) ==
    /\ pc[t] \in {"seek", "copy", "cas"} => call[t].temp <= Last
    /\ pc[t] = "reset" => call[t].arg <= Length - 1
    /\ pc[t] = "cas" => call[t].temp + call[t].arg <= Length

(* While nobody sets it, the position only moves forward from temp, and    *)
(* the second load of a read lies in between.                              *)
Between(t) ==
    /\ pc[t] \in {"copy", "cas"} => call[t].temp <= cur
    /\ pc[t] = "cas" => call[t].temp <= call[t].at /\ call[t].at <= cur

Knows(t) == /\ Argument(t)
            /\ ~below => Tested(t)
            /\ ~below /\ t \notin moved => Between(t)

ShmInv == ShmTypeOK /\ Position /\ \A t \in Threads : Knows(t)
-----------------------------------------------------------------------------
(* The constants, as far as the arithmetic needs them. *)
LEMMA Consts == /\ Modulus \in Nat /\ Length \in Nat /\ Length >= 1
                /\ 4 * Length <= Modulus
                /\ MaxOffset \in Nat /\ 2 * MaxOffset < Modulus
                /\ \A n \in Sizes : n \in Nat /\ 1 <= n /\ n <= Length
                /\ \A o \in Offsets : o \in Int /\ -MaxOffset <= o /\ o <= MaxOffset
BY ShmAssumption DEF Offsets

(* A word is a word, and small sums do not wrap. *)
LEMMA WordFacts ==
    ASSUME NEW x \in Int, NEW m \in Nat, Modulus = m, -m <= x, x < m + m
    PROVE  /\ Word(x) \in 0 .. m - 1
           /\ 0 <= x /\ x < m => Word(x) = x
BY DEF Word

LEMMA SignedFacts ==
    ASSUME NEW x \in Nat, NEW m \in Nat, Modulus = m, x < m
    PROVE  /\ Signed(x) \in Int /\ 2 * Signed(x) < m /\ -m <= 2 * Signed(x)
           /\ 2 * x < m => Signed(x) = x
BY DEF Signed

(* What the step of one thread leaves another one. *)
LEMMA Others ==
    ASSUME ShmTypeOK, ShmTypeOK', NEW t \in Threads, NEW u \in Threads, u # t, Knows(u),
           pc'[u] = pc[u], call'[u] = call[u], ~below' => ~below,
           moved' = Threads \/ (cur <= cur' /\ moved \ {t} \subseteq moved')
    PROVE  Knows(u)'
<1>1. Argument(u)'
  BY DEF Knows, Argument
<1>2. ~below' => Tested(u)'
  BY DEF Knows, Tested
<1>3. ASSUME ~below', u \notin moved' PROVE Between(u)'
  <2>1. cur <= cur' /\ Between(u)
    BY <1>3 DEF Knows
  <2>2. cur \in Int /\ cur' \in Int /\ call[u].at \in Int /\ call[u].temp \in Int
    BY Consts DEF ShmTypeOK
  <2> QED BY <2>1, <2>2 DEF Between
<1> QED BY <1>1, <1>2, <1>3 DEF Knows
-----------------------------------------------------------------------------
(* Every action is the step of one thread. *)
LEMMA ShmInitInv == ShmInit => ShmInv
<1> SUFFICES ASSUME ShmInit PROVE ShmInv
  OBVIOUS
<1>1. NoCall \in [arg : Sizes \union Offsets, isRead : BOOLEAN,
                  temp : 0 .. Modulus - 1, at : 0 .. Modulus - 1]
  BY Consts DEF NoCall, Offsets
<1>t. ShmTypeOK
  <2>1. cur \in 0 .. Modulus - 1
    BY Consts DEF ShmInit
  <2>2. call \in [Threads -> [arg : Sizes \union Offsets, isRead : BOOLEAN,
                              temp : 0 .. Modulus - 1, at : 0 .. Modulus - 1]]
    BY <1>1 DEF ShmInit
  <2> QED BY <2>1, <2>2 DEF ShmInit, ShmTypeOK
<1>2. Position
  BY Consts DEF ShmInit, Position, Last
<1>3. ASSUME NEW t \in Threads PROVE Knows(t)
  BY DEF ShmInit, Knows, Argument, Tested, Between
<1> QED BY <1>t, <1>2, <1>3 DEF ShmInv

LEMMA FailInv == ShmInv /\ Fail => ShmInv'
BY DEF ShmInv, Fail, history, ShmTypeOK, Position, Knows, Argument, Tested, Between

(* Setting the position to a word x. *)
LEMMA SetInv ==
    ASSUME ShmTypeOK, NEW x \in Int, -Modulus <= x, x < Modulus + Modulus, Set(x)
    PROVE  /\ cur' \in 0 .. Modulus - 1
           /\ below' \in BOOLEAN
           /\ ~below' => ~below /\ 0 <= x
           /\ 0 <= x /\ x < Modulus => cur' = x
           /\ moved' = Threads /\ taken' = {}
<1>1. Word(x) \in 0 .. Modulus - 1 /\ (0 <= x /\ x < Modulus => Word(x) = x)
  BY Consts, WordFacts
<1>2. below' \in BOOLEAN /\ (~below' => ~below /\ ~(x < 0))
  BY Zenon DEF Set
<1>3. ~below' => ~below /\ 0 <= x
  BY <1>2
<1> QED BY <1>1, <1>2, <1>3 DEF Set

LEMMA SetPosition ==
    ASSUME ShmTypeOK, NEW x \in Int, -Modulus <= x, x < Modulus + Modulus, Set(x),
           ~below => x <= Last
    PROVE  Position'
<1>1. Last \in Int /\ Last < Modulus
  BY Consts DEF Last
<1>2. ~below' => ~below /\ 0 <= x
  BY SetInv
<1>3. 0 <= x /\ x < Modulus => cur' = x
  BY SetInv
<1>4. ~below' => cur' <= Last'
  BY <1>1, <1>2, <1>3, Consts DEF Last
<1> QED BY <1>4 DEF Position, Set
-----------------------------------------------------------------------------
(* A step that sets the position keeps the invariant, whatever it leaves   *)
(* its own thread with.                                                    *)
LEMMA SettingStep ==
    ASSUME ShmInv, ShmTypeOK', NEW t \in Threads, NEW x \in Int,
           -Modulus <= x, x < Modulus + Modulus, ~below => x <= Last, Set(x),
           \A u \in Threads \ {t} : pc'[u] = pc[u] /\ call'[u] = call[u],
           Argument(t)', ~below' => Tested(t)'
    PROVE  ShmInv'
<1>1. Position'
  BY SetPosition DEF ShmInv
<1>2. (~below' => ~below) /\ moved' = Threads
  BY SetInv DEF ShmInv
<1>3. ASSUME NEW u \in Threads, u # t PROVE Knows(u)'
  <2>1. Knows(u) /\ ShmTypeOK
    BY DEF ShmInv
  <2>2. pc'[u] = pc[u] /\ call'[u] = call[u]
    BY <1>3
  <2>3. moved' = Threads \/ (cur <= cur' /\ moved \ {t} \subseteq moved')
    BY <1>2
  <2> QED BY <1>2, <1>3, <2>1, <2>2, <2>3, Others
<1>4. Knows(t)'
  BY <1>2 DEF Knows
<1> QED BY <1>1, <1>3, <1>4 DEF ShmInv

(* So does a step that leaves the position alone. *)
LEMMA QuietStep ==
    ASSUME ShmInv, ShmTypeOK', NEW t \in Threads, UNCHANGED <<cur, below, taken>>,
           moved \ {t} \subseteq moved',
           \A u \in Threads \ {t} : pc'[u] = pc[u] /\ call'[u] = call[u],
           Knows(t)'
    PROVE  ShmInv'
<1>1. Position'
  BY DEF ShmInv, Position
<1>2. cur <= cur'
  BY Consts DEF ShmInv, ShmTypeOK
<1>3. ASSUME NEW u \in Threads, u # t PROVE Knows(u)'
  <2>1. Knows(u) /\ ShmTypeOK /\ pc'[u] = pc[u] /\ call'[u] = call[u]
    BY <1>3 DEF ShmInv
  <2> QED BY <1>2, <1>3, <2>1, Others
<1> QED BY <1>1, <1>3 DEF ShmInv

(* What Return leaves. *)
LEMMA ReturnFacts ==
    ASSUME ShmTypeOK, NEW t \in Threads, NEW a, Return(t, a)
    PROVE  /\ pc' \in [Threads -> {"idle", "seek", "reset", "rewind", "load", "copy", "cas"}]
           /\ call' \in [Threads -> [arg : Sizes \union Offsets, isRead : BOOLEAN,
                                   temp : 0 .. Modulus - 1, at : 0 .. Modulus - 1]]
           /\ \A u \in Threads \ {t} : pc'[u] = pc[u] /\ call'[u] = call[u]
           /\ pc[t] = a /\ pc'[t] = "idle" /\ ended' = ended
<1>1. NoCall \in [arg : Sizes \union Offsets, isRead : BOOLEAN,
                  temp : 0 .. Modulus - 1, at : 0 .. Modulus - 1]
  BY Consts DEF NoCall, Offsets
<1> QED BY <1>1 DEF ShmTypeOK, Return, Goto

(* Clear, seek(SEEK_SET), seek(SEEK_END) and the last store of             *)
(* seek(SEEK_CUR): the call returns with the position at x.                *)
LEMMA SetAndReturn ==
    ASSUME ShmInv, NEW t \in Threads, NEW a, Return(t, a), NEW x \in Int,
           -Modulus <= x, x < Modulus + Modulus, ~below => x <= Last, Set(x)
    PROVE  ShmInv'
<1>1. ShmTypeOK'
  BY ReturnFacts, SetInv DEF ShmInv, ShmTypeOK, Return, Goto
<1>2. pc'[t] = "idle"
  BY ReturnFacts DEF ShmInv
<1>3. Argument(t)' /\ Tested(t)'
  BY <1>2 DEF Argument, Tested
<1> QED BY <1>1, <1>3, ReturnFacts, SettingStep DEF ShmInv
-----------------------------------------------------------------------------
LEMMA ClearInv == ASSUME ShmInv, NEW t \in Threads, Clear(t) PROVE ShmInv'
<1>1. -Modulus <= 0 /\ 0 < Modulus + Modulus /\ 0 <= Last
  BY Consts DEF Last
<1> QED BY <1>1, SetAndReturn DEF Clear

LEMMA SeekSetInv ==
    ASSUME ShmInv, NEW t \in Threads, NEW off \in Offsets, SeekSet(t, off) PROVE ShmInv'
<1>1. CASE Fail
  BY <1>1, FailInv
<1>2. CASE ~(off < 0 \/ off >= Length) /\ Return(t, "idle") /\ Set(off)
  <2>1. off \in Int /\ -Modulus <= off /\ off < Modulus + Modulus /\ off <= Last
    BY <1>2, Consts DEF Last
  <2> QED BY <1>2, <2>1, SetAndReturn
<1> QED BY <1>1, <1>2 DEF SeekSet

LEMMA SeekEndInv ==
    ASSUME ShmInv, NEW t \in Threads, NEW off \in Offsets, SeekEnd(t, off) PROVE ShmInv'
<1>1. CASE Fail
  BY <1>1, FailInv
<1>2. CASE off <= 0 /\ Return(t, "idle") /\ Set(Length - 1 + off)
  <2>1. /\ Length - 1 + off \in Int
        /\ -Modulus <= Length - 1 + off /\ Length - 1 + off < Modulus + Modulus
        /\ Length - 1 + off <= Last
    BY <1>2, Consts DEF Last
  <2> QED BY <1>2, <2>1, SetAndReturn
<1>3. off \in Int
  BY Consts
<1> QED BY <1>1, <1>2, <1>3 DEF SeekEnd

LEMMA SeekResetInv == ASSUME ShmInv, NEW t \in Threads, SeekReset(t) PROVE ShmInv'
<1> DEFINE off == call[t].arg
<1>1. pc[t] = "reset" /\ Return(t, "reset") /\ Set(Length - 1 + off)
  BY DEF SeekReset, Return, Goto
<1>2. off \in Offsets /\ (~below => off <= Length - 1)
  BY <1>1 DEF ShmInv, Knows, Argument, Tested
<1>3. /\ Length - 1 + off \in Int
      /\ -Modulus <= Length - 1 + off /\ Length - 1 + off < Modulus + Modulus
      /\ ~below => Length - 1 + off <= Last
  BY <1>2, Consts DEF Last
<1> HIDE DEF off
<1> QED BY <1>1, <1>3, SetAndReturn

(* The compare-exchange of seek(SEEK_CUR). *)
LEMMA SeekMoveInv ==
    ASSUME ShmInv, NEW t \in Threads, ~TooFar(call[t]), cur = call[t].temp,
           Goto(t, "seek", "reset"), Set(Signed(cur) + call[t].arg), UNCHANGED call
    PROVE  ShmInv'
<1> DEFINE off == call[t].arg
           x   == Signed(cur) + off
<1>1. pc[t] = "seek" /\ off \in Offsets
  BY DEF ShmInv, Knows, Argument, Goto
<1>2. /\ cur \in Nat /\ cur < Modulus
      /\ Signed(cur) \in Int /\ 2 * Signed(cur) < Modulus /\ -Modulus <= 2 * Signed(cur)
      /\ 2 * cur < Modulus => Signed(cur) = cur
  BY SignedFacts, Consts DEF ShmInv, ShmTypeOK
<1>3. x \in Int /\ x < Length
  BY <1>1, <1>2, Consts DEF TooFar
<1>4. -Modulus <= x /\ x < Modulus + Modulus /\ x <= Last
  BY <1>1, <1>2, <1>3, Consts DEF Last
<1>5. ~below => off <= Length - 1
  <2>1. ~below => cur <= Last
    BY DEF ShmInv, Position
  <2>2. ~below => Signed(cur) = cur
    BY <2>1, <1>2, Consts DEF Last
  <2> QED BY <2>2, <1>1, <1>2, <1>3, Consts
<1>6. (~below' => ~below) /\ cur' \in 0 .. Modulus - 1 /\ below' \in BOOLEAN
  BY <1>3, <1>4, SetInv DEF ShmInv
<1>7. ShmTypeOK'
  BY <1>6 DEF ShmInv, ShmTypeOK, Goto
<1>8. /\ \A u \in Threads \ {t} : pc'[u] = pc[u] /\ call'[u] = call[u]
      /\ pc'[t] = "reset" /\ call'[t] = call[t]
  BY DEF ShmInv, ShmTypeOK, Goto
<1>9. Argument(t)' /\ (~below' => Tested(t)')
  BY <1>1, <1>5, <1>6, <1>8 DEF Argument, Tested
<1> HIDE DEF x
<1> QED BY <1>3, <1>4, <1>7, <1>8, <1>9, SettingStep DEF x
-----------------------------------------------------------------------------
(* A step of t that only changes t's control state and t's call. *)
LEMMA LocalStep ==
    ASSUME ShmInv, NEW t \in Threads, NEW a, NEW b, Goto(t, a, b), UNCHANGED <<cur, below, taken>>,
           b \in {"idle", "seek", "reset", "rewind", "load", "copy", "cas"},
           NEW c \in [arg : Sizes \union Offsets, isRead : BOOLEAN,
                     temp : 0 .. Modulus - 1, at : 0 .. Modulus - 1],
           call' = [call EXCEPT ![t] = c],
           moved \ {t} \subseteq moved',
           pc'[t] = b /\ call'[t] = c => Knows(t)'
    PROVE  ShmInv'
<1>1. /\ pc'[t] = b /\ call'[t] = c
      /\ \A u \in Threads \ {t} : pc'[u] = pc[u] /\ call'[u] = call[u]
  BY DEF ShmInv, ShmTypeOK, Goto
<1>2. ShmTypeOK'
  BY DEF ShmInv, ShmTypeOK, Goto
<1> QED BY <1>1, <1>2, QuietStep

LEMMA SeekCurInv ==
    ASSUME ShmInv, NEW t \in Threads, NEW off \in Offsets, SeekCur(t, off) PROVE ShmInv'
<1> DEFINE c == [call[t] EXCEPT !.arg = off, !.temp = cur]
<1>1. /\ c \in [arg : Sizes \union Offsets, isRead : BOOLEAN,
                temp : 0 .. Modulus - 1, at : 0 .. Modulus - 1]
      /\ c.arg = off /\ c.temp = cur
  BY DEF ShmInv, ShmTypeOK
<1>2. call' = [call EXCEPT ![t] = c]
  BY DEF ShmInv, ShmTypeOK, SeekCur
<1>4. Goto(t, "idle", "seek") /\ UNCHANGED <<cur, below, taken, moved>>
  BY DEF SeekCur, history
<1> HIDE DEF c
<1>3. ASSUME pc'[t] = "seek", call'[t] = c PROVE Knows(t)'
  <2>1. ~below' => cur <= Last
    BY <1>4 DEF ShmInv, Position
  <2> QED BY <1>1, <1>3, <2>1 DEF Knows, Argument, Tested, Between, Last
<1> QED BY <1>1, <1>2, <1>3, <1>4, LocalStep

(* A thread that loads the position once more knows that it is in range. *)
LEMMA LoadTempInv ==
    ASSUME ShmInv, NEW t \in Threads, NEW a, NEW b, Goto(t, a, b), LoadTemp(t),
           \/ a = "seek" /\ b = "seek"
           \/ a \in {"load", "cas"} /\ b = "copy"
    PROVE  ShmInv'
<1> DEFINE c == [call[t] EXCEPT !.temp = cur]
<1>1. /\ c \in [arg : Sizes \union Offsets, isRead : BOOLEAN,
                temp : 0 .. Modulus - 1, at : 0 .. Modulus - 1]
      /\ c.arg = call[t].arg /\ c.temp = cur
  BY DEF ShmInv, ShmTypeOK
<1>2. call' = [call EXCEPT ![t] = c]
  BY DEF ShmInv, ShmTypeOK, LoadTemp
<1> HIDE DEF c
<1>3. /\ pc[t] = a /\ UNCHANGED <<cur, below, taken>>
      /\ moved \ {t} \subseteq moved'
  BY DEF Goto, LoadTemp
<1>4. ASSUME pc'[t] = b, call'[t] = c PROVE Knows(t)'
  <2>1. (~below' => cur <= Last) /\ cur <= cur'
    BY <1>3, Consts DEF ShmInv, Position, ShmTypeOK
  <2>2. b = "seek" => c.arg \in Offsets
    BY <1>1, <1>3 DEF ShmInv, Knows, Argument
  <2>3. b = "copy" => c.arg \in Sizes
    BY <1>1, <1>3 DEF ShmInv, Knows, Argument
  <2> QED BY <1>1, <1>3, <1>4, <2>1, <2>2, <2>3 DEF Knows, Argument, Tested, Between, Last
<1>5. b \in {"idle", "seek", "reset", "rewind", "load", "copy", "cas"}
  OBVIOUS
<1> QED BY <1>1, <1>2, <1>3, <1>4, <1>5, LocalStep

LEMMA SeekCasInv == ASSUME ShmInv, NEW t \in Threads, SeekCas(t) PROVE ShmInv'
<1>1. CASE Fail
  BY <1>1, FailInv
<1>2. CASE ~TooFar(call[t]) /\ cur = call[t].temp /\ Goto(t, "seek", "reset")
           /\ Set(Signed(cur) + call[t].arg) /\ UNCHANGED call
  BY <1>2, SeekMoveInv
<1>3. CASE Goto(t, "seek", "seek") /\ LoadTemp(t)
  BY <1>3, LoadTempInv
<1> QED BY <1>1, <1>2, <1>3 DEF SeekCas
-----------------------------------------------------------------------------
LEMMA AccessInv ==
    ASSUME ShmInv, NEW t \in Threads, NEW n \in Sizes, NEW isRead \in BOOLEAN,
           NEW reset \in BOOLEAN, Access(t, n, isRead, reset)
    PROVE  ShmInv'
<1> DEFINE c == [call[t] EXCEPT !.arg = n, !.isRead = isRead]
           b == IF reset THEN "rewind" ELSE "load"
<1>1. /\ c \in [arg : Sizes \union Offsets, isRead : BOOLEAN,
                temp : 0 .. Modulus - 1, at : 0 .. Modulus - 1]
      /\ c.arg = n /\ b \in {"rewind", "load"}
  BY DEF ShmInv, ShmTypeOK
<1>2. call' = [call EXCEPT ![t] = c]
  BY DEF ShmInv, ShmTypeOK, Access
<1>3. Goto(t, "idle", b) /\ UNCHANGED <<cur, below, taken, moved>>
  BY DEF Access, history
<1> HIDE DEF c, b
<1>4. ASSUME pc'[t] = b, call'[t] = c PROVE Knows(t)'
  BY <1>1, <1>4 DEF Knows, Argument, Tested, Between
<1> QED BY <1>1, <1>2, <1>3, <1>4, LocalStep

LEMMA RewindInv == ASSUME ShmInv, NEW t \in Threads, Rewind(t) PROVE ShmInv'
<1>1. -Modulus <= 0 /\ 0 < Modulus + Modulus /\ 0 <= Last
  BY Consts DEF Last
<1>2. cur' \in 0 .. Modulus - 1 /\ below' \in BOOLEAN
  BY <1>1, SetInv DEF ShmInv, Rewind
<1>3. ShmTypeOK'
  BY <1>2 DEF ShmInv, ShmTypeOK, Rewind, Goto
<1>4. /\ \A u \in Threads \ {t} : pc'[u] = pc[u] /\ call'[u] = call[u]
      /\ pc[t] = "rewind" /\ pc'[t] = "load" /\ call'[t] = call[t]
  BY DEF ShmInv, ShmTypeOK, Rewind, Goto
<1>5. Argument(t)' /\ Tested(t)'
  BY <1>4 DEF ShmInv, Knows, Argument, Tested
<1> QED BY <1>1, <1>3, <1>4, <1>5, SettingStep DEF Rewind

(* Under the position's bound the test of read and write is exact. *)
LEMMA BeyondFacts ==
    ASSUME NEW c, c.temp \in Nat, c.temp <= Last, c.arg \in Sizes, ~Beyond(c)
    PROVE  c.temp + c.arg <= Length
<1> DEFINE x == c.temp + c.arg
<1>1. x \in Int /\ 0 <= x /\ x < Modulus
  BY Consts DEF Last
<1>2. Word(x) = x
  BY <1>1, Consts, WordFacts
<1> QED BY <1>1, <1>2, Consts DEF Beyond

LEMMA CopyInv == ASSUME ShmInv, NEW t \in Threads, Copy(t) PROVE ShmInv'
<1> DEFINE at == IF call[t].isRead THEN cur ELSE call[t].temp
           c  == [call[t] EXCEPT !.at = at]
<1>1. CASE Fail
  BY <1>1, FailInv
<1>2. CASE ~Beyond(call[t]) /\ Goto(t, "copy", "cas")
           /\ call' = [call EXCEPT ![t].at = at] /\ UNCHANGED <<cur, history>>
  <2>1. /\ c \in [arg : Sizes \union Offsets, isRead : BOOLEAN,
                  temp : 0 .. Modulus - 1, at : 0 .. Modulus - 1]
        /\ c.arg = call[t].arg /\ c.temp = call[t].temp /\ c.at = at
        /\ c.isRead = call[t].isRead
    BY DEF ShmInv, ShmTypeOK
  <2>2. call' = [call EXCEPT ![t] = c]
    BY <1>2 DEF ShmInv, ShmTypeOK
  <2>3. Goto(t, "copy", "cas") /\ UNCHANGED <<cur, below, taken, moved>>
    BY <1>2 DEF history
  <2>4. Knows(t) /\ pc[t] = "copy" /\ cur \in Nat /\ call[t].temp \in Nat
    BY <2>3, Consts DEF ShmInv, ShmTypeOK, Goto
  <2>5. ~below => call[t].temp + call[t].arg <= Length
    BY <1>2, <2>4, BeyondFacts DEF Knows, Argument, Tested
  <2>6. ~below /\ t \notin moved => call[t].temp <= at /\ at <= cur
    BY <2>4 DEF Knows, Between
  <2> HIDE DEF c, at
  <2>7. ASSUME pc'[t] = "cas", call'[t] = c PROVE Knows(t)'
    <3>1. Argument(t)'
      BY <2>1, <2>4, <2>7 DEF Knows, Argument
    <3>2. ~below' => Tested(t)'
      BY <2>1, <2>3, <2>4, <2>5, <2>7 DEF Knows, Tested, Last
    <3>3. ~below' /\ t \notin moved' => Between(t)'
      BY <2>1, <2>3, <2>4, <2>6, <2>7 DEF Knows, Between
    <3> QED BY <3>1, <3>2, <3>3 DEF Knows
  <2> QED BY <2>1, <2>2, <2>3, <2>7, LocalStep
<1> QED BY <1>1, <1>2 DEF Copy

LEMMA ReserveInv == ASSUME ShmInv, NEW t \in Threads, Reserve(t) PROVE ShmInv'
<1> DEFINE n == call[t].arg
<1>1. pc[t] = "cas" /\ n \in Sizes /\ cur = call[t].temp /\ cur \in Nat /\ cur < Modulus
  BY Consts DEF ShmInv, Knows, Argument, Reserve, Return, Goto, ShmTypeOK
<1>2. cur' = Word(cur + n) /\ taken' = taken \union (cur .. cur + n - 1)
      /\ UNCHANGED <<below, moved>>
  BY <1>1 DEF Reserve, Reserved
<1>3. cur' \in 0 .. Modulus - 1 /\ (cur + n < Modulus => cur' = cur + n)
  BY <1>1, <1>2, Consts, WordFacts
<1>4. ~below => cur' = cur + n /\ cur + n <= Length /\ taken \subseteq 0 .. cur - 1
  <2>1. ~below => cur + n <= Length
    BY <1>1 DEF ShmInv, Knows, Tested
  <2> QED BY <2>1, <1>1, <1>3, Consts DEF ShmInv, Position
<1> HIDE DEF n
<1>5. Position'
  <2> SUFFICES ASSUME ~below PROVE cur' <= Last' /\ taken' \subseteq 0 .. cur' - 1
    BY <1>2 DEF Position
  <2>1. n \in Nat /\ n >= 1 /\ cur' = cur + n
    BY <1>1, <1>4, Consts
  <2>2. cur' <= Last'
    BY <1>1, <1>4, <2>1, Consts DEF Last
  <2>3. taken' \subseteq 0 .. cur' - 1
    BY <1>1, <1>2, <1>4, <2>1
  <2> QED BY <2>2, <2>3
<1>6. /\ \A u \in Threads \ {t} : pc'[u] = pc[u] /\ call'[u] = call[u]
      /\ pc'[t] = "idle"
  BY ReturnFacts DEF ShmInv, Reserve
<1>7. ShmTypeOK'
  BY <1>2, <1>3, ReturnFacts DEF ShmInv, ShmTypeOK, Reserve
<1>8. ASSUME NEW u \in Threads, u # t PROVE Knows(u)'
  <2>1. Knows(u) /\ ShmTypeOK /\ pc'[u] = pc[u] /\ call'[u] = call[u]
    BY <1>6, <1>8 DEF ShmInv
  <2>2. CASE below
    BY <1>2, <2>1, <2>2 DEF Knows, Argument
  <2>3. CASE ~below
    <3>1. cur <= cur' /\ moved \ {t} \subseteq moved'
      BY <1>1, <1>2, <1>4, <2>3, Consts
    <3> QED BY <1>2, <1>7, <1>8, <2>1, <3>1, Others
  <2> QED BY <2>2, <2>3
<1>9. Knows(t)'
  BY <1>6 DEF Knows, Argument, Tested, Between
<1> QED BY <1>5, <1>7, <1>8, <1>9 DEF ShmInv

LEMMA ReadOrWriteInv == ASSUME ShmInv, NEW t \in Threads, ReadOrWrite(t) PROVE ShmInv'
<1>1. ASSUME Load(t) PROVE ShmInv'
  BY <1>1, LoadTempInv DEF Load
<1>2. ASSUME Retry(t) PROVE ShmInv'
  BY <1>2, LoadTempInv DEF Retry
<1> QED BY <1>1, <1>2, AccessInv, RewindInv, CopyInv, ReserveInv DEF ReadOrWrite

LEMMA SeekInv == ASSUME ShmInv, NEW t \in Threads, Seek(t) PROVE ShmInv'
BY SeekSetInv, SeekEndInv, SeekCurInv, SeekCasInv, SeekResetInv DEF Seek

LEMMA ShmStepInv == ShmInv /\ [ShmNext]_shmVars => ShmInv'
<1> SUFFICES ASSUME ShmInv, [ShmNext]_shmVars PROVE ShmInv'
  OBVIOUS
<1>1. ASSUME NEW t \in Threads, Clear(t) \/ Seek(t) \/ ReadOrWrite(t) PROVE ShmInv'
  BY <1>1, ClearInv, SeekInv, ReadOrWriteInv
<1>2. CASE UNCHANGED shmVars
  BY <1>2 DEF ShmInv, shmVars, history, ShmTypeOK, Position, Knows, Argument, Tested, Between
<1> QED BY <1>1, <1>2 DEF ShmNext

THEOREM ShmInvariance == ShmSpec => []ShmInv
BY ShmInitInv, ShmStepInv, PTL DEF ShmSpec
-----------------------------------------------------------------------------
(* Two accesses never reserve the same byte while nobody sets the          *)
(* position, none reserves one outside the memory, and a read copied the   *)
(* bytes it reserves (shm.hpp:246-260).                                    *)
THEOREM Once == ShmSpec => ReservedOnce
<1> DEFINE Claim(t) == LET c == call[t]
                       IN  pc[t] = "cas" /\ pc'[t] = "idle" /\ ~below =>
                              /\ Reserved(c) \subseteq (0 .. Length - 1) \ taken
                              /\ t \notin moved => c.at = c.temp
<1>1. ASSUME ShmInv, ShmNext, NEW t \in Threads, pc[t] = "cas", pc'[t] = "idle" PROVE Reserve(t)
  <2>1. pc' # pc
    BY <1>1
  <2>2. PICK u \in Threads : Clear(u) \/ Seek(u) \/ ReadOrWrite(u)
    BY <1>1, <2>1 DEF ShmNext, shmVars
  <2> USE DEF Goto, Return, Fail, ShmInv, ShmTypeOK
  <2>3. ~Clear(u)
    BY <1>1 DEF Clear
  <2>4. ~Seek(u)
    BY <1>1 DEF Seek, SeekSet, SeekEnd, SeekCur, SeekCas, SeekReset
  <2>5. ~Rewind(u) /\ ~Load(u) /\ ~Copy(u) /\ ~Retry(u)
    BY <1>1 DEF Rewind, Load, Copy, Retry
  <2>6. \A n \in Sizes, r, s \in BOOLEAN : ~Access(u, n, r, s)
    BY <1>1 DEF Access
  <2>7. Reserve(u)
    BY <2>2, <2>3, <2>4, <2>5, <2>6 DEF ReadOrWrite
  <2> QED BY <1>1, <2>7 DEF Reserve
<1>2. ASSUME ShmInv, NEW t \in Threads, pc[t] = "cas", Reserve(t), ~below
      PROVE  /\ Reserved(call[t]) \subseteq (0 .. Length - 1) \ taken
             /\ t \notin moved => call[t].at = call[t].temp
  <2>1. call[t].temp + call[t].arg <= Length /\ taken \subseteq 0 .. cur - 1
    BY <1>2 DEF ShmInv, Knows, Tested, Position
  <2>2. call[t].temp \in Nat /\ call[t].arg \in Nat /\ call[t].at \in Nat /\ cur = call[t].temp
    BY <1>2, Consts DEF ShmInv, Knows, Argument, ShmTypeOK, Reserve
  <2>3. t \notin moved => call[t].temp <= call[t].at /\ call[t].at <= cur
    BY <1>2 DEF ShmInv, Knows, Between
  <2> QED BY <2>1, <2>2, <2>3, Consts DEF Reserved
<1>3. ShmInv /\ [ShmNext]_shmVars => [\A t \in Threads : Claim(t)]_shmVars
  BY <1>1, <1>2
<1> QED BY <1>3, ShmInvariance, PTL DEF ShmSpec, ReservedOnce
-----------------------------------------------------------------------------
(***************************************************************************)
(* Lifecycle: who has which allocation, and how often it was deleted.      *)
(***************************************************************************)
Own(o) == ptr[o][C.guard]
Holding(o, a) == life[o] = "alive" /\ Own(o) = a
Held(a) == \E o \in Objects : Holding(o, a)

(* What the invariants need to know of the classes.                        *)
Transfers == C.cleared = Arrays /\ C.dropped = {}
ClassFacts ==
    /\ C.guard \in Arrays
    /\ IF class = "datahandle" THEN C.cleared = {} /\ C.dropped = Arrays
                               ELSE Transfers
    /\ C.full \in BOOLEAN /\ Whole \in 0 .. Capacity
    /\ C.counts \in {"permits", "ring", "nothing"}
    /\ C.named => ~Counting
    /\ class = "datahandle" => ~C.named /\ ~Counting
    /\ class = "posix_shm" => ~Counting
    /\ class = "mpsc_atomic" \/ \A f \in Arrays : C.reported[f] <= C.allocated[f]

LifeType ==
    /\ class \in DOMAIN Classes
    /\ life \in [Objects -> {"none", "alive", "dead"}]
    /\ ptr \in [Objects -> [Arrays -> Objects \union {Null}]]
    /\ freed \in [Objects -> [Arrays -> Nat]]
    /\ heir \in [Objects -> Objects \union {Null}]
    /\ stored \in [Objects -> 0 .. Capacity] /\ permits \in [Objects -> Nat]
    /\ getting \in [Objects -> Nat] /\ putting \in [Objects -> Nat]
    /\ kernel \in [Objects -> Nat] /\ created \in Nat /\ bound \in Nat

(* An object has all arrays of one allocation, or none.                    *)
Together == \A o \in Objects, f \in Arrays : ptr[o][f] = Own(o)

(* Nothing is left of an object that was never constructed.                *)
Fresh == \A o \in Objects : life[o] = "none" => heir[o] = Null /\ \A f \in Arrays : freed[o][f] = 0

(* Arrays in use were allocated, and are in use by one object: but for     *)
(* datahandle, the last one moved to.                                      *)
Known == \A o \in Objects : life[o] = "alive" /\ Own(o) # Null =>
            Own(o) \in Allocated /\ (class # "datahandle" => heir[Own(o)] = o)

Alone == \A o, x \in Objects :
            life[o] = "alive" /\ life[x] = "alive" /\ Own(o) = Own(x) /\ Own(o) # Null => o = x

(* They are deleted when that object is gone.                              *)
FreedOnce == \A a \in Allocated, f \in Arrays : freed[a][f] = IF Held(a) THEN 0 ELSE 1

(* Who has opened the name has a kernel object: the one that the name      *)
(* denotes, unless it was unlinked meanwhile.                              *)
Shared == C.named =>
    /\ \A a \in Allocated : kernel[a] # 0
    /\ \A a \in Allocated : Held(a) => a \in parted \/ kernel[a] = bound
    /\ (\A a \in Allocated : ~Held(a)) /\ bound # 0 => abandoned

(* A stored element has a permit, or a get has taken its permit, or a put  *)
(* has yet to post it.                                                     *)
Balanced(o) == IF C.counts = "permits" THEN stored[o] = permits[o] + getting[o] + putting[o]
                                       ELSE getting[o] = 0 /\ putting[o] = 0

CallsBalance == /\ Counting => \A o \in Objects : Balanced(o)
                /\ \A o \in Objects : life[o] = "none" => getting[o] = 0 /\ putting[o] = 0

(* What the destructor found when it deleted the arrays of o.              *)
FoundWhole(o) == /\ putting[o] = 0
                 /\ stored[o] = Whole + getting[o]
                 /\ C.full => getting[o] = 0

DeletedWhole == Counting => \A o \in Objects :
                    life[o] = "dead" /\ Own(o) # Null => FoundWhole(o)

LifeInv == /\ LifeType /\ Together /\ Fresh /\ Known /\ Alone /\ FreedOnce
           /\ CallsBalance /\ DeletedWhole /\ Shared
-----------------------------------------------------------------------------
LEMMA LifeConsts == Capacity \in Nat /\ Capacity >= 1 /\ Null \notin Objects
BY LifecycleAssumption

LEMMA Kinds == ASSUME class \in DOMAIN Classes PROVE ClassFacts
<1>1. CASE class = "wr_pool"
  <2>1. C = WrPool
    BY <1>1 DEF C, Classes
  <2> QED BY <1>1, <2>1, LifeConsts DEF ClassFacts, Transfers, Arrays, Counting, Whole, WrPool, Pool
<1>2. CASE class = "spsc_sem"
  <2>1. C = SpscSem
    BY <1>2 DEF C, Classes
  <2> QED BY <1>2, <2>1, LifeConsts DEF ClassFacts, Transfers, Arrays, Counting, Whole, SpscSem, Pool
<1>3. CASE class = "mpsc_sem"
  <2>1. C = MpscSem
    BY <1>3 DEF C, Classes
  <2> QED BY <1>3, <2>1, LifeConsts DEF ClassFacts, Transfers, Arrays, Counting, Whole, MpscSem, Pool
<1>4. CASE class = "spsc_atomic"
  <2>1. C = SpscAtomic
    BY <1>4 DEF C, Classes
  <2> QED BY <1>4, <2>1, LifeConsts DEF ClassFacts, Transfers, Arrays, Counting, Whole, SpscAtomic, Pool
<1>5. CASE class = "mpsc_atomic"
  <2>1. C = MpscAtomic
    BY <1>5 DEF C, Classes
  <2> QED BY <1>5, <2>1, LifeConsts DEF ClassFacts, Transfers, Arrays, Counting, Whole, MpscAtomic, Pool
<1>6. CASE class = "queue"
  <2>1. C = Queue
    BY <1>6 DEF C, Classes
  <2> QED BY <1>6, <2>1, LifeConsts DEF ClassFacts, Transfers, Arrays, Counting, Whole, Queue
<1>7. CASE class = "posix_sem"
  <2>1. C = PosixSem
    BY <1>7 DEF C, Classes
  <2> QED BY <1>7, <2>1, LifeConsts DEF ClassFacts, Transfers, Arrays, Counting, Whole, PosixSem, Holder
<1>8. CASE class = "named_sem"
  <2>1. C = NamedSem
    BY <1>8 DEF C, Classes
  <2> QED BY <1>8, <2>1, LifeConsts DEF ClassFacts, Transfers, Arrays, Counting, Whole, NamedSem, Holder
<1>9. CASE class = "posix_shm"
  <2>1. C = PosixShm
    BY <1>9 DEF C, Classes
  <2> QED BY <1>9, <2>1, LifeConsts DEF ClassFacts, Transfers, Arrays, Counting, Whole, PosixShm, Holder
<1>10. CASE class = "datahandle"
  <2>1. C = DataHandle
    BY <1>10 DEF C, Classes
  <2> QED BY <1>10, <2>1, LifeConsts DEF ClassFacts, Transfers, Arrays, Counting, Whole, DataHandle, Holder
<1> QED BY <1>1, <1>2, <1>3, <1>4, <1>5, <1>6, <1>7, <1>8, <1>9, <1>10 DEF Classes
-----------------------------------------------------------------------------
LEMMA SameClass ==
    ASSUME class' = class
    PROVE  C' = C /\ Arrays' = Arrays /\ (Counting' <=> Counting) /\ Whole' = Whole
BY DEF C, Arrays, Counting, Whole

(* The counts of an object that is not touched say what they said.         *)
LEMMA CountsStay ==
    ASSUME NEW o \in Objects, class' = class, stored'[o] = stored[o], permits'[o] = permits[o],
           getting'[o] = getting[o], putting'[o] = putting[o]
    PROVE  (Balanced(o)' <=> Balanced(o)) /\ (FoundWhole(o)' <=> FoundWhole(o))
BY SameClass DEF Balanced, FoundWhole

LEMMA TheClass == ASSUME LifeType PROVE ClassFacts
BY Kinds DEF LifeType

LEMMA LifeInitInv == LifeInit => LifeInv
<1> SUFFICES ASSUME LifeInit PROVE LifeInv
  OBVIOUS
<1>1. Allocated = {} /\ \A o \in Objects : life[o] = "none" /\ heir[o] = Null
  BY DEF LifeInit, Allocated
<1>2. LifeType
  BY LifeConsts DEF LifeInit, LifeType
<1>3. ClassFacts
  BY <1>2, TheClass
<1>4. Together
  BY <1>3 DEF LifeInit, Together, Own, ClassFacts
<1>5. Fresh /\ Known /\ Alone /\ FreedOnce
  BY <1>1 DEF LifeInit, Fresh, Known, Alone, FreedOnce
<1>6. CallsBalance /\ DeletedWhole
  BY <1>1 DEF CallsBalance, Balanced, DeletedWhole, LifeInit
<1>7. Shared
  BY <1>1 DEF Shared, LifeInit
<1> QED BY <1>2, <1>4, <1>5, <1>6, <1>7 DEF LifeInv

LEMMA ConstructInv == ASSUME LifeInv, NEW o \in Objects, Construct(o) PROVE LifeInv'
<1>c. ClassFacts /\ C' = C /\ Arrays' = Arrays /\ (Counting' <=> Counting) /\ class' = class
  BY SameClass, TheClass DEF LifeInv, Construct
<1>1. /\ life[o] = "none" /\ life'[o] = "alive" /\ \A x \in Objects \ {o} : life'[x] = life[x]
      /\ \A f \in Arrays : ptr'[o][f] = o
      /\ \A x \in Objects \ {o} : ptr'[x] = ptr[x]
      /\ heir'[o] = o /\ \A x \in Objects \ {o} : heir'[x] = heir[x]
      /\ UNCHANGED <<freed, parted, abandoned>>
  BY DEF LifeInv, LifeType, Construct
<1>2. o # Null /\ heir[o] = Null /\ \A f \in Arrays : freed[o][f] = 0
  BY <1>1, LifeConsts DEF LifeInv, Fresh
<1>3. Own(o)' = o /\ \A x \in Objects \ {o} : Own(x)' = Own(x)
  BY <1>1, <1>c DEF Own, ClassFacts
<1>4. Allocated' = Allocated \union {o} /\ o \notin Allocated
  BY <1>1, <1>2 DEF Allocated
<1>5. \A x \in Objects : life[x] = "alive" => Own(x) # o
  BY <1>2 DEF LifeInv, Known, Allocated
<1>6. Held(o)' /\ \A a \in Allocated : Held(a)' <=> Held(a)
  <2>1. Holding(o, o)' /\ \A a \in Allocated : ~Holding(o, a)' /\ ~Holding(o, a)
    BY <1>1, <1>3, <1>4 DEF Holding
  <2>2. \A x \in Objects \ {o}, a \in Objects : Holding(x, a)' <=> Holding(x, a)
    BY <1>1, <1>3 DEF Holding
  <2> QED BY <2>1, <2>2 DEF Held, Allocated
<1>k. /\ stored'[o] = Whole /\ permits'[o] = IF C.counts = "permits" THEN Whole ELSE 0
      /\ \A x \in Objects \ {o} : stored'[x] = stored[x] /\ permits'[x] = permits[x]
      /\ UNCHANGED <<getting, putting>>
  BY DEF LifeInv, LifeType, Construct
<1>7. LifeType'
  <2>1. stored' \in [Objects -> 0 .. Capacity] /\ permits' \in [Objects -> Nat]
    BY <1>c, LifeConsts DEF ClassFacts, LifeInv, LifeType, Construct
  <2> QED BY <1>c, <1>k, <2>1, LifeConsts DEF LifeInv, LifeType, Construct, Lookup
<1>8. Together'
  BY <1>1, <1>3, <1>c DEF LifeInv, Together
<1>9. Fresh'
  BY <1>1, <1>c DEF LifeInv, Fresh
<1>10. Known' /\ Alone'
  <2>1. Known'
    BY <1>1, <1>2, <1>3, <1>4, <1>c DEF LifeInv, Known, Allocated
  <2>2. Alone'
    BY <1>1, <1>2, <1>3, <1>5 DEF LifeInv, Alone
  <2> QED BY <2>1, <2>2
<1>11. FreedOnce'
  BY <1>1, <1>2, <1>4, <1>6, <1>c DEF LifeInv, FreedOnce
<1>12. CallsBalance' /\ DeletedWhole'
  <2>1. Counting => Balanced(o)'
    <3>1. getting[o] = 0 /\ putting[o] = 0 /\ Whole \in Nat
      BY <1>1, <1>c, LifeConsts DEF LifeInv, CallsBalance, ClassFacts
    <3> QED BY <1>c, <1>k, <3>1 DEF Balanced
  <2>2. \A x \in Objects \ {o} : (Balanced(x)' <=> Balanced(x)) /\ (FoundWhole(x)' <=> FoundWhole(x))
    BY <1>c, <1>k, CountsStay
  <2>3. CallsBalance'
    BY <1>1, <1>c, <1>k, <2>1, <2>2 DEF LifeInv, CallsBalance
  <2>4. DeletedWhole'
    BY <1>1, <1>3, <1>c, <2>2 DEF LifeInv, DeletedWhole
  <2> QED BY <2>3, <2>4
<1>13. Shared'
  <2> SUFFICES ASSUME C.named PROVE Shared'
    BY <1>c DEF Shared
  <2>1. Lookup /\ kernel' = [kernel EXCEPT ![o] = bound']
    BY DEF Construct
  <2>2. bound' # 0 /\ (bound # 0 => bound' = bound)
    BY <2>1 DEF Lookup, LifeInv, LifeType
  <2>3. kernel'[o] = bound' /\ \A x \in Objects \ {o} : kernel'[x] = kernel[x]
    BY <2>1 DEF LifeInv, LifeType
  <2>4. Allocated \subseteq Objects \ {o}
    BY <1>4 DEF Allocated
  <2> QED BY <1>1, <1>4, <1>6, <1>c, <2>2, <2>3, <2>4 DEF LifeInv, Shared
<1> QED BY <1>7, <1>8, <1>9, <1>10, <1>11, <1>12, <1>13 DEF LifeInv

(* A move changes who has an allocation, and not whether somebody has it.  *)
LEMMA MoveInv == ASSUME LifeInv, NEW ref \in Objects, NEW o \in Objects, Move(ref, o) PROVE LifeInv'
<1>c. ClassFacts /\ C' = C /\ Arrays' = Arrays /\ (Counting' <=> Counting) /\ class' = class
  BY SameClass, TheClass DEF LifeInv, Move
<1>1. /\ life[ref] = "alive" /\ life[o] = "none" /\ o # ref
      /\ life'[o] = "alive" /\ \A x \in Objects \ {o} : life'[x] = life[x]
      /\ \A x \in Objects \ {o, ref} : ptr'[x] = ptr[x]
      /\ \A x \in Objects : heir'[x] = IF heir[x] = ref THEN o ELSE heir[x]
      /\ UNCHANGED <<freed, bound, created, kernel, parted, abandoned>>
  BY DEF LifeInv, LifeType, Move, names
<1>2. o # Null /\ ref # Null
  BY LifeConsts
<1>3. /\ \A f \in Arrays : ptr'[o][f] = IF class = "datahandle" THEN Null ELSE ptr[ref][f]
      /\ \A f \in Arrays : ptr'[ref][f] = IF class = "datahandle" THEN ptr[ref][f] ELSE Null
  <2>1. /\ ptr'[o] = [f \in Arrays |-> IF f \in C.dropped THEN Null ELSE ptr[ref][f]]
        /\ ptr'[ref] = [f \in Arrays |-> IF f \in C.cleared THEN Null ELSE ptr[ref][f]]
    BY <1>1 DEF Move, LifeInv, LifeType
  <2> QED BY <2>1, <1>c DEF ClassFacts, Transfers
<1>4. /\ Own(o)' = IF class = "datahandle" THEN Null ELSE Own(ref)
      /\ Own(ref)' = IF class = "datahandle" THEN Own(ref) ELSE Null
      /\ \A x \in Objects \ {o, ref} : Own(x)' = Own(x)
  BY <1>1, <1>3, <1>c DEF Own, ClassFacts
<1>5. Allocated' = Allocated
  BY <1>1, <1>2 DEF Allocated
<1>6. \A a \in Allocated : Held(a)' <=> Held(a)
  <2>1. \A a \in Allocated : a # Null
    BY LifeConsts DEF Allocated
  <2>2. CASE class = "datahandle"
    <3>1. \A x \in Objects, a \in Allocated : Holding(x, a)' <=> Holding(x, a)
      BY <1>1, <1>4, <2>1, <2>2 DEF Holding
    <3> QED BY <3>1 DEF Held
  <2>3. CASE class # "datahandle"
    <3>1. /\ \A x \in Objects \ {o, ref}, a \in Allocated : Holding(x, a)' <=> Holding(x, a)
          /\ \A a \in Allocated : /\ Holding(o, a)' <=> Holding(ref, a)
                                  /\ ~Holding(ref, a)' /\ ~Holding(o, a)
      BY <1>1, <1>4, <2>1, <2>3 DEF Holding
    <3> QED BY <3>1 DEF Held
  <2> QED BY <2>2, <2>3
<1>7. LifeType'
  <2>1. ptr' \in [Objects -> [Arrays -> Objects \union {Null}]]
    <3> DEFINE T == [Arrays -> Objects \union {Null}]
    <3>1. ptr' = [x \in Objects |-> ptr'[x]]
      BY DEF Move, LifeInv, LifeType
    <3>2. \A x \in Objects : ptr[x] \in T
      BY DEF LifeInv, LifeType
    <3>3. \A x \in Objects \ {o, ref} : ptr'[x] \in T
      BY <1>1, <3>2
    <3>4. /\ ptr'[o] = [f \in Arrays |-> IF f \in C.dropped THEN Null ELSE ptr[ref][f]]
          /\ ptr'[ref] = [f \in Arrays |-> IF f \in C.cleared THEN Null ELSE ptr[ref][f]]
      BY <1>1 DEF Move, LifeInv, LifeType
    <3>5. ptr'[o] \in T /\ ptr'[ref] \in T
      BY <3>2, <3>4
    <3> HIDE DEF T
    <3>6. \A x \in Objects : ptr'[x] \in T
      BY <3>3, <3>5
    <3>7. [x \in Objects |-> ptr'[x]] \in [Objects -> T]
      BY <3>6
    <3> QED BY <3>1, <3>7 DEF T
  <2>2. /\ stored' \in [Objects -> 0 .. Capacity] /\ permits' \in [Objects -> Nat]
        /\ UNCHANGED <<getting, putting>>
    BY DEF Move, CopyCount, LifeInv, LifeType
  <2>3. heir' \in [Objects -> Objects \union {Null}] /\ life' \in [Objects -> {"none", "alive", "dead"}]
    BY DEF Move, LifeInv, LifeType
  <2> QED BY <1>1, <1>c, <2>1, <2>2, <2>3 DEF LifeInv, LifeType
<1>8. Together'
  BY <1>1, <1>3, <1>4, <1>c DEF LifeInv, Together
<1>9. Fresh'
  BY <1>1, <1>2, <1>c DEF LifeInv, Fresh
<1>10. Known'
  <2> SUFFICES ASSUME NEW x \in Objects, life'[x] = "alive", Own(x)' # Null
               PROVE  Own(x)' \in Allocated /\ (class # "datahandle" => heir'[Own(x)'] = x)
    BY <1>5, <1>c DEF Known
  <2>1. CASE class = "datahandle"
    BY <1>1, <1>4, <2>1 DEF LifeInv, Known
  <2>2. CASE class # "datahandle" /\ x = o
    BY <1>1, <1>4, <2>2 DEF LifeInv, Known, Allocated
  <2>3. CASE class # "datahandle" /\ x # o
    BY <1>1, <1>4, <2>3 DEF LifeInv, Known, Allocated
  <2> QED BY <2>1, <2>2, <2>3
<1>11. Alone'
  BY <1>1, <1>4 DEF LifeInv, Alone
<1>12. FreedOnce'
  BY <1>1, <1>5, <1>6, <1>c DEF LifeInv, FreedOnce
<1>13. CallsBalance' /\ DeletedWhole'
  <2>1. /\ stored'[o] = stored[ref] /\ permits'[o] = permits[ref]
        /\ \A x \in Objects \ {o} : stored'[x] = stored[x] /\ permits'[x] = permits[x]
        /\ UNCHANGED <<getting, putting>>
    BY DEF Move, CopyCount, LifeInv, LifeType
  <2>2. getting[ref] = 0 /\ putting[ref] = 0 /\ getting[o] = 0 /\ putting[o] = 0
    <3>1. getting[ref] \in Nat /\ putting[ref] \in Nat /\ ~(getting[ref] + putting[ref] > 0)
      BY DEF Move, InUse, LifeInv, LifeType
    <3>2. getting[o] = 0 /\ putting[o] = 0
      BY <1>1 DEF LifeInv, CallsBalance
    <3> QED BY <3>1, <3>2
  <2>3. Counting => Balanced(o)'
    <3>1. Counting => Balanced(ref)
      BY DEF LifeInv, CallsBalance
    <3> QED BY <1>c, <2>1, <2>2, <3>1 DEF Balanced
  <2>4. \A x \in Objects \ {o} : (Balanced(x)' <=> Balanced(x)) /\ (FoundWhole(x)' <=> FoundWhole(x))
    BY <1>c, <2>1, CountsStay
  <2>5. CallsBalance'
    BY <1>1, <1>c, <2>1, <2>3, <2>4 DEF LifeInv, CallsBalance
  <2>6. DeletedWhole'
    BY <1>1, <1>4, <1>c, <2>4 DEF LifeInv, DeletedWhole
  <2> QED BY <2>5, <2>6
<1>14. Shared'
  BY <1>1, <1>5, <1>6, <1>c DEF LifeInv, Shared
<1> QED BY <1>7, <1>8, <1>9, <1>10, <1>11, <1>12, <1>13, <1>14 DEF LifeInv

(* The destructor of o and the end of its process delete what o has.       *)
LEMMA Releases ==
    ASSUME LifeInv, NEW o \in Objects, life[o] = "alive", life' = [life EXCEPT ![o] = "dead"],
           UNCHANGED <<class, ptr, counts, heir, created, kernel>>,
           IF Owns(o) THEN Delete(o) ELSE freed' = freed
    PROVE  /\ Together' /\ Fresh' /\ Known' /\ Alone' /\ FreedOnce'
           /\ freed' \in [Objects -> [Arrays -> Nat]]
           /\ C' = C /\ Arrays' = Arrays /\ (Counting' <=> Counting)
           /\ Allocated' = Allocated
           /\ \A a \in Allocated : Held(a)' <=> Held(a) /\ a # Own(o)
           /\ CallsBalance'
           /\ \A x \in Objects \ {o} : (life'[x] = "dead" /\ Own(x)' # Null => FoundWhole(x)')
                                        <=> (life[x] = "dead" /\ Own(x) # Null => FoundWhole(x))
           /\ life'[o] = "dead" /\ Own(o)' = Own(o) /\ (FoundWhole(o)' <=> FoundWhole(o))
<1>c. ClassFacts /\ C' = C /\ Arrays' = Arrays /\ (Counting' <=> Counting) /\ class' = class
  BY SameClass, TheClass DEF LifeInv
<1>1. /\ life'[o] = "dead" /\ \A x \in Objects \ {o} : life'[x] = life[x]
      /\ \A x \in Objects : Own(x)' = Own(x)
  BY <1>c DEF LifeInv, LifeType, Own
<1>2. Allocated' = Allocated
  BY DEF Allocated
<1>3. \A a \in Allocated : Held(a)' <=> Held(a) /\ a # Own(o)
  <2>1. \A x \in Objects \ {o}, a \in Allocated : Holding(x, a)' <=> Holding(x, a)
    BY <1>1 DEF Holding
  <2>2. \A a \in Allocated : ~Holding(o, a)' /\ (Holding(o, a) <=> a = Own(o))
    BY <1>1 DEF Holding
  <2>3. \A x \in Objects \ {o}, a \in Allocated : Holding(x, a) => ~Holding(o, a)
    BY LifeConsts DEF LifeInv, Alone, Holding, Allocated
  <2> QED BY <2>1, <2>2, <2>3 DEF Held
<1>4. Together'
  BY <1>1, <1>c DEF LifeInv, Together
<1>5. Known' /\ Alone'
  <2>1. Known'
    BY <1>1, <1>2, <1>c DEF LifeInv, Known
  <2>2. Alone'
    BY <1>1 DEF LifeInv, Alone
  <2> QED BY <2>1, <2>2
<1>k. /\ CallsBalance'
      /\ \A x \in Objects : (Balanced(x)' <=> Balanced(x)) /\ (FoundWhole(x)' <=> FoundWhole(x))
  <2>1. \A x \in Objects : (Balanced(x)' <=> Balanced(x)) /\ (FoundWhole(x)' <=> FoundWhole(x))
    BY CountsStay DEF counts
  <2>2. CallsBalance'
    BY <1>1, <1>c, <2>1 DEF LifeInv, CallsBalance, counts
  <2> QED BY <2>1, <2>2
<1>6. CASE Owns(o)
  <2>1. Own(o) \in Allocated /\ Own(o) \in Objects
    BY <1>6 DEF LifeInv, Known, Owns, Own, Allocated
  <2>2. \A a \in Objects, f \in Arrays : freed'[a][f] = freed[a][f] + IF Own(o) = a THEN 1 ELSE 0
    BY <1>6 DEF Delete, LifeInv, Together
  <2>3. freed' \in [Objects -> [Arrays -> Nat]]
    <3>1. freed' = [a \in Objects |-> [f \in Arrays |->
                       freed[a][f] + IF ptr[o][f] = a THEN 1 ELSE 0]]
      BY <1>6 DEF Delete
    <3>2. \A a \in Objects, f \in Arrays : freed[a][f] \in Nat
      BY DEF LifeInv, LifeType
    <3>3. \A a \in Objects, f \in Arrays : (freed[a][f] + IF ptr[o][f] = a THEN 1 ELSE 0) \in Nat
      BY <3>2
    <3>4. \A a \in Objects : [f \in Arrays |-> freed[a][f] + IF ptr[o][f] = a THEN 1 ELSE 0]
                                 \in [Arrays -> Nat]
      BY <3>3
    <3> QED BY <3>1, <3>4
  <2>4. Fresh'
    <3> SUFFICES ASSUME NEW x \in Objects, life'[x] = "none"
                 PROVE  heir'[x] = Null /\ \A f \in Arrays : freed'[x][f] = 0
      BY <1>c DEF Fresh
    <3>1. heir[x] = Null /\ \A f \in Arrays : freed[x][f] = 0
      BY <1>1 DEF LifeInv, Fresh
    <3>2. Own(o) # x
      BY <2>1, <3>1 DEF Allocated
    <3> QED BY <2>2, <3>1, <3>2
  <2>5. Held(Own(o))
    BY DEF Held, Holding
  <2>6. FreedOnce'
    BY <1>2, <1>3, <1>c, <2>1, <2>2, <2>5 DEF LifeInv, FreedOnce, Allocated
  <2> QED BY <1>1, <1>2, <1>3, <1>4, <1>5, <1>c, <1>k, <2>3, <2>4, <2>6
<1>7. CASE ~Owns(o)
  <2>1. Own(o) \notin Allocated
    BY <1>7, LifeConsts DEF Owns, Own, Allocated
  <2>2. freed' = freed
    BY <1>7
  <2>3. Fresh'
    BY <1>1, <1>c, <2>2 DEF LifeInv, Fresh
  <2>4. FreedOnce'
    BY <1>2, <1>3, <1>c, <2>1, <2>2 DEF LifeInv, FreedOnce
  <2> QED BY <1>1, <1>2, <1>3, <1>4, <1>5, <1>c, <1>k, <2>2, <2>3, <2>4 DEF LifeInv, LifeType
<1> QED BY <1>6, <1>7

LEMMA DestructInv == ASSUME LifeInv, NEW o \in Objects, Destruct(o) PROVE LifeInv'
<1>1. /\ life[o] = "alive" /\ life' = [life EXCEPT ![o] = "dead"]
      /\ UNCHANGED <<class, ptr, counts, heir, created, kernel, abandoned>>
      /\ IF Owns(o) THEN Delete(o) ELSE freed' = freed
  BY DEF Destruct
<1>2. /\ Together' /\ Fresh' /\ Known' /\ Alone' /\ FreedOnce'
      /\ freed' \in [Objects -> [Arrays -> Nat]]
      /\ C' = C /\ Arrays' = Arrays /\ (Counting' <=> Counting)
      /\ Allocated' = Allocated
      /\ \A a \in Allocated : Held(a)' <=> Held(a) /\ a # Own(o)
      /\ CallsBalance'
      /\ \A x \in Objects \ {o} : (life'[x] = "dead" /\ Own(x)' # Null => FoundWhole(x)')
                                   <=> (life[x] = "dead" /\ Own(x) # Null => FoundWhole(x))
      /\ life'[o] = "dead" /\ Own(o)' = Own(o) /\ (FoundWhole(o)' <=> FoundWhole(o))
  BY <1>1, Releases
<1>3. LifeType'
  <2>1. bound' \in Nat
    BY DEF Destruct, Unlink, LifeInv, LifeType
  <2>2. life' \in [Objects -> {"none", "alive", "dead"}]
    BY <1>1 DEF LifeInv, LifeType
  <2>3. UNCHANGED <<class, ptr, stored, permits, getting, putting, heir, created, kernel>>
    BY <1>1 DEF counts
  <2> QED BY <1>2, <2>1, <2>2, <2>3 DEF LifeInv, LifeType
<1>4. DeletedWhole'
  <2> SUFFICES ASSUME Counting, Own(o) # Null PROVE FoundWhole(o)
    BY <1>2 DEF LifeInv, DeletedWhole
  <2>1. Waited(o) /\ (C.full \/ putting[o] = 0)
    BY <1>1 DEF Destruct, Owns, Own
  <2>2. Balanced(o) /\ C.counts \in {"permits", "ring"} /\ (C.full => Whole = Capacity)
    BY TheClass DEF LifeInv, CallsBalance, ClassFacts, Counting, Whole
  <2>3. /\ stored[o] \in 0 .. Capacity /\ permits[o] \in Nat
        /\ getting[o] \in Nat /\ putting[o] \in Nat /\ Whole \in Nat
    BY TheClass DEF LifeInv, LifeType, ClassFacts
  <2>4. CASE C.counts = "permits"
    <3>1. stored[o] = Whole + getting[o] + putting[o]
      BY <2>1, <2>2, <2>3, <2>4 DEF Waited, Balanced
    <3>2. putting[o] = 0 /\ (C.full => getting[o] = 0)
      BY <2>1, <2>2, <2>3, <3>1, LifeConsts
    <3> QED BY <2>3, <3>1, <3>2 DEF FoundWhole
  <2>5. CASE C.counts = "ring"
    BY <2>1, <2>2, <2>3, <2>5 DEF Waited, Balanced, FoundWhole
  <2> QED BY <2>2, <2>4, <2>5
<1>5. Shared'
  <2> SUFFICES ASSUME C.named PROVE Shared'
    BY <1>2 DEF Shared
  <2>1. CASE Owns(o)
    <3>1. bound' = 0 /\ parted' = Allocated
      BY <2>1 DEF Destruct, Unlink
    <3> QED BY <1>1, <1>2, <3>1 DEF LifeInv, Shared
  <2>2. CASE ~Owns(o)
    <3>1. UNCHANGED <<bound, parted>> /\ Own(o) \notin Allocated
      BY <1>1, <2>2, LifeConsts DEF Destruct, Owns, Own, Allocated
    <3> QED BY <1>1, <1>2, <3>1 DEF LifeInv, Shared
  <2> QED BY <2>1, <2>2
<1> QED BY <1>2, <1>3, <1>4, <1>5 DEF LifeInv

LEMMA ExitInv == ASSUME LifeInv, NEW o \in Objects, Exit(o) PROVE LifeInv'
<1>1. /\ life[o] = "alive" /\ life' = [life EXCEPT ![o] = "dead"] /\ abandoned'
      /\ UNCHANGED <<class, ptr, counts, heir, bound, created, kernel, parted>>
      /\ IF Owns(o) THEN Delete(o) ELSE freed' = freed
      /\ C.named
  BY DEF Exit, Owns
<1>2. /\ Together' /\ Fresh' /\ Known' /\ Alone' /\ FreedOnce'
      /\ freed' \in [Objects -> [Arrays -> Nat]]
      /\ C' = C /\ Arrays' = Arrays /\ (Counting' <=> Counting)
      /\ Allocated' = Allocated
      /\ \A a \in Allocated : Held(a)' <=> Held(a) /\ a # Own(o)
      /\ CallsBalance'
      /\ \A x \in Objects \ {o} : (life'[x] = "dead" /\ Own(x)' # Null => FoundWhole(x)')
                                   <=> (life[x] = "dead" /\ Own(x) # Null => FoundWhole(x))
      /\ life'[o] = "dead" /\ Own(o)' = Own(o) /\ (FoundWhole(o)' <=> FoundWhole(o))
  BY <1>1, Releases
<1>3. LifeType'
  BY <1>1, <1>2 DEF LifeInv, LifeType, counts
<1>4. DeletedWhole'
  BY <1>1, <1>2, TheClass DEF LifeInv, DeletedWhole, ClassFacts
<1>5. Shared'
  BY <1>1, <1>2 DEF LifeInv, Shared
<1> QED BY <1>2, <1>3, <1>4, <1>5 DEF LifeInv

(* Steps that leave the arrays where they are. *)
ArraysUntouched == /\ UNCHANGED <<class, ptr, freed, heir, kernel>>
                   /\ \A x \in Objects : \/ life'[x] = life[x]
                                         \/ life[x] = "none" /\ life'[x] = "dead"

ArraysStay ==
    /\ Together' /\ Fresh' /\ Known' /\ Alone' /\ FreedOnce'
    /\ C' = C /\ Arrays' = Arrays /\ (Counting' <=> Counting)
    /\ Allocated' = Allocated /\ \A a \in Allocated : Held(a)' <=> Held(a)

LEMMA StillOwned ==
    ASSUME LifeInv, ArraysUntouched PROVE ArraysStay
<1>c. ClassFacts /\ C' = C /\ Arrays' = Arrays /\ (Counting' <=> Counting) /\ class' = class
  BY SameClass, TheClass DEF LifeInv, ArraysUntouched
<1>1. \A x \in Objects : Own(x)' = Own(x) /\ (life'[x] = "alive" <=> life[x] = "alive")
  BY <1>c DEF Own, ArraysUntouched
<1>2. Allocated' = Allocated
  BY DEF Allocated, ArraysUntouched
<1>3. \A a \in Allocated : Held(a)' <=> Held(a)
  BY <1>1 DEF Held, Holding
<1>4. Together' /\ Fresh'
  BY <1>1, <1>c DEF LifeInv, ArraysUntouched, Together, Fresh
<1>5. Known' /\ Alone'
  BY <1>1, <1>2, <1>c DEF LifeInv, ArraysUntouched, Known, Alone
<1>6. FreedOnce'
  BY <1>2, <1>3, <1>c DEF LifeInv, ArraysUntouched, FreedOnce
<1> QED BY <1>2, <1>3, <1>4, <1>5, <1>6, <1>c DEF ArraysStay

LEMMA OpenFailsInv == ASSUME LifeInv, NEW o \in Objects, OpenFails(o) PROVE LifeInv'
<1>1. /\ life[o] = "none" /\ life' = [life EXCEPT ![o] = "dead"] /\ abandoned' /\ Lookup
      /\ UNCHANGED <<class, ptr, stored, permits, getting, putting, freed, heir, kernel, parted>>
      /\ class = "posix_shm"
  BY DEF OpenFails, counts
<1>2. ArraysStay
  <2>1. \A x \in Objects : \/ life'[x] = life[x]
                           \/ life[x] = "none" /\ life'[x] = "dead"
    BY <1>1 DEF LifeInv, LifeType
  <2>2. ArraysUntouched
    BY <1>1, <2>1 DEF ArraysUntouched
  <2> QED BY <2>2, StillOwned
<1>3. LifeType'
  BY <1>1, <1>2 DEF ArraysStay, LifeInv, LifeType, Lookup
<1>4. CallsBalance' /\ DeletedWhole'
  <2>1. ~Counting
    BY <1>1, TheClass DEF LifeInv, ClassFacts
  <2> QED BY <1>1, <1>2, <2>1 DEF ArraysStay, LifeInv, LifeType, CallsBalance, DeletedWhole
<1>5. Shared'
  <2>1. bound' # 0 /\ (bound # 0 => bound' = bound)
    BY <1>1 DEF Lookup, LifeInv, LifeType
  <2> QED BY <1>1, <1>2, <2>1 DEF ArraysStay, LifeInv, Shared
<1> QED BY <1>2, <1>3, <1>4, <1>5 DEF ArraysStay, LifeInv

(* The steps of get and put: one element, one permit or one call more or   *)
(* less, and the sum stays.                                                *)
LEMMA CountInv ==
    ASSUME LifeInv, NEW o \in Objects, TakePermit(o) \/ Get(o) \/ Put(o) \/ Post(o)
    PROVE  LifeInv'
<1>1. /\ UNCHANGED <<class, life, ptr, freed, heir, bound, created, kernel, parted, abandoned>>
      /\ life[o] = "alive"
  BY DEF TakePermit, Get, Put, Post, names, Owns
<1>2. ArraysStay
  <2>1. \A x \in Objects : \/ life'[x] = life[x]
                           \/ life[x] = "none" /\ life'[x] = "dead"
    BY <1>1
  <2>2. ArraysUntouched
    BY <1>1, <2>1 DEF ArraysUntouched
  <2> QED BY <2>2, StillOwned
<1>3. /\ stored[o] \in 0 .. Capacity /\ permits[o] \in Nat
      /\ getting[o] \in Nat /\ putting[o] \in Nat
  BY DEF LifeInv, LifeType
<1>4. \A x \in Objects \ {o} : /\ stored'[x] = stored[x] /\ permits'[x] = permits[x]
                               /\ getting'[x] = getting[x] /\ putting'[x] = putting[x]
  BY DEF TakePermit, Get, Put, Post, LifeInv, LifeType
<1>5. /\ stored'[o] \in 0 .. Capacity /\ permits'[o] \in Nat
      /\ getting'[o] \in Nat /\ putting'[o] \in Nat
      /\ Counting => Balanced(o)'
  <2>1. C' = C /\ (Counting => Balanced(o))
    BY <1>1, SameClass DEF LifeInv, CallsBalance
  <2>2. CASE TakePermit(o)
    <3>1. /\ C.counts = "permits" /\ permits[o] > 0 /\ UNCHANGED <<stored, putting>>
          /\ permits'[o] = permits[o] - 1 /\ getting'[o] = getting[o] + 1
      BY <2>2 DEF TakePermit, LifeInv, LifeType
    <3>2. stored[o] = permits[o] + getting[o] + putting[o]
      BY <2>1, <3>1 DEF Balanced, Counting
    <3> QED BY <1>3, <2>1, <3>1, <3>2 DEF Balanced
  <2>3. CASE Get(o)
    <3>1. /\ Counting /\ stored[o] > 0 /\ stored'[o] = stored[o] - 1
          /\ UNCHANGED <<permits, putting>>
          /\ \/ C.counts = "ring" /\ getting' = getting
             \/ C.counts # "ring" /\ getting[o] > 0 /\ getting'[o] = getting[o] - 1
      BY <2>3 DEF Get, LifeInv, LifeType
    <3>2. C.counts \in {"permits", "ring"}
      BY <3>1, TheClass DEF LifeInv, ClassFacts, Counting
    <3>3. CASE C.counts = "ring"
      BY <1>3, <2>1, <3>1, <3>3, LifeConsts DEF Balanced
    <3>4. CASE C.counts = "permits"
      <4>1. stored[o] = permits[o] + getting[o] + putting[o]
        BY <2>1, <3>1, <3>4 DEF Balanced
      <4>2. getting[o] > 0 /\ getting'[o] = getting[o] - 1
        BY <3>1, <3>4
      <4> QED BY <1>3, <2>1, <3>1, <3>4, <4>1, <4>2, LifeConsts DEF Balanced
    <3> QED BY <3>2, <3>3, <3>4
  <2>4. CASE Put(o)
    <3>1. /\ Counting /\ stored[o] < Capacity /\ stored'[o] = stored[o] + 1
          /\ UNCHANGED <<permits, getting>>
          /\ \/ C.counts = "ring" /\ putting' = putting
             \/ C.counts # "ring" /\ putting'[o] = putting[o] + 1
      BY <2>4 DEF Put, LifeInv, LifeType
    <3>2. C.counts \in {"permits", "ring"}
      BY <3>1, TheClass DEF LifeInv, ClassFacts, Counting
    <3>3. CASE C.counts = "ring"
      BY <1>3, <2>1, <3>1, <3>3, LifeConsts DEF Balanced
    <3>4. CASE C.counts = "permits"
      <4>1. stored[o] = permits[o] + getting[o] + putting[o]
        BY <2>1, <3>1, <3>4 DEF Balanced
      <4>2. putting'[o] = putting[o] + 1
        BY <3>1, <3>4
      <4> QED BY <1>3, <2>1, <3>1, <3>4, <4>1, <4>2, LifeConsts DEF Balanced
    <3> QED BY <3>2, <3>3, <3>4
  <2>5. CASE Post(o)
    <3>1. /\ putting[o] > 0 /\ UNCHANGED <<stored, getting>>
          /\ permits'[o] = permits[o] + 1 /\ putting'[o] = putting[o] - 1
      BY <2>5 DEF Post, LifeInv, LifeType
    <3>2. Counting => C.counts = "permits"
      BY <2>1, <3>1 DEF Balanced
    <3> QED BY <1>3, <2>1, <3>1, <3>2 DEF Balanced
  <2> QED BY <2>2, <2>3, <2>4, <2>5
<1>6. \A x \in Objects \ {o} : (Balanced(x)' <=> Balanced(x)) /\ (FoundWhole(x)' <=> FoundWhole(x))
  BY <1>1, <1>4, CountsStay
<1>7. LifeType'
  <2>1. \A x \in Objects : /\ stored'[x] \in 0 .. Capacity /\ permits'[x] \in Nat
                           /\ getting'[x] \in Nat /\ putting'[x] \in Nat
    BY <1>4, <1>5 DEF LifeInv, LifeType
  <2>2. /\ stored' = [x \in Objects |-> stored'[x]] /\ permits' = [x \in Objects |-> permits'[x]]
        /\ getting' = [x \in Objects |-> getting'[x]] /\ putting' = [x \in Objects |-> putting'[x]]
    BY DEF TakePermit, Get, Put, Post, LifeInv, LifeType
  <2>3. /\ stored' \in [Objects -> 0 .. Capacity] /\ permits' \in [Objects -> Nat]
        /\ getting' \in [Objects -> Nat] /\ putting' \in [Objects -> Nat]
    BY <2>1, <2>2
  <2> QED BY <1>1, <1>2, <2>3 DEF ArraysStay, LifeInv, LifeType
<1>8. CallsBalance'
  BY <1>1, <1>2, <1>4, <1>5, <1>6 DEF ArraysStay, LifeInv, CallsBalance
<1>9. DeletedWhole'
  BY <1>1, <1>2, <1>6 DEF ArraysStay, LifeInv, DeletedWhole, Own
<1>10. Shared'
  BY <1>1, <1>2 DEF ArraysStay, LifeInv, Shared
<1> QED BY <1>2, <1>7, <1>8, <1>9, <1>10 DEF ArraysStay, LifeInv

LEMMA LifeStutterInv == ASSUME LifeInv, UNCHANGED lifeVars PROVE LifeInv'
<1>1. UNCHANGED <<class, life, ptr, stored, permits, getting, putting, freed, heir,
                  bound, created, kernel, parted, abandoned>>
  BY DEF lifeVars, counts, names
<1>2. ArraysStay
  <2>1. \A x \in Objects : \/ life'[x] = life[x]
                           \/ life[x] = "none" /\ life'[x] = "dead"
    BY <1>1
  <2>2. ArraysUntouched
    BY <1>1, <2>1 DEF ArraysUntouched
  <2> QED BY <2>2, StillOwned
<1>3. LifeType' /\ Shared'
  BY <1>1, <1>2 DEF ArraysStay, LifeInv, LifeType, Shared
<1>4. CallsBalance' /\ DeletedWhole'
  <2>1. \A x \in Objects : (Balanced(x)' <=> Balanced(x)) /\ (FoundWhole(x)' <=> FoundWhole(x))
    BY <1>1, CountsStay
  <2> QED BY <1>1, <1>2, <2>1 DEF ArraysStay, LifeInv, CallsBalance, DeletedWhole, Own
<1> QED BY <1>2, <1>3, <1>4 DEF ArraysStay, LifeInv

LEMMA LifeInvariance == LifeSpec => []LifeInv
<1>1. LifeInv /\ [LifeNext]_lifeVars => LifeInv'
  BY ConstructInv, OpenFailsInv, CountInv, DestructInv, ExitInv, MoveInv, LifeStutterInv
     DEF LifeNext
<1> QED BY LifeInitInv, <1>1, PTL DEF LifeSpec

(* However many objects are constructed, moved (also from what was moved   *)
(* before) and destroyed in whatever order, every array is deleted once,   *)
(* all arrays of an allocation by the same object; for every class.        *)
THEOREM DeletedOnce == LifeSpec => []ReleasedOnce
<1>1. LifeInv => ReleasedOnce
  <2> SUFFICES ASSUME LifeInv, NEW a \in Allocated, NEW f \in Arrays
               PROVE  /\ Cardinality(Holders(a, f)) + freed[a][f] = 1
                      /\ Holders(a, f) = Holders(a, C.guard)
                      /\ Holders(a, f) \subseteq {heir[a]} \/ class = "datahandle"
                      /\ C.reported[f] <= C.allocated[f] \/ class = "mpsc_atomic"
    BY DEF ReleasedOnce
  <2>1. ClassFacts /\ a # Null
    BY TheClass, LifeConsts DEF LifeInv, Allocated
  <2>2. \A g \in Arrays : Holders(a, g) = {o \in Objects : Holding(o, a)}
    BY DEF LifeInv, Together, Holders, Holding
  <2>3. Holders(a, f) = Holders(a, C.guard)
    BY <2>1, <2>2 DEF ClassFacts
  <2>4. Cardinality(Holders(a, f)) + freed[a][f] = 1
    <3>1. CASE Held(a)
      <4>1. PICK o \in Objects : Holding(o, a)
        BY <3>1 DEF Held
      <4>2. Holders(a, f) = {o}
        BY <2>1, <2>2, <4>1 DEF LifeInv, Alone, Holding
      <4>3. freed[a][f] = 0 /\ Cardinality({o}) = 1
        BY <3>1, FS_Singleton DEF LifeInv, FreedOnce
      <4> QED BY <4>2, <4>3
    <3>2. CASE ~Held(a)
      <4>1. Holders(a, f) = {}
        BY <2>2, <3>2 DEF Held
      <4>2. freed[a][f] = 1 /\ Cardinality({}) = 0
        BY <3>2, FS_EmptySet DEF LifeInv, FreedOnce
      <4> QED BY <4>1, <4>2
    <3> QED BY <3>1, <3>2
  <2>5. Holders(a, f) \subseteq {heir[a]} \/ class = "datahandle"
    BY <2>1, <2>2 DEF LifeInv, Known, Holding
  <2> QED BY <2>1, <2>3, <2>4, <2>5 DEF ClassFacts
<1> QED BY LifeInvariance, <1>1, PTL

(* Whatever is moved, however many calls are under way: the destructor's   *)
(* loop ends for an object that is complete and idle; the arrays of a pool *)
(* are deleted with all elements back and no call under way, those of a    *)
(* queue when what is still in them belongs to gets that have a permit.    *)
THEOREM WaitsRightly == LifeSpec => []WaitsRight
<1>1. LifeInv => WaitsRight
  <2> SUFFICES ASSUME LifeInv, Counting, NEW o \in Objects
               PROVE  /\ Owns(o) /\ stored[o] = Whole /\ ~InUse(o) => Waited(o)
                      /\ life[o] = "dead" /\ ptr[o][C.guard] # Null => FoundWhole(o)
    BY DEF WaitsRight, FoundWhole
  <2>1. life[o] = "dead" /\ ptr[o][C.guard] # Null => FoundWhole(o)
    BY DEF LifeInv, DeletedWhole, Own
  <2>2. ASSUME stored[o] = Whole, ~InUse(o) PROVE Waited(o)
    <3>1. /\ getting[o] = 0 /\ putting[o] = 0 /\ permits[o] \in Nat
      <4>1. getting[o] \in Nat /\ putting[o] \in Nat /\ permits[o] \in Nat
        BY DEF LifeInv, LifeType
      <4> QED BY <2>2, <4>1 DEF InUse
    <3>2. Balanced(o)
      BY DEF LifeInv, CallsBalance
    <3> QED BY <2>2, <3>1, <3>2 DEF Balanced, Waited
  <2> QED BY <2>1, <2>2
<1> QED BY <1>1, LifeInvariance, PTL

(* Any number of processes with the name open share one kernel object      *)
(* until one of them unlinks it, and a name nobody has open is left over   *)
(* only by a process that ended without its destructor.                    *)
THEOREM AlwaysShared == LifeSpec => []SharedUntilLeft
<1>1. LifeInv => SharedUntilLeft
  <2> SUFFICES ASSUME LifeInv, C.named PROVE SharedUntilLeft
    BY DEF SharedUntilLeft
  <2>1. \A a \in Allocated : Holders(a, C.guard) # {} <=> Held(a)
    BY DEF Holders, Held, Holding, Own
  <2> QED BY <2>1 DEF LifeInv, Shared, SharedUntilLeft
<1> QED BY LifeInvariance, <1>1, PTL
-----------------------------------------------------------------------------
(***************************************************************************)
(* The polling pool.                                                       *)
(***************************************************************************)

(* The slots whose work request is nobody's: those in the ring, and the    *)
(* one that put has stored and not yet published.                          *)
Filled(i) == InRing(i) \/ (pcP = "publish" /\ i = rear)

Publishing == IF pcP = "publish" THEN 1 ELSE 0

(* The indices and the callers agree; what the getter believes lags behind. *)
Indices == /\ Size + Cardinality(held) + Publishing = Elenum
           /\ Dist(front, seen, Rqnum) <= Size
           /\ pcC \in {"take", "clear", "advance"} => seen # front
           /\ pcC = "freed" => Size = Elenum

(* Each filled slot has a work request of its own, which nobody holds, and *)
(* no work request is anywhere else.                                       *)
Contents == /\ \A i \in Slots : Filled(i) => Content(i) \in Wrs \ held
            /\ \A i, j \in Slots :
                  Filled(i) /\ Filled(j) /\ Content(i) = Content(j) => i = j
            /\ \A w \in Wrs \ held : \E i \in Slots : Filled(i) /\ Content(i) = w

ReadFront == pcC = "clear" => temp = ringqueue[front]

PollInv == TypeOK /\ Indices /\ Contents /\ ReadFront
-----------------------------------------------------------------------------
LEMMA PollHeld == ASSUME NEW S \in SUBSET Wrs
                   PROVE  /\ IsFiniteSet(S) /\ Cardinality(S) \in Nat
                          /\ \A w \in Wrs \ S : Cardinality(S \union {w}) = Cardinality(S) + 1
                          /\ \A w \in S : Cardinality(S \ {w}) = Cardinality(S) - 1
<1>1. IsFiniteSet(Wrs)
  BY PoolAssumption, FS_Interval DEF Wrs
<1>2. IsFiniteSet(S) /\ Cardinality(S) \in Nat
  BY <1>1, FS_Subset, FS_CardinalityType
<1>3. ASSUME NEW w \in Wrs \ S PROVE Cardinality(S \union {w}) = Cardinality(S) + 1
  BY <1>2, FS_AddElement
<1>4. ASSUME NEW w \in S PROVE Cardinality(S \ {w}) = Cardinality(S) - 1
  BY <1>2, FS_RemoveElement
<1> QED BY <1>2, <1>3, <1>4

(* What the arithmetic needs to know. *)
Ranges == /\ Rqnum \in Nat \ {0} /\ Slots = 0 .. Rqnum - 1 /\ Rqnum = Elenum + 1
          /\ Elenum \in Nat \ {0}
          /\ front \in Slots /\ rear \in Slots /\ seen \in Slots
          /\ Size \in 0 .. Elenum
          /\ Cardinality(held) \in Nat /\ held \in SUBSET Wrs
          /\ Size + Cardinality(held) + Publishing = Elenum
          /\ rear = Ahead(front, Size, Rqnum)

LEMMA InRanges == ASSUME TypeOK, Size + Cardinality(held) + Publishing = Elenum
                  PROVE  Ranges
<1>1. /\ Rqnum \in Nat \ {0} /\ Slots = 0 .. Rqnum - 1 /\ Rqnum = Elenum + 1
      /\ Elenum \in Nat \ {0}
  BY PoolAssumption, TryAssumption DEF Rqnum, Slots
<1>2. front \in Slots /\ rear \in Slots /\ seen \in Slots /\ held \in SUBSET Wrs
  BY DEF TypeOK, GetterTypeOK
<1>3. Size \in 0 .. Rqnum - 1
  BY <1>1, <1>2, DistRange DEF Size
<1>4. rear = Ahead(front, Size, Rqnum)
  BY <1>1, <1>2, <1>3, DistAhead DEF Size
<1>5. Cardinality(held) \in Nat
  BY <1>2, PollHeld
<1> QED BY <1>1, <1>2, <1>3, <1>4, <1>5 DEF Ranges

LEMMA PollInit == Init => PollInv
<1> SUFFICES ASSUME Init PROVE PollInv
  OBVIOUS
<1>1. /\ Elenum \in Nat \ {0} /\ GetTryNum \in Nat \ {0} /\ Nullptr \notin Wrs
      /\ Rqnum = Elenum + 1
  BY PoolAssumption, TryAssumption DEF Rqnum
<1>2. /\ front = 0 /\ rear = Elenum /\ seen = 0 /\ pcC = "idle" /\ pcP = "idle" /\ held = {}
      /\ ringqueue = [i \in Slots |-> IF i < Elenum THEN i ELSE Nullptr]
      /\ temp = Nullptr /\ op = "get" /\ tries = 0 /\ exit = "no"
  BY DEF Init, GetterInit
<1>3. TypeOK
  BY <1>1, <1>2 DEF TypeOK, GetterTypeOK, Slots, Wrs
<1>4. Size = Elenum /\ Dist(front, seen, Rqnum) = 0 /\ Publishing = 0
  BY <1>1, <1>2 DEF Size, Dist, Publishing
<1>5. Indices
  BY <1>1, <1>2, <1>4, FS_EmptySet DEF Indices
<1>6. \A i \in Slots : (Filled(i) <=> i \in Wrs) /\ (i \in Wrs => Content(i) = i)
  BY <1>1, <1>2, <1>4 DEF Filled, InRing, Dist, Slots, Wrs, Content
<1>7. Wrs \subseteq Slots
  BY <1>1 DEF Wrs, Slots
<1>8. Contents
  BY <1>2, <1>6, <1>7 DEF Contents
<1> QED BY <1>2, <1>3, <1>5, <1>8 DEF PollInv, ReadFront
-----------------------------------------------------------------------------
(* A step that leaves the filled slots and the callers' holdings alone.    *)
LEMMA ContentsKept ==
    ASSUME Contents, held' = held,
           \A i \in Slots : /\ Filled(i)' <=> Filled(i)
                            /\ Filled(i) => Content(i)' = Content(i)
    PROVE  Contents'
BY DEF Contents

(* Steps of the getter before it has a work request, and of the destructor. *)
LEMMA PollWaits ==
    ASSUME PollInv, UNCHANGED <<front, ringVars>>, pcC \in {"idle", "wait", "dtor"},
           pcC' \in {"idle", "wait", "take", "dtor", "freed"},
           seen' \in {seen, rear}, pcC' = "take" => seen' # front,
           pcC' = "freed" => Size = Elenum,
           op' \in {"get", "tryget", "timeget"}, tries' \in 0 .. GetTryNum,
           exit' \in {"no", "too_small"}
    PROVE  PollInv'
<1>1. TypeOK /\ Indices /\ Contents
  BY DEF PollInv
<1>2. UNCHANGED <<front, rear, ringqueue, temp, pcP, held>>
  BY DEF ringVars
<1>3. TypeOK'
  BY <1>1, <1>2 DEF TypeOK, GetterTypeOK
<1>4. Size' = Size /\ Publishing' = Publishing
  BY <1>2 DEF Size, Publishing
<1>5. Indices'
  <2>1. Dist(front, seen', Rqnum) <= Size
    <3>1. Size <= Size
      BY <1>1, InRanges DEF Indices, Ranges
    <3> QED BY <1>1, <3>1 DEF Indices, Size
  <2> QED BY <1>1, <1>2, <1>4, <2>1 DEF Indices
<1>6. \A i \in Slots : (Filled(i)' <=> Filled(i)) /\ Content(i)' = Content(i)
  BY <1>2, <1>4 DEF Filled, InRing, Content
<1>7. Contents'
  BY <1>1, <1>2, <1>6, ContentsKept
<1> QED BY <1>3, <1>5, <1>7 DEF PollInv, ReadFront

LEMMA PollReads == ASSUME PollInv, GetRead PROVE PollInv'
<1>1. TypeOK /\ Indices /\ Contents
  BY DEF PollInv
<1>2. /\ pcC = "take" /\ pcC' = "clear" /\ temp' = ringqueue[front]
      /\ UNCHANGED <<front, rear, ringqueue, pcP, held, op, seen, tries, exit>>
  BY DEF GetRead, Step
<1>3. TypeOK'
  BY <1>1, <1>2 DEF TypeOK, GetterTypeOK
<1>4. Size' = Size /\ Publishing' = Publishing
  BY <1>2 DEF Size, Publishing
<1>5. Indices'
  BY <1>1, <1>2, <1>4 DEF Indices
<1>6. \A i \in Slots : (Filled(i)' <=> Filled(i)) /\ Content(i)' = Content(i)
  BY <1>2, <1>4 DEF Filled, InRing, Content
<1>7. Contents'
  BY <1>1, <1>2, <1>6, ContentsKept
<1> QED BY <1>2, <1>3, <1>5, <1>7 DEF PollInv, ReadFront

LEMMA PollClears == ASSUME PollInv, GetClear PROVE PollInv'
<1>1. TypeOK /\ Indices /\ Contents /\ ReadFront
  BY DEF PollInv
<1>2. /\ pcC = "clear" /\ pcC' = "advance"
      /\ ringqueue' = [ringqueue EXCEPT ![front] = Nullptr]
      /\ UNCHANGED <<front, rear, temp, pcP, held, op, seen, tries, exit>>
  BY DEF GetClear, Step
<1>3. TypeOK'
  BY <1>1, <1>2 DEF TypeOK, GetterTypeOK
<1>4. Size' = Size /\ Publishing' = Publishing
  BY <1>2 DEF Size, Publishing
<1>5. Indices'
  BY <1>1, <1>2, <1>4 DEF Indices
<1>6. \A i \in Slots : (Filled(i)' <=> Filled(i)) /\ Content(i)' = Content(i)
  BY <1>1, <1>2, <1>4 DEF Filled, InRing, Content, TypeOK, ReadFront
<1>7. Contents'
  BY <1>1, <1>2, <1>6, ContentsKept
<1> QED BY <1>2, <1>3, <1>5, <1>7 DEF PollInv, ReadFront

(* get hands over the work request it has cleared, and moves front on.     *)
LEMMA PollHands == ASSUME PollInv, GetReturn
               PROVE  /\ PollInv' /\ Size > 0 /\ Size' = Size - 1
                      /\ \A i \in Slots \ {front} : Content(i)' = Content(i)
                      /\ temp = Content(front)
<1>1. TypeOK /\ Indices /\ Contents /\ Ranges
  BY InRanges DEF PollInv, Indices
<1>2. /\ pcC = "advance" /\ pcC' = "idle" /\ front' = Succ(front, Rqnum)
      /\ held' = held \union {temp} /\ temp' = Nullptr
      /\ UNCHANGED <<rear, ringqueue, pcP, op, seen, tries, exit>>
  BY DEF GetReturn, Step
<1>3. front \in 0 .. Rqnum - 1 /\ seen \in 0 .. Rqnum - 1 /\ rear \in 0 .. Rqnum - 1
      /\ Rqnum \in Nat \ {0} /\ seen # front
  BY <1>1, <1>2 DEF Ranges, Indices
<1>4. Dist(front, seen, Rqnum) \in 1 .. Rqnum - 1
  <2>1. Dist(front, seen, Rqnum) \in 0 .. Rqnum - 1
    BY <1>3, DistRange
  <2>2. Dist(front, seen, Rqnum) # 0
    BY <1>3 DEF Dist
  <2> QED BY <2>1, <2>2, <1>3
<1>5. Size > 0
  BY <1>1, <1>3, <1>4 DEF Indices, Ranges
<1>6. front # rear
  BY <1>3, <1>5, DistSelf DEF Size
<1>7. /\ front' \in Slots /\ Size' = Size - 1 /\ Publishing' = Publishing
      /\ Dist(front', seen, Rqnum) = Dist(front, seen, Rqnum) - 1
  BY <1>1, <1>2, <1>3, <1>6, SuccType, DistSucc
     DEF Size, Publishing, Ranges
<1>8. /\ temp = Content(front) /\ Filled(front)
      /\ \A i \in Slots \ {front} : Content(i)' = Content(i)
  <2>1. Dist(front, front, Rqnum) = 0
    BY <1>3, DistSelf
  <2> QED BY <1>2, <1>5, <2>1 DEF Content, Filled, InRing
<1>9. temp \in Wrs \ held
  BY <1>1, <1>8 DEF Contents, Ranges
<1>10. \A i \in Slots : Filled(i)' <=> Filled(i) /\ i # front
  <2> SUFFICES ASSUME NEW i \in Slots PROVE Filled(i)' <=> Filled(i) /\ i # front
    OBVIOUS
  <2>1. CASE i = front
    <3>1. Dist(front', i, Rqnum) = Rqnum - 1
      BY <1>2, <1>3, <2>1, DistLeft
    <3> QED BY <1>1, <1>2, <1>6, <1>7, <2>1, <3>1
       DEF Filled, InRing, Ranges
  <2>2. CASE i # front
    <3>1. Dist(front', i, Rqnum) = Dist(front, i, Rqnum) - 1
      BY <1>1, <1>2, <1>3, <2>2, DistSucc DEF Ranges
    <3>2. Dist(front, i, Rqnum) \in Int /\ Size \in Int
      BY <1>1, <1>3, DistRange DEF Ranges
    <3>3. InRing(i)' <=> InRing(i)
      BY <1>7, <3>1, <3>2 DEF InRing
    <3> QED BY <1>2, <2>2, <3>3 DEF Filled
  <2> QED BY <2>1, <2>2
<1>11. TypeOK'
  BY <1>1, <1>2, <1>7, <1>9 DEF TypeOK, GetterTypeOK
<1>12. Indices'
  <2>1. Cardinality(held') = Cardinality(held) + 1
    BY <1>1, <1>2, <1>9, PollHeld DEF Ranges
  <2>2. Publishing \in Int
    BY DEF Publishing
  <2>3. Size' + Cardinality(held') + Publishing' = Elenum
    BY <1>1, <1>7, <2>1, <2>2 DEF Ranges
  <2>4. Dist(front', seen', Rqnum) <= Size'
    BY <1>1, <1>2, <1>4, <1>7 DEF Indices, Ranges
  <2> QED BY <1>2, <2>3, <2>4 DEF Indices
<1>13. Contents'
  <2>1. ASSUME NEW i \in Slots, Filled(i)' PROVE Content(i)' \in Wrs \ held'
    <3>1. Filled(i) /\ i # front /\ Content(i)' = Content(i)
      BY <1>8, <1>10, <2>1
    <3>2. Content(i) \in Wrs \ held /\ Content(i) # temp
      BY <1>1, <1>8, <3>1, Zenon DEF Contents, Ranges
    <3> QED BY <1>2, <3>1, <3>2
  <2>2. \A i, j \in Slots :
           Filled(i)' /\ Filled(j)' /\ Content(i)' = Content(j)' => i = j
    BY <1>1, <1>8, <1>10, Zenon DEF Contents
  <2>3. ASSUME NEW w \in Wrs \ held'
        PROVE  \E i \in Slots : Filled(i)' /\ Content(i)' = w
    <3>1. PICK i \in Slots : Filled(i) /\ Content(i) = w
      BY <1>1, <1>2, <2>3 DEF Contents
    <3>2. i # front
      BY <1>2, <1>8, <2>3, <3>1
    <3> QED BY <1>8, <1>10, <3>1, <3>2
  <2> QED BY <2>1, <2>2, <2>3 DEF Contents
<1> QED BY <1>2, <1>5, <1>7, <1>8, <1>11, <1>12, <1>13 DEF PollInv, ReadFront

(* put stores a work request in the empty slot at rear.                    *)
LEMMA PollStores == ASSUME PollInv, PutStore PROVE PollInv'
<1>1. TypeOK /\ Indices /\ Contents /\ Ranges /\ ReadFront
  BY InRanges DEF PollInv, Indices
<1>2. PICK e \in held : ringqueue' = [ringqueue EXCEPT ![rear] = e] /\ held' = held \ {e}
  BY DEF PutStore
<1>3. /\ pcP = "idle" /\ pcP' = "publish"
      /\ UNCHANGED <<front, rear, temp, pcC, op, seen, tries, exit>>
  BY DEF PutStore, getterVars
<1>4. e \in Wrs /\ Cardinality(held') = Cardinality(held) - 1 /\ held' \in SUBSET Wrs
  BY <1>1, <1>2, PollHeld DEF Ranges
<1>5. Size' = Size /\ Publishing = 0 /\ Publishing' = 1
  BY <1>3 DEF Size, Publishing
<1>6. /\ \A i \in Slots : (Filled(i)' <=> Filled(i) \/ i = rear)
      /\ ~Filled(rear)
  <2>1. ~InRing(rear)
    BY <1>1 DEF InRing, Size, Ranges
  <2>2. \A i \in Slots : InRing(i)' <=> InRing(i)
    BY <1>3, <1>5 DEF InRing
  <2> QED BY <1>3, <2>1, <2>2 DEF Filled
<1>7. /\ \A i \in Slots : i = rear => Content(i)' = e
      /\ \A i \in Slots \ {rear} : Content(i)' = Content(i)
      /\ pcC = "clear" => front # rear
  <2>1. pcC \in {"clear", "advance"} => front # rear
    <3> SUFFICES ASSUME pcC \in {"clear", "advance"}, front = rear PROVE FALSE
      OBVIOUS
    <3>1. Size = 0 /\ seen # front /\ Dist(front, seen, Rqnum) <= Size
      BY <1>1, DistSelf DEF Indices, Ranges, Size
    <3>2. Dist(front, seen, Rqnum) \in 0 .. Rqnum - 1
      BY <1>1, DistRange DEF Ranges
    <3> QED BY <1>1, <3>1, <3>2 DEF Ranges, Dist
  <2> QED BY <1>1, <1>2, <1>3, <2>1 DEF Content, TypeOK
<1>8. TypeOK'
  BY <1>1, <1>2, <1>3, <1>4 DEF TypeOK, GetterTypeOK
<1>9. Indices'
  <2>1. Cardinality(held) \in Int /\ Size \in Int
    BY <1>1 DEF Ranges
  <2>2. Size' + Cardinality(held') + Publishing' = Elenum
    BY <1>1, <1>4, <1>5, <2>1 DEF Ranges
  <2>3. pcC # "freed"
    <3>1. held # {} /\ Cardinality(held) # 0
      BY <1>1, <1>2, PollHeld, FS_EmptySet DEF Ranges
    <3> QED BY <1>1, <1>5, <2>1, <3>1 DEF Indices, Ranges
  <2> QED BY <1>1, <1>3, <1>5, <2>2, <2>3 DEF Indices
<1>10. Contents'
  <2>0. ASSUME NEW i \in Slots, Filled(i)', i # rear
        PROVE  Filled(i) /\ Content(i)' = Content(i) /\ Content(i) \in Wrs \ held
    <3>1. Filled(i) /\ Content(i)' = Content(i)
      BY <1>6, <1>7, <2>0
    <3> QED BY <1>1, <3>1 DEF Contents
  <2>1. ASSUME NEW i \in Slots, Filled(i)' PROVE Content(i)' \in Wrs \ held'
    <3>1. CASE i = rear
      BY <1>2, <1>4, <1>7, <3>1
    <3>2. CASE i # rear
      BY <1>2, <2>0, <2>1, <3>2
    <3> QED BY <3>1, <3>2
  <2>2. ASSUME NEW i \in Slots, NEW j \in Slots, Filled(i)', Filled(j)',
               Content(i)' = Content(j)'
        PROVE  i = j
    <3>1. CASE i # rear /\ j # rear
      BY <1>1, <2>0, <2>2, <3>1, Zenon DEF Contents
    <3>2. CASE i = rear /\ j # rear
      BY <1>2, <1>7, <2>0, <2>2, <3>2
    <3>3. CASE i # rear /\ j = rear
      BY <1>2, <1>7, <2>0, <2>2, <3>3
    <3> QED BY <3>1, <3>2, <3>3
  <2>3. ASSUME NEW w \in Wrs \ held'
        PROVE  \E i \in Slots : Filled(i)' /\ Content(i)' = w
    <3>1. CASE w = e
      <4>1. rear \in Slots
        BY <1>1 DEF Ranges
      <4> QED BY <1>6, <1>7, <3>1, <4>1
    <3>2. CASE w # e
      <4>1. PICK i \in Slots : Filled(i) /\ Content(i) = w
        BY <1>1, <1>2, <2>3, <3>2 DEF Contents
      <4> QED BY <1>6, <1>7, <4>1
    <3> QED BY <3>1, <3>2
  <2> QED BY <2>1, <2>2, <2>3 DEF Contents
<1> QED
  <2>1. ReadFront'
    BY <1>1, <1>2, <1>3, <1>7 DEF ReadFront, TypeOK
  <2> QED BY <1>8, <1>9, <1>10, <2>1 DEF PollInv

(* put publishes it.                                                       *)
LEMMA PollPublishes == ASSUME PollInv, PutPublish
                   PROVE  /\ PollInv' /\ Size' = Size + 1 /\ Size < Elenum
                          /\ \A i \in Slots : Content(i)' = Content(i)
                          /\ Content(rear) = ringqueue[rear] /\ Filled(rear)
<1>1. TypeOK /\ Indices /\ Contents /\ Ranges
  BY InRanges DEF PollInv, Indices
<1>2. /\ pcP = "publish" /\ pcP' = "idle" /\ rear' = Succ(rear, Rqnum)
      /\ UNCHANGED <<ringqueue, temp, held, front, pcC, op, seen, tries, exit>>
  BY DEF PutPublish, getterVars
<1>3. Publishing = 1 /\ Publishing' = 0
  BY <1>2 DEF Publishing
<1>4. Size < Elenum
  BY <1>1, <1>3 DEF Ranges
<1>5. rear' \in Slots /\ Size' = Size + 1
  <2>1. /\ front \in 0 .. Rqnum - 1 /\ rear \in 0 .. Rqnum - 1 /\ Rqnum \in Nat \ {0}
        /\ Size \in 0 .. Rqnum - 1 /\ Size + 1 \in 0 .. Rqnum - 1
    BY <1>1, <1>4 DEF Ranges
  <2>2. rear' \in 0 .. Rqnum - 1
    BY <1>2, <2>1, SuccType
  <2>3. rear' = Ahead(front, Size + 1, Rqnum)
    BY <1>1, <1>2, <2>1, AheadSucc DEF Ranges
  <2>4. Dist(front, rear', Rqnum) = Size + 1
    BY <2>1, <2>2, <2>3, DistAhead
  <2> QED BY <1>1, <1>2, <2>2, <2>4 DEF Size, Ranges
<1>6. TypeOK'
  BY <1>1, <1>2, <1>5 DEF TypeOK, GetterTypeOK
<1>7. Indices'
  <2>1. /\ Size \in Int /\ Cardinality(held) \in Int /\ Dist(front, seen, Rqnum) \in Int
        /\ Dist(front, seen, Rqnum) <= Size
    BY <1>1, DistRange DEF Ranges, Indices
  <2>2. Size' + Cardinality(held') + Publishing' = Elenum
    BY <1>1, <1>2, <1>3, <1>5, <2>1 DEF Ranges
  <2>3. Dist(front', seen', Rqnum) <= Size'
    BY <1>2, <1>5, <2>1
  <2>4. pcC # "freed"
    BY <1>1, <1>4, <2>1 DEF Indices, Ranges
  <2> QED BY <1>1, <1>2, <2>2, <2>3, <2>4 DEF Indices
<1>8. \A i \in Slots : (Filled(i)' <=> Filled(i)) /\ Content(i)' = Content(i)
  <2> SUFFICES ASSUME NEW i \in Slots
               PROVE  (Filled(i)' <=> Filled(i)) /\ Content(i)' = Content(i)
    OBVIOUS
  <2>1. InRing(i)' <=> InRing(i) \/ i = rear
    <3>1. Dist(front, i, Rqnum) \in Int /\ Size \in Int
      BY <1>1, DistRange DEF Ranges
    <3>2. Dist(front, i, Rqnum) = Size <=> i = rear
      <4>1. Size \in 0 .. Rqnum - 1
        BY <1>1 DEF Ranges
      <4> QED BY <1>1, <4>1, DistAhead DEF Ranges
    <3>3. Dist(front, i, Rqnum) < Size + 1
            <=> Dist(front, i, Rqnum) < Size \/ Dist(front, i, Rqnum) = Size
      BY <3>1
    <3> QED BY <1>2, <1>5, <3>2, <3>3 DEF InRing
  <2> QED BY <1>2, <2>1 DEF Filled, Content
<1>9. Contents'
  BY <1>1, <1>2, <1>8, ContentsKept
<1>10. Content(rear) = ringqueue[rear] /\ Filled(rear)
  <2>1. pcC = "advance" => front # rear
    <3> SUFFICES ASSUME pcC = "advance", front = rear PROVE FALSE
      OBVIOUS
    <3>1. Size = 0 /\ seen # front /\ Dist(front, seen, Rqnum) <= Size
      BY <1>1, DistSelf DEF Indices, Ranges, Size
    <3>2. Dist(front, seen, Rqnum) \in 0 .. Rqnum - 1
      BY <1>1, DistRange DEF Ranges
    <3> QED BY <1>1, <3>1, <3>2 DEF Ranges, Dist
  <2> QED BY <1>2, <2>1 DEF Content, Filled
<1>11. ReadFront'
  BY <1>2 DEF PollInv, ReadFront
<1> QED BY <1>4, <1>5, <1>6, <1>7, <1>8, <1>9, <1>10, <1>11 DEF PollInv
-----------------------------------------------------------------------------
LEMMA PollStep == ASSUME PollInv, [Next]_vars PROVE PollInv'
<1>t. TypeOK /\ Indices /\ Ranges
  BY InRanges DEF PollInv, Indices
<1>1. CASE Running(BeginGet)
  <2>1. PICK o \in {"get", "tryget", "timeget"} : Call(o, rear)
    BY <1>1 DEF Running, BeginGet
  <2>2. /\ pcC = "idle" /\ pcC' = "wait" /\ op' \in {"get", "tryget", "timeget"}
        /\ seen' = rear /\ tries' = 0 /\ UNCHANGED <<front, exit>> /\ UNCHANGED ringVars
    BY <1>1, <2>1 DEF Running, BeginGet, Call
  <2>3. 0 \in 0 .. GetTryNum /\ exit \in {"no", "too_small"}
    BY <1>t, PoolAssumption, TryAssumption DEF TypeOK, GetterTypeOK
  <2> QED BY <2>2, <2>3, PollWaits
<1>2. CASE Running(AwaitWr)
  <2>1. /\ pcC = "wait" /\ pcC' \in {"wait", "take"} /\ seen' \in {seen, rear}
        /\ pcC' = "take" => seen' # front
        /\ UNCHANGED <<front, op>> /\ UNCHANGED ringVars
        /\ exit' \in {exit, "too_small"}
        /\ tries' = tries \/ (tries < GetTryNum /\ tries' = tries + 1)
    BY <1>2 DEF Running, AwaitWr, Poll, GiveUp, Expire, Found
  <2>2. /\ tries' \in 0 .. GetTryNum /\ exit' \in {"no", "too_small"}
        /\ op' \in {"get", "tryget", "timeget"}
    BY <1>t, <2>1, PoolAssumption, TryAssumption DEF TypeOK, GetterTypeOK
  <2> QED BY <2>1, <2>2, PollWaits
<1>3. CASE Running(GetRead) \/ Running(GetClear) \/ Running(GetReturn)
           \/ Running(PutStore) \/ Running(PutPublish)
  BY <1>3, PollReads, PollClears, PollHands, PollStores, PollPublishes DEF Running
<1>4. CASE Running(BeginDestroy) \/ Running(FreeArrays)
  <2>1. /\ pcC \in {"idle", "dtor"} /\ pcC' \in {"dtor", "freed"}
        /\ pcC' = "freed" => Size = Elenum
        /\ UNCHANGED <<front, op, seen, tries, exit>> /\ UNCHANGED ringVars
    BY <1>4
       DEF Running, BeginDestroy, Destroy, FreeArrays, Free, Size
  <2>2. /\ tries' \in 0 .. GetTryNum /\ exit' \in {"no", "too_small"}
        /\ op' \in {"get", "tryget", "timeget"}
    BY <1>t, <2>1 DEF TypeOK, GetterTypeOK
  <2> QED BY <2>1, <2>2, PollWaits
<1>5. CASE UNCHANGED vars
  BY <1>5
     DEF vars, ringVars, getterVars, PollInv, TypeOK, GetterTypeOK, Indices,
         Contents, ReadFront, Size, Publishing, Filled, InRing, Content
<1> QED BY <1>1, <1>2, <1>3, <1>4, <1>5 DEF Next, Getter, Running

LEMMA PollInvariance == Spec => []PollInv
<1>1. PollInv /\ [Next]_vars => PollInv'
  BY PollStep
<1> QED BY <1>1, PollInit, PTL DEF Spec

LEMMA SizePositive ==
    PollInv /\ pcC \in {"take", "clear", "advance"} => Size > 0 /\ front # rear
<1> SUFFICES ASSUME PollInv, pcC \in {"take", "clear", "advance"}
             PROVE  Size > 0 /\ front # rear
  OBVIOUS
<1>1. Indices /\ Ranges
  BY InRanges DEF PollInv, Indices
<1>2. front # rear
  <2> SUFFICES ASSUME front = rear PROVE FALSE
    OBVIOUS
  <2>1. Size = 0 /\ seen # front /\ Dist(front, seen, Rqnum) <= Size
    BY <1>1, DistSelf DEF Indices, Ranges, Size
  <2>2. Dist(front, seen, Rqnum) \in 0 .. Rqnum - 1
    BY <1>1, DistRange DEF Ranges
  <2> QED BY <1>1, <2>1, <2>2 DEF Ranges, Dist
<1> QED BY <1>1, <1>2 DEF Ranges, Size, Dist

(* mem_pool.hpp:712-853: the indices, the callers and the put under way    *)
(* always add up, so that put stores into an empty slot and the destructor *)
(* frees the arrays when all is back.                                      *)
THEOREM PollingAccounted == Spec => []Accounting
<1>1. PollInv => Accounting
  <2> SUFFICES ASSUME PollInv PROVE Accounting
    OBVIOUS
  <2>1. Indices /\ Ranges /\ TypeOK
    BY InRanges DEF PollInv, Indices
  <2>2. pcC = "freed" => held = {} /\ pcP = "idle"
    <3>1. IsFiniteSet(held)
      BY <2>1, PollHeld DEF Ranges
    <3>2. pcC = "freed" => Cardinality(held) = 0 /\ pcP # "publish"
      BY <2>1 DEF Indices, Ranges, Publishing
    <3> QED BY <2>1, <3>1, <3>2, FS_EmptySet DEF TypeOK
  <2> QED BY <2>1, <2>2, SizePositive
     DEF Accounting, Indices, Publishing
<1> QED BY <1>1, PollInvariance, PTL

(* mem_pool.hpp:778-853: every work request is once in the pool or with a  *)
(* caller, and a getter that believes there is one to get is right.        *)
THEOREM PollingOnce == Spec => []EachOnce
<1>1. PollInv => EachOnce
  <2> SUFFICES ASSUME PollInv PROVE EachOnce
    OBVIOUS
  <2>1. Contents /\ Ranges
    BY InRanges DEF PollInv, Indices
  <2>2. ASSUME NEW w \in Wrs
        PROVE  Cardinality({i \in Slots : Content(i) = w
                                     /\ (InRing(i) \/ (pcP = "publish" /\ i = rear))})
               = IF w \in held THEN 0 ELSE 1
    <3> DEFINE At == {i \in Slots : Content(i) = w
                                     /\ (InRing(i) \/ (pcP = "publish" /\ i = rear))}
    <3>1. At = {i \in Slots : Content(i) = w /\ Filled(i)}
      BY DEF Filled
    <3>2. CASE w \in held
      <4>1. At = {}
        BY <2>1, <3>1, <3>2 DEF Contents
      <4> QED BY <3>2, <4>1, FS_EmptySet
    <3>3. CASE w \notin held
      <4>1. PICK i \in Slots : Filled(i) /\ Content(i) = w
        BY <2>1, <3>3 DEF Contents
      <4>2. \A j \in At : j = i
        BY <2>1, <3>1, <4>1, Zenon DEF Contents
      <4>3. At = {i}
        BY <3>1, <4>1, <4>2
      <4> QED BY <3>3, <4>3, FS_Singleton
    <3> QED BY <3>2, <3>3
  <2>3. pcC \in {"take", "clear", "advance"} => Content(front) \in Wrs
    <3> SUFFICES ASSUME pcC \in {"take", "clear", "advance"} PROVE Content(front) \in Wrs
      OBVIOUS
    <3>1. Filled(front)
      BY <2>1, SizePositive, DistSelf DEF Ranges, Filled, InRing
    <3> QED BY <2>1, <3>1 DEF Contents, Ranges
  <2> QED BY <2>2, <2>3 DEF EachOnce
<1> QED BY <1>1, PollInvariance, PTL
-----------------------------------------------------------------------------
(* The pool implements the FIFO pool: a getter takes its step when it      *)
(* stores front, a put when it stores rear.                                *)
Store == [i \in Slots |-> Content(i)]

LEMMA FreeIsSegment ==
    PollInv => /\ FreeList = Segment(Store, front, Size, Rqnum)
            /\ \A i \in 0 .. Rqnum - 1 :
                  Dist(front, i, Rqnum) < Size => Store[i] \in Wrs
<1> SUFFICES ASSUME PollInv
             PROVE  /\ FreeList = Segment(Store, front, Size, Rqnum)
                    /\ \A i \in 0 .. Rqnum - 1 :
                          Dist(front, i, Rqnum) < Size => Store[i] \in Wrs
  OBVIOUS
<1>1. Contents /\ Ranges
  BY InRanges DEF PollInv, Indices
<1>2. ASSUME NEW k \in 1 .. Size
      PROVE  Store[Ahead(front, k - 1, Rqnum)] = Content(Ahead(front, k - 1, Rqnum))
  <2>1. Ahead(front, k - 1, Rqnum) \in Slots
    BY <1>1 DEF Ranges, Ahead
  <2> QED BY <2>1 DEF Store
<1>3. FreeList = Segment(Store, front, Size, Rqnum)
  BY <1>2 DEF FreeList, Segment
<1>4. ASSUME NEW i \in 0 .. Rqnum - 1, Dist(front, i, Rqnum) < Size
      PROVE  Store[i] \in Wrs
  BY <1>1, <1>4 DEF Contents, Ranges, Filled, InRing, Store
<1> QED BY <1>3, <1>4

FreeMatches == FreeList = Segment(Store, front, Size, Rqnum)

LEMMA FreeIsSegmentNext ==
    PollInv' => FreeList' = Segment(Store', front', Size', Rqnum)
<1>1. PollInv => FreeMatches
  BY FreeIsSegment DEF FreeMatches
<1>2. PollInv' => FreeMatches'
  BY <1>1, PTL
<1> QED BY <1>2 DEF FreeMatches

LEMMA PollInitRefines == Init => Fifo!FifoInit
<1> SUFFICES ASSUME Init PROVE Fifo!FifoInit
  OBVIOUS
<1>1. /\ Elenum \in Nat \ {0} /\ Rqnum = Elenum + 1
      /\ front = 0 /\ rear = Elenum /\ pcC = "idle" /\ pcP = "idle" /\ held = {}
      /\ ringqueue = [i \in Slots |-> IF i < Elenum THEN i ELSE Nullptr]
  BY PoolAssumption, TryAssumption DEF Init, GetterInit, Rqnum
<1>2. Size = Elenum /\ Out = {}
  BY <1>1 DEF Size, Dist, Out
<1>3. DOMAIN FreeList = {w + 1 : w \in Wrs}
  <2>1. DOMAIN FreeList = 1 .. Elenum
    BY <1>2 DEF FreeList
  <2>2. ASSUME NEW x PROVE x \in 1 .. Elenum <=> x \in {w + 1 : w \in Wrs}
    <3>1. ASSUME x \in 1 .. Elenum PROVE x \in {w + 1 : w \in Wrs}
      <4>1. x - 1 \in Wrs /\ x = (x - 1) + 1
        BY <1>1, <3>1 DEF Wrs
      <4> QED BY <4>1
    <3> QED BY <1>1, <3>1 DEF Wrs
  <2> QED BY <2>1, <2>2
<1>4. ASSUME NEW w \in Wrs PROVE FreeList[w + 1] = w
  <2>1. w \in 0 .. Elenum - 1 /\ w + 1 \in 1 .. Size /\ (w + 1) - 1 = w
    BY <1>1, <1>2 DEF Wrs
  <2>2. Ahead(front, w, Rqnum) = w
    BY <1>1, <2>1 DEF Ahead
  <2>3. Content(w) = w
    BY <1>1, <2>1 DEF Content, Slots
  <2> QED BY <2>1, <2>2, <2>3 DEF FreeList
<1> QED BY <1>2, <1>3, <1>4 DEF Fifo!FifoInit

LEMMA PollStutterRefines ==
    ASSUME Size' = Size, front' = front, Out' = Out,
           \A i : Content(i)' = Content(i)
    PROVE  UNCHANGED Fifo!fifoVars
BY DEF FreeList, Fifo!fifoVars

LEMMA PollGetRefines == ASSUME PollInv, GetReturn PROVE Fifo!FifoGet
<1>1. Ranges
  BY InRanges DEF PollInv, Indices
<1>2. /\ PollInv' /\ Size' = Size - 1 /\ Size \in 1 .. Rqnum
      /\ \A i \in Slots \ {front} : Content(i)' = Content(i)
      /\ temp = Content(front)
  BY <1>1, PollHands DEF Ranges
<1>3. /\ front' = Succ(front, Rqnum) /\ held' = held \union {temp}
      /\ UNCHANGED <<rear, ringqueue, pcP>>
  BY DEF GetReturn
<1>4. \A i \in 0 .. Rqnum - 1 :
         i # front /\ Dist(front, i, Rqnum) < Size => Store'[i] = Store[i]
  BY <1>1, <1>2 DEF Store, Ranges
<1>5. /\ Segment(Store, front, Size, Rqnum) # <<>>
      /\ Head(Segment(Store, front, Size, Rqnum)) = Store[front]
      /\ Segment(Store', Succ(front, Rqnum), Size - 1, Rqnum)
           = Tail(Segment(Store, front, Size, Rqnum))
  <2>1. Rqnum \in Nat \ {0} /\ front \in 0 .. Rqnum - 1
    BY <1>1 DEF Ranges
  <2>2. \A i \in 0 .. Rqnum - 1 : Dist(front, i, Rqnum) < Size => Store[i] \in Wrs
    BY FreeIsSegment
  <2> QED BY <1>2, <1>4, <2>1, <2>2, SegmentPop, Zenon
<1>6. FreeList # <<>> /\ Head(FreeList) = temp /\ FreeList' = Tail(FreeList)
  <2>1. Store[front] = temp
    BY <1>1, <1>2 DEF Store, Ranges
  <2> QED BY <1>2, <1>3, <1>5, <2>1, FreeIsSegment, FreeIsSegmentNext
<1>7. Out' = Out \union {temp}
  BY <1>3 DEF Out
<1> QED BY <1>6, <1>7 DEF Fifo!FifoGet

LEMMA PollPutRefines == ASSUME PollInv, PutPublish PROVE Fifo!FifoPut
<1>1. Ranges /\ Contents
  BY InRanges DEF PollInv, Indices
<1>2. /\ PollInv' /\ Size' = Size + 1 /\ Size \in 0 .. Rqnum - 1
      /\ \A i \in Slots : Content(i)' = Content(i)
      /\ Content(rear) = ringqueue[rear] /\ Filled(rear)
  BY <1>1, PollPublishes DEF Ranges
<1>3. /\ pcP = "publish" /\ pcP' = "idle" /\ UNCHANGED <<front, held, ringqueue>>
  BY DEF PutPublish, getterVars
<1>4. ringqueue[rear] \in Wrs \ held
  BY <1>1, <1>2 DEF Contents, Ranges
<1>5. Store' = Store /\ Store[rear] = ringqueue[rear]
  BY <1>1, <1>2 DEF Store, Ranges
<1>6. Segment(Store, front, Size + 1, Rqnum)
        = Append(Segment(Store, front, Size, Rqnum), Store[Ahead(front, Size, Rqnum)])
  <2>1. /\ Rqnum \in Nat \ {0} /\ front \in 0 .. Rqnum - 1
        /\ Store[Ahead(front, Size, Rqnum)] \in Wrs
    BY <1>1, <1>4, <1>5 DEF Ranges
  <2>2. \A i \in 0 .. Rqnum - 1 :
           Dist(front, i, Rqnum) < Size => Store[i] \in Wrs /\ Store[i] = Store[i]
    BY FreeIsSegment
  <2> QED BY <1>2, <2>1, <2>2, SegmentPush, Zenon
<1>7. FreeList' = Append(FreeList, ringqueue[rear])
  <2>1. Store[Ahead(front, Size, Rqnum)] = ringqueue[rear]
    BY <1>1, <1>5 DEF Ranges
  <2> QED BY <1>2, <1>3, <1>5, <1>6, <2>1, FreeIsSegment, FreeIsSegmentNext
<1>8. ringqueue[rear] \in Out /\ Out' = Out \ {ringqueue[rear]}
  BY <1>3, <1>4 DEF Out
<1> QED BY <1>7, <1>8 DEF Fifo!FifoPut

LEMMA PollStepRefines ==
    ASSUME PollInv, [Next]_vars
    PROVE  [Fifo!FifoNext]_(Fifo!fifoVars)
<1>t. TypeOK /\ ReadFront /\ Ranges
  BY InRanges DEF PollInv, Indices
<1>1. CASE Running(BeginGet) \/ Running(AwaitWr) \/ Running(BeginDestroy)
           \/ Running(FreeArrays) \/ UNCHANGED vars
  <2>1. /\ UNCHANGED <<front, rear, ringqueue, temp, pcP, held>>
        /\ pcC' = "advance" <=> pcC = "advance"
    BY <1>1
       DEF Running, BeginGet, AwaitWr, BeginDestroy, FreeArrays, vars,
           ringVars, getterVars,
                Call, Poll, GiveUp, Expire, Found, Destroy, Free
  <2>2. Size' = Size /\ Out' = Out /\ \A i : Content(i)' = Content(i)
    BY <2>1 DEF Size, Out, Content
  <2> QED BY <2>1, <2>2, PollStutterRefines
<1>2. CASE GetRead
  <2>1. /\ UNCHANGED <<front, rear, ringqueue, pcP, held>> /\ pcC # "advance" /\ pcC' # "advance"
    BY <1>2 DEF GetRead, Step
  <2>2. Size' = Size /\ Out' = Out /\ \A i : Content(i)' = Content(i)
    BY <2>1 DEF Size, Out, Content
  <2> QED BY <2>1, <2>2, PollStutterRefines
<1>3. CASE GetClear
  <2>1. /\ UNCHANGED <<front, rear, temp, pcP, held>> /\ pcC = "clear" /\ pcC' = "advance"
        /\ ringqueue' = [ringqueue EXCEPT ![front] = Nullptr] /\ temp = ringqueue[front]
    BY <1>t, <1>3 DEF GetClear, Step, ReadFront
  <2>2. Size' = Size /\ \A i : Content(i)' = Content(i)
    BY <1>t, <2>1 DEF Size, Content, TypeOK
  <2>3. Out' = Out
    BY <1>t, <2>1, SizePositive DEF Out, TypeOK
  <2> QED BY <2>1, <2>2, <2>3, PollStutterRefines
<1>4. CASE GetReturn
  BY <1>4, PollGetRefines DEF Fifo!FifoNext
<1>5. CASE PutStore
  <2>1. PICK e \in held : ringqueue' = [ringqueue EXCEPT ![rear] = e] /\ held' = held \ {e}
    BY <1>5 DEF PutStore
  <2>2. pcP = "idle" /\ pcP' = "publish" /\ UNCHANGED <<front, rear, temp, pcC>>
    BY <1>5 DEF PutStore, getterVars
  <2>3. Size' = Size /\ Out' = Out
    BY <1>t, <2>1, <2>2 DEF Size, Out, TypeOK
  <2>4. FreeList' = FreeList
    <3>1. ASSUME NEW k \in 1 .. Size
          PROVE  Content(Ahead(front, k - 1, Rqnum))' = Content(Ahead(front, k - 1, Rqnum))
      <4>1. Ahead(front, k - 1, Rqnum) # rear
        BY <1>t DEF Ranges, Ahead
      <4> QED BY <1>t, <2>1, <2>2, <4>1 DEF Content, TypeOK
    <3> QED BY <2>2, <2>3, <3>1 DEF FreeList
  <2> QED BY <2>3, <2>4 DEF Fifo!fifoVars
<1>6. CASE PutPublish
  BY <1>6, PollPutRefines DEF Fifo!FifoNext
<1> QED BY <1>1, <1>2, <1>3, <1>4, <1>5, <1>6 DEF Next, Getter, Running

(* mem_pool.hpp:778-853: get, tryget, timeget and put are the operations   *)
(* of a FIFO pool, each taking effect at once.                             *)
THEOREM PollingImplements == Spec => ImplementsFifo
<1>1. PollInv /\ [Next]_vars => [Fifo!FifoNext]_(Fifo!fifoVars)
  BY PollStepRefines
<1> QED BY PollInvariance, PollInitRefines, <1>1, PTL
   DEF Spec, ImplementsFifo, Fifo!FifoSpec
=============================================================================
