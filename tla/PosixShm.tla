------------------------------ MODULE PosixShm ------------------------------
(***************************************************************************)
(* rfts::posix_shm (shm.hpp) used by several threads: seek, tell, read,    *)
(* write and clear share the position __cur, an atomic 64-bit unsigned     *)
(* integer.  Words have 2^Width values here; off_t is a signed word.       *)
(*                                                                         *)
(* Of the contents the model keeps where each copy begins.  A copy is one  *)
(* step.  Protection and null buffers are checked before anything happens  *)
(* and are left out.                                                       *)
(***************************************************************************)
EXTENDS Integers, FiniteSets

CONSTANTS Threads,
          Width,         \* bits of a word
          Length,        \* __length
          Sizes,         \* values of nbytes that are tried
          MaxOffset      \* bound on the offsets given to seek

Modulus == 2 ^ Width
Offsets == -MaxOffset .. MaxOffset

(* No mapping fills a quarter of the address space. *)
ASSUME ShmAssumption == /\ Width \in Nat /\ Modulus \in Nat
                        /\ Length \in Nat \ {0} /\ 4 * Length <= Modulus
                        /\ Sizes \subseteq 1 .. Length
                        /\ MaxOffset \in Nat /\ 2 * MaxOffset < Modulus

(* A sum of two words as size_t or uint64_t, and a word as off_t. *)
Word(x) == IF x < 0 THEN x + Modulus ELSE IF x >= Modulus THEN x - Modulus ELSE x
Signed(x) == IF 2 * x >= Modulus THEN x - Modulus ELSE x

VARIABLES
    cur,            \* __cur
    pc,             \* each thread: control state
    call,           \* each thread: arg (nbytes or offset), is_read, temp, and
                    \* where its copy began
    below,          \* history: has seek ever moved the position below 0?
    taken,          \* history: bytes reserved since the position was last set
    moved,          \* history: threads under whose loaded temp it was set
    ended           \* has a failed check ended the process?

history == <<below, taken, moved>>
shmVars == <<cur, pc, call, history, ended>>

NoCall == [arg |-> 0, isRead |-> FALSE, temp |-> 0, at |-> 0]

(* The constructors set __cur to 0. *)
ShmInit == /\ cur = 0
           /\ pc = [t \in Threads |-> "idle"]
           /\ call = [t \in Threads |-> NoCall]
           /\ below = FALSE /\ taken = {} /\ moved = {}
           /\ ended = FALSE

Goto(t, a, b) == pc[t] = a /\ pc' = [pc EXCEPT ![t] = b] /\ ended' = ended

Return(t, a) == Goto(t, a, "idle") /\ call' = [call EXCEPT ![t] = NoCall]

(* The position is set to x: the bytes taken so far may be taken again. *)
Set(x) == /\ cur' = Word(x)
          /\ taken' = {} /\ moved' = Threads /\ below' = (below \/ x < 0)

Fail == ended' = TRUE /\ UNCHANGED <<cur, pc, call, history>>

LoadTemp(t) == /\ call' = [call EXCEPT ![t].temp = cur]
               /\ moved' = moved \ {t} /\ UNCHANGED <<cur, below, taken>>

Clear(t) == Return(t, "idle") /\ Set(0)
-----------------------------------------------------------------------------
SeekSet(t, off) == /\ pc[t] = "idle"
                   /\ IF off < 0 \/ off >= Length THEN Fail ELSE Return(t, "idle") /\ Set(off)

(* The bound is static_cast<off_t>(-__length). *)
SeekEnd(t, off) == /\ pc[t] = "idle"
                   /\ IF off > 0 \/ off <= Signed(Word(-Length)) THEN Fail
                      ELSE Return(t, "idle") /\ Set(Length - 1 + off)

SeekCur(t, off) == /\ Goto(t, "idle", "seek")
                   /\ call' = [call EXCEPT ![t].arg = off, ![t].temp = cur]
                   /\ UNCHANGED <<cur, history>>

(* (temp + offset) < 0 compares an unsigned sum: it is never true. *)
TooFar(c) == Signed(c.temp) + c.arg >= Length

SeekCas(t) == LET c == call[t] IN
    \/ pc[t] = "seek" /\ TooFar(c) /\ Fail
    \/ ~TooFar(c) /\ cur = c.temp /\ Goto(t, "seek", "reset")
          /\ Set(Signed(cur) + c.arg) /\ UNCHANGED call
    \/ ~TooFar(c) /\ Goto(t, "seek", "seek") /\ LoadTemp(t)

(* The store that belongs to SEEK_END. *)
SeekReset(t) == Return(t, "reset") /\ Set(Length - 1 + call[t].arg)
-----------------------------------------------------------------------------
(* read or write of n bytes; with reset, seek(0, SEEK_SET) comes first. *)
Access(t, n, isRead, reset) ==
    /\ Goto(t, "idle", IF reset THEN "rewind" ELSE "load")
    /\ call' = [call EXCEPT ![t].arg = n, ![t].isRead = isRead]
    /\ UNCHANGED <<cur, history>>

Rewind(t) == Goto(t, "rewind", "load") /\ Set(0) /\ UNCHANGED call

Load(t) == Goto(t, "load", "copy") /\ LoadTemp(t)

Beyond(c) == Word(c.temp + c.arg) > Length

(* memcpy from __cur, which is loaded again, or to temp. *)
Copy(t) == LET c == call[t] IN
    \/ pc[t] = "copy" /\ Beyond(c) /\ Fail
    \/ ~Beyond(c) /\ Goto(t, "copy", "cas")
          /\ call' = [call EXCEPT ![t].at = IF c.isRead THEN cur ELSE c.temp]
          /\ UNCHANGED <<cur, history>>

Reserved(c) == c.temp .. c.temp + c.arg - 1

(* Mutant of Reserve: a store in place of the compare-exchange. *)
ReserveBlind(t) == /\ Return(t, "cas")
                   /\ cur' = Word(call[t].temp + call[t].arg)
                   /\ taken' = taken \union Reserved(call[t]) /\ UNCHANGED <<below, moved>>

Reserve(t) == /\ cur = call[t].temp /\ Return(t, "cas")
              /\ cur' = Word(cur + call[t].arg)
              /\ taken' = taken \union Reserved(call[t]) /\ UNCHANGED <<below, moved>>

(* The compare-exchange, a weak one, fails: once more; the bytes of the    *)
(* failed copy stay where they are.                                        *)
Retry(t) == Goto(t, "cas", "copy") /\ LoadTemp(t)
-----------------------------------------------------------------------------
Seek(t) == \/ \E off \in Offsets : SeekSet(t, off) \/ SeekEnd(t, off) \/ SeekCur(t, off)
           \/ SeekCas(t) \/ SeekReset(t)

ReadOrWrite(t) == \/ \E n \in Sizes, r, s \in BOOLEAN : Access(t, n, r, s)
                  \/ Rewind(t) \/ Load(t) \/ Copy(t) \/ Reserve(t) \/ Retry(t)

ShmNext == \/ ~ended /\ \E t \in Threads : Clear(t) \/ Seek(t) \/ ReadOrWrite(t)
           \/ ended /\ UNCHANGED shmVars

ShmSpec == ShmInit /\ [][ShmNext]_shmVars
-----------------------------------------------------------------------------
ShmTypeOK == /\ cur \in 0 .. Modulus - 1
             /\ pc \in [Threads -> {"idle", "seek", "reset", "rewind", "load", "copy", "cas"}]
             /\ call \in [Threads -> [arg : Sizes \union Offsets, isRead : BOOLEAN,
                                      temp : 0 .. Modulus - 1, at : 0 .. Modulus - 1]]
             /\ below \in BOOLEAN /\ ended \in BOOLEAN

Touched(c) == c.at .. c.at + c.arg - 1

(* The check of an access, temp + nbytes > __length (shm.hpp:248), keeps   *)
(* what memcpy touches inside the memory, at least as long as nobody sets  *)
(* the position meanwhile.  It does not: a read copies from where __cur is *)
(* by then (shm.hpp:256), not from temp, and another access may have moved *)
(* it on.                                                                  *)
AccessInside == ~below =>
    \A t \in Threads \ moved : pc[t] = "cas" => Touched(call[t]) \subseteq 0 .. Length - 1

(* shm.hpp:246-260: as long as nobody sets the position, two accesses      *)
(* never reserve the same byte, whoever loses the race and tries again,    *)
(* none reserves a byte outside the memory, and a read that reserves its   *)
(* bytes has copied just these, although it loads __cur a second time for  *)
(* the copy.  (What a loser has written stays where it is.)                *)
ReservedOnce == [][\A t \in Threads :
    LET c == call[t]
    IN  pc[t] = "cas" /\ pc'[t] = "idle" /\ ~below =>
           /\ Reserved(c) \subseteq (0 .. Length - 1) \ taken
           /\ t \notin moved => c.at = c.temp]_shmVars

(* "shm's current read and write position" (shm.hpp:16).                   *)
PositionInside == cur <= Length
=============================================================================
