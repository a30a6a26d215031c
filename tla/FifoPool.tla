------------------------------ MODULE FifoPool ------------------------------
(***************************************************************************)
(* What every work-request pool of the repository promises its callers:    *)
(* get hands out the work request that has been free for longest, put      *)
(* takes back one that was handed out, and between the two nobody else     *)
(* can obtain it.                                                          *)
(***************************************************************************)
EXTENDS Naturals, Sequences

CONSTANT Wrs          \* the work requests, 0 .. elenum - 1

VARIABLES free,       \* the free work requests, oldest first
          out         \* those handed out by get and not yet put back

fifoVars == <<free, out>>

(* The constructors enqueue __wrs[0], __wrs[1], ... in this order. *)
FifoInit == /\ DOMAIN free = {w + 1 : w \in Wrs}
            /\ \A w \in Wrs : free[w + 1] = w
            /\ out = {}

FifoGet == /\ free # <<>>
           /\ out' = out \union {Head(free)}
           /\ free' = Tail(free)

FifoPut == \E w \in out : /\ free' = Append(free, w)
                          /\ out' = out \ {w}

FifoNext == FifoGet \/ FifoPut

FifoSpec == FifoInit /\ [][FifoNext]_fifoVars
=============================================================================
