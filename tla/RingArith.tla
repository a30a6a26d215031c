----------------------------- MODULE RingArith -----------------------------
(***************************************************************************)
(* Index arithmetic of the circular arrays in mem_pool.hpp, wr_pool.hpp    *)
(* and queue.hpp.  The code never uses %: it adds one and subtracts the    *)
(* capacity when the result has reached it.                                *)
(***************************************************************************)
EXTENDS Integers

(* Mutant of Succ: tests > where the code tests >=. *)
SuccLate(i, n) == IF i + 1 > n THEN i + 1 - n ELSE i + 1

(* if (++i >= n) i -= n; *)
Succ(i, n) == IF i + 1 >= n THEN i + 1 - n ELSE i + 1

(* How many steps of Succ lead from slot f to slot i. *)
Dist(f, i, n) == IF i >= f THEN i - f ELSE i - f + n

(* The slot reached from slot f by k steps of Succ, 0 <= k <= n. *)
Ahead(f, k, n) == IF f + k >= n THEN f + k - n ELSE f + k
=============================================================================
