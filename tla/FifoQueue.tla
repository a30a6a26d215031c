----------------------------- MODULE FifoQueue -----------------------------
(***************************************************************************)
(* What rfts::queue promises: elements come out in the order they went in, *)
(* each to one worker.                                                     *)
(***************************************************************************)
EXTENDS Sequences, FiniteSets

CONSTANT Elems

VARIABLES items,      \* the elements in the queue, oldest first
          busy        \* those that a worker has got and not finished with

queueVars == <<items, busy>>

QueueInit == items = <<>> /\ busy = {}

Enqueue == \E e \in Elems \ busy : /\ \A k \in DOMAIN items : items[k] # e
                                   /\ items' = Append(items, e)
                                   /\ busy' = busy

Dequeue == /\ items # <<>>
           /\ busy' = busy \union {Head(items)}
           /\ items' = Tail(items)

Finish == \E e \in busy : busy' = busy \ {e} /\ items' = items

QueueNext == Enqueue \/ Dequeue \/ Finish

QueueSpec == QueueInit /\ [][QueueNext]_queueVars
=============================================================================
