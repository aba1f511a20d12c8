------------------------------ MODULE EventFifo ------------------------------
(***************************************************************************)
(* What the event scheduler of the SDK promises to its users: a bounded    *)
(* first-in first-out queue of which the oldest event is handled, and      *)
(* leaves the queue only when its handler has returned.                    *)
(***************************************************************************)
EXTENDS Naturals, Sequences

CONSTANTS Event,      \* the events that can be posted
          Capacity    \* how many events the queue holds

VARIABLES queue,      \* the events posted and not yet completely handled
          busy,       \* the handler of Head(queue) is running
          err_code    \* result of the last Post

vars == <<queue, busy, err_code>>

Init == /\ queue = <<>>
        /\ busy = FALSE
        /\ err_code = "SUCCESS"

(* A post is accepted exactly when there is room, and says so. *)
Post(e) == /\ IF Len(queue) < Capacity
              THEN /\ queue' = Append(queue, e)
                   /\ err_code' = "SUCCESS"
              ELSE /\ queue' = queue
                   /\ err_code' = "NO_MEM"
           /\ busy' = busy

(* The scheduler hands the oldest event to its handler... *)
Start == /\ ~busy
         /\ queue # <<>>
         /\ busy' = TRUE
         /\ UNCHANGED <<queue, err_code>>

(* ... and releases its place when the handler has returned. *)
Finish == /\ busy
          /\ busy' = FALSE
          /\ queue' = Tail(queue)
          /\ err_code' = err_code

Next == \/ \E e \in Event : Post(e)
        \/ Start
        \/ Finish

SafeSpec == Init /\ [][Next]_vars

(* Every accepted event is handled, and every handler gives way.           *)
Fairness == WF_vars(Start) /\ WF_vars(Finish)

Spec == SafeSpec /\ Fairness
=============================================================================
