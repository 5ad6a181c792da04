----------------------------- MODULE TaskQueue -----------------------------
(***************************************************************************)
(* What a shard's task queue promises the modules that post to it and the  *)
(* worker that drains it.  Tasks enter one at a time and only while there  *)
(* is room, leave in the order they entered, and the worker exits only     *)
(* when the queue is stopped and empty.  It promises less than one would   *)
(* like: a post may be refused at any time, and the worker may be asleep   *)
(* although there is something for it to do, because its notification was  *)
(* lost.  BoundedTaskQueue is shown to implement this module; sessions,    *)
(* runtime and application are modelled over a queue that behaves so.      *)
(***************************************************************************)
EXTENDS Naturals, Sequences

CONSTANTS
  Capacity,       \* slots of the queue
  Task            \* the tasks that may be posted

VARIABLES
  waiting,        \* tasks accepted and not yet handed to the worker
  delivered,      \* tasks handed to the worker since the last restart
  closed,         \* the queue is stopped
  worker          \* "awake", "asleep" or "exited"

queueVars == <<waiting, delivered, closed, worker>>

Init == waiting = <<>> /\ delivered = <<>> /\ closed = FALSE /\ worker = "awake"

Accept(t) ==
  /\ Len(waiting) < Capacity
  /\ waiting' = Append(waiting, t)
  /\ UNCHANGED <<delivered, closed, worker>>

Deliver ==
  /\ worker = "awake" /\ waiting # <<>>
  /\ waiting' = Tail(waiting)
  /\ delivered' = Append(delivered, Head(waiting))
  /\ UNCHANGED <<closed, worker>>

\* The worker falls asleep, and is woken, whatever the queue holds.
Sleep == worker = "awake" /\ worker' = "asleep" /\ UNCHANGED <<waiting, delivered, closed>>
Wake == worker = "asleep" /\ worker' = "awake" /\ UNCHANGED <<waiting, delivered, closed>>

Stop == closed' = TRUE /\ UNCHANGED <<waiting, delivered, worker>>

Exit ==
  /\ worker = "awake" /\ closed /\ waiting = <<>>
  /\ worker' = "exited"
  /\ UNCHANGED <<waiting, delivered, closed>>

Restart ==
  /\ worker = "exited"
  /\ waiting' = <<>> /\ delivered' = <<>> /\ closed' = FALSE /\ worker' = "awake"

Next ==
  \/ \E t \in Task : Accept(t)
  \/ Deliver \/ Sleep \/ Wake \/ Stop \/ Exit \/ Restart

Spec == Init /\ [][Next]_queueVars
=============================================================================
