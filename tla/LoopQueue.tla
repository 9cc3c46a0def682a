------------------------------ MODULE LoopQueue ------------------------------
(***************************************************************************)
(* What an EventLoop promises to the threads that hand it functors: one    *)
(* first-in first-out queue, every functor taken from its head exactly     *)
(* once, and, as long as the loop has not left Loop(), no functor left     *)
(* waiting for ever.  Nothing is said of mutexes, batches, epoll or the    *)
(* wakeup descriptor: EventLoop.tla shows how the code keeps the promise.  *)
(***************************************************************************)
EXTENDS Naturals, Sequences

CONSTANT Threads          \* every thread that may hand over a functor

VARIABLES
  queue,                  \* functors handed over and not yet started
  sent,                   \* sent[t]: how many functors t has handed over
  ran,                    \* ran[t]: number of t's functor started last
  stopped                 \* the loop has returned from Loop()

vars == <<queue, sent, ran, stopped>>

Init ==
  /\ queue = <<>>
  /\ sent = [t \in Threads |-> 0]
  /\ ran = [t \in Threads |-> 0]
  /\ stopped = FALSE

\* Thread t hands over its next functor.
Post(t) ==
  /\ sent' = [sent EXCEPT ![t] = @ + 1]
  /\ queue' = Append(queue, [from |-> t, n |-> sent[t] + 1])
  /\ UNCHANGED <<ran, stopped>>

\* The loop starts the oldest functor.
Run ==
  /\ ~stopped
  /\ queue # <<>>
  /\ ran' = [ran EXCEPT ![Head(queue).from] = Head(queue).n]
  /\ queue' = Tail(queue)
  /\ UNCHANGED <<sent, stopped>>

Stop ==
  /\ ~stopped
  /\ stopped' = TRUE
  /\ UNCHANGED <<queue, sent, ran>>

Next == (\E t \in Threads : Post(t)) \/ Run \/ Stop

\* The promise without the progress part, the form the proofs use.
SafeSpec == Init /\ [][Next]_vars

Spec == SafeSpec /\ WF_vars(Run)
=============================================================================
