------------------------------ MODULE RunQueue ------------------------------
(***************************************************************************)
(* What the in-process CI queue promises, without its implementation: runs *)
(* are executed one at a time, in the order they were submitted, each at   *)
(* most once, and the worker never rests while a run waits.  A waiting run *)
(* may be withdrawn; a restart of the process forgets everything.          *)
(***************************************************************************)
EXTENDS Sequences, Naturals

CONSTANTS Runs, None

VARIABLES
  fresh,    \* runs that may still be submitted
  waiting,  \* runs submitted and not begun, first come first
  running   \* the run in execution, or None

vars == <<fresh, waiting, running>>

Init == fresh = Runs /\ waiting = <<>> /\ running = None

\* The worker takes the head of q, or rests.
Take(q) ==
  IF q = <<>> THEN waiting' = <<>> /\ running' = None
              ELSE waiting' = Tail(q) /\ running' = Head(q)

Submit(r) ==
  /\ r \in fresh
  /\ fresh' = fresh \ {r}
  /\ IF running = None THEN Take(Append(waiting, r))
                       ELSE waiting' = Append(waiting, r) /\ UNCHANGED running

Done == running # None /\ Take(waiting) /\ UNCHANGED fresh

Withdraw(i) ==
  /\ waiting' = SubSeq(waiting, 1, i - 1) \o SubSeq(waiting, i + 1, Len(waiting))
  /\ UNCHANGED <<fresh, running>>

\* runs that end without ever being submitted
Discard == fresh' \in SUBSET fresh /\ UNCHANGED <<waiting, running>>

Restart == waiting' = <<>> /\ running' = None /\ fresh' \in SUBSET fresh

Next ==
  \/ \E r \in Runs : Submit(r)
  \/ Done \/ Discard \/ Restart
  \/ \E i \in 1..Len(waiting) : Withdraw(i)

Spec == Init /\ [][Next]_vars

(***************************************************************************)
(* What the promise amounts to: a run is in one place at most, so that no  *)
(* run is begun twice, and the worker does not rest while a run waits.     *)
(***************************************************************************)
OnePlace ==
  /\ \A i, j \in 1..Len(waiting) : waiting[i] = waiting[j] => i = j
  /\ \A i \in 1..Len(waiting) : waiting[i] # running /\ waiting[i] \notin fresh
  /\ running \notin fresh
  /\ running = None => waiting = <<>>
=============================================================================
