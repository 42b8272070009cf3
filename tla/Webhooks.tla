------------------------------ MODULE Webhooks ------------------------------
(***************************************************************************)
(* Deliveries to the webhooks of one repository.  A delivery is attempted  *)
(* and recorded in turn, from memory: neither what is under way nor what   *)
(* is still to be retried survives the process.                            *)
(***************************************************************************)
EXTENDS Handlers, Sequences

CONSTANTS
  Hooks,         \* ids of webhooks
  MAX_ATTEMPTS

ASSUME AttemptsBound == MAX_ATTEMPTS \in Nat \ {0}

VARIABLES
  hooks,       \* Webhook: active and subscribed, or paused; a deleted id does not come back
  delivery,    \* of each request to each hook: what the loop of attempts knows
  log,         \* WebhookDelivery rows of a request and a hook, oldest first
  lapses,      \* bound
  gaps         \* history: deliveries cut off, or with an attempt that was not recorded

hookVars == <<hooks, delivery, log, lapses, gaps>>

Outcomes == {"ok", "refused", "broken"}   \* 2xx; any other answer, or a blocked address; 5xx, no answer
NoDelivery == [pc |-> "none", attempt |-> 0, last |-> None, limit |-> MAX_ATTEMPTS]
UnderWay(d) == d.pc \notin {"none", "done"}
IsNew(q) == \A h \in Hooks : delivery[q][h] = NoDelivery

HooksTypeOK ==
  /\ hooks \in [Hooks -> {"none", "active", "paused", "gone"}]
  /\ delivery \in [Requests -> [Hooks -> [pc: {"none", "look", "compose", "send", "record", "done"},
                                          attempt: 0..MAX_ATTEMPTS, last: Outcomes \cup {None},
                                          limit: {1, MAX_ATTEMPTS}]]]
  /\ log \in [Requests -> [Hooks -> Seq(Outcomes)]]
  /\ lapses \in 0..MaxFaults /\ gaps \subseteq Requests \X Hooks

HooksInit ==
  /\ hooks = [h \in Hooks |-> "none"]
  /\ delivery = [q \in Requests |-> [h \in Hooks |-> NoDelivery]]
  /\ log = [q \in Requests |-> [h \in Hooks |-> <<>>]]
  /\ lapses = 0 /\ gaps = {}

Lapse == lapses < MaxFaults /\ lapses' = lapses + 1

-----------------------------------------------------------------------------
(***************************************************************************)
(* Managing hooks                                                          *)
(***************************************************************************)
\* A ping follows, whether the hook is active or not.
CreateHook(q, h) ==
  /\ hooks[h] = "none" /\ IsNew(q)
  /\ \E state \in {"active", "paused"} : hooks' = [hooks EXCEPT ![h] = state]
  /\ delivery' = [delivery EXCEPT ![q][h].pc = "look", ![q][h].limit = 1]
  /\ UNCHANGED <<log, lapses, gaps>>

PatchHook(h) ==
  /\ hooks[h] \in {"active", "paused"}
  /\ hooks' = [hooks EXCEPT ![h] = IF @ = "active" THEN "paused" ELSE "active"]
  /\ UNCHANGED <<delivery, log, lapses, gaps>>

\* The records go with the hook; what is under way goes on.
DeleteHook(h) ==
  /\ hooks[h] \in {"active", "paused"}
  /\ hooks' = [hooks EXCEPT ![h] = "gone"]
  /\ log' = [q \in Requests |-> [log[q] EXCEPT ![h] = <<>>]]
  /\ UNCHANGED <<delivery, lapses, gaps>>

-----------------------------------------------------------------------------
(***************************************************************************)
(* Sending                                                                 *)
(***************************************************************************)
\* emitRepoEvent: the hooks of the event, as they are now.
EmitEvent(q) ==
  /\ IsNew(q) /\ \E h \in Hooks : hooks[h] = "active"
  /\ delivery' = [delivery EXCEPT ![q] =
       [h \in Hooks |-> [NoDelivery EXCEPT !.pc = IF hooks[h] = "active" THEN "compose" ELSE "none"]]]
  /\ UNCHANGED <<hooks, log, lapses, gaps>>

Composing(q) == {h \in Hooks : delivery[q][h].pc = "compose"}
AllGo(q, hs, pc) ==
  delivery' = [delivery EXCEPT ![q] =
    [h \in Hooks |-> IF h \in hs THEN [delivery[q][h] EXCEPT !.pc = pc] ELSE delivery[q][h]]]

\* One envelope for all of them, or none if it cannot be read.
Compose(q) ==
  /\ Composing(q) # {}
  /\ \/ AllGo(q, Composing(q), "send") /\ UNCHANGED <<lapses, gaps>>
     \/ AllGo(q, Composing(q), "done") /\ Lapse /\ gaps' = gaps \cup ({q} \X Composing(q))
  /\ UNCHANGED <<hooks, log>>

\* A recorded attempt is sent once more.
Redeliver(q, source, h) ==
  /\ IsNew(q) /\ log[source][h] # <<>>
  /\ delivery' = [delivery EXCEPT ![q][h].pc = "look", ![q][h].limit = 1]
  /\ UNCHANGED <<hooks, log, lapses, gaps>>

\* pingWebhook and redeliverWebhookDelivery read the hook again.
LookUpHook(q, h) ==
  /\ delivery[q][h].pc = "look"
  /\ delivery' = [delivery EXCEPT ![q][h].pc = IF hooks[h] = "gone" THEN "done" ELSE "send"]
  /\ UNCHANGED <<hooks, log, lapses, gaps>>

\* deliverOnce, with the hook as it was read.
Attempt(q, h) == LET d == delivery[q][h] IN
  /\ d.pc = "send"
  /\ \E outcome \in Outcomes :
       delivery' = [delivery EXCEPT ![q][h] =
                      [d EXCEPT !.pc = "record", !.attempt = d.attempt + 1, !.last = outcome]]
  /\ UNCHANGED <<hooks, log, lapses, gaps>>

IsLast(d) == d.last # "broken" \/ d.attempt = d.limit
Records(q, h) == log' = [log EXCEPT ![q][h] = Append(@, delivery[q][h].last)]

\* mutant: whatever failed is tried again
RetriesAll(q, h) == LET d == delivery[q][h] IN
  /\ d.pc = "record"
  /\ delivery' = [delivery EXCEPT ![q][h].pc = IF d.last = "ok" \/ d.attempt = d.limit THEN "done" ELSE "send"]
  /\ IF hooks[h] = "gone" THEN UNCHANGED log ELSE Records(q, h)
  /\ UNCHANGED <<hooks, lapses, gaps>>

\* recordDelivery, whose failure is swallowed; then the next attempt or none.
Record(q, h) == LET d == delivery[q][h] IN
  /\ d.pc = "record"
  /\ delivery' = [delivery EXCEPT ![q][h].pc = IF IsLast(d) THEN "done" ELSE "send"]
  /\ \/ UNCHANGED <<lapses, gaps>>
        /\ IF hooks[h] = "gone" THEN UNCHANGED log ELSE Records(q, h)
     \/ Lapse /\ gaps' = gaps \cup {<<q, h>>} /\ UNCHANGED log
  /\ UNCHANGED hooks

RestartSender ==
  /\ Lapse
  /\ gaps' = gaps \cup {d \in Requests \X Hooks : UnderWay(delivery[d[1]][d[2]])}
  /\ delivery' = [q \in Requests |-> [h \in Hooks |->
       IF UnderWay(delivery[q][h]) THEN [delivery[q][h] EXCEPT !.pc = "done"] ELSE delivery[q][h]]]
  /\ UNCHANGED <<hooks, log>>

HooksNext ==
  \/ \E h \in Hooks : PatchHook(h) \/ DeleteHook(h)
  \/ \E q \in Requests : EmitEvent(q) \/ Compose(q)
  \/ \E q \in Requests, h \in Hooks :
       CreateHook(q, h) \/ LookUpHook(q, h) \/ Attempt(q, h) \/ Record(q, h)
       \/ \E source \in Requests : Redeliver(q, source, h)
  \/ RestartSender

HooksSpec == HooksInit /\ [][HooksNext]_hookVars

-----------------------------------------------------------------------------
(***************************************************************************)
(* The log explains a delivery that is over: every attempt is in it, in    *)
(* order; only an attempt that broke was followed by another; and it ended *)
(* because an attempt was answered or the attempts were used up.  Hooks    *)
(* may be paused, deleted or pinged meanwhile; the exceptions are records  *)
(* that failed and deliveries that the process did not outlive.            *)
(***************************************************************************)
ExplainedByLog == \A q \in Requests, h \in Hooks :
  LET d == delivery[q][h]  rows == log[q][h]  n == Len(rows) IN
  (d.pc = "done" /\ hooks[h] # "gone" /\ <<q, h>> \notin gaps) =>
    /\ n \in 1..d.limit
    /\ rows[n] # "broken" \/ n = d.limit
    /\ \A i \in 1..(n - 1) : rows[i] = "broken"
=============================================================================
