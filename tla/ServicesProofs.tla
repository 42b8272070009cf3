--------------------------- MODULE ServicesProofs ---------------------------
(***************************************************************************)
(* Theorems about the services that do not touch each other's state: the   *)
(* deliveries to webhooks, the log of a job, the files of a design, the    *)
(* issue and its timeline; and, with those of reviews and of the pages,    *)
(* about all of them together, as MCServices composes them.                *)
(***************************************************************************)
EXTENDS MCServices, PullReviewProofs, PagesProofs, FiniteSetTheorems, NaturalsInduction, WellFoundedInduction, TLAPS

(***************************************************************************)
(* Deliveries, for any hooks and requests and any number of attempts.      *)
(***************************************************************************)
Deliveries == [pc: {"none", "look", "compose", "send", "record", "done"},
               attempt: 0..MAX_ATTEMPTS, last: Outcomes \cup {None}, limit: {1, MAX_ATTEMPTS}]

\* How far the loop of attempts has come.
Counted(d) ==
  /\ d.pc \in {"none", "look", "compose"} => d.attempt = 0
  /\ d.pc = "send" => d.attempt < d.limit
  /\ d.pc = "record" => d.attempt \in 1..d.limit /\ d.last \in Outcomes

AllBroken(rows, n) == \A i \in 1..n : rows[i] = "broken"

\* The rows of a delivery without gaps follow the loop.
Told(d, rows) ==
  /\ d.pc \in {"none", "look", "compose"} => rows = <<>>
  /\ d.pc = "send" => d.attempt = Len(rows) /\ AllBroken(rows, Len(rows))
  /\ d.pc = "record" => d.attempt = Len(rows) + 1 /\ AllBroken(rows, Len(rows))
  /\ d.pc = "done" => /\ Len(rows) \in 1..d.limit
                      /\ rows[Len(rows)] # "broken" \/ Len(rows) = d.limit
                      /\ AllBroken(rows, Len(rows) - 1)

Accounted(q, h) ==
  /\ delivery[q][h] \in Deliveries /\ log[q][h] \in Seq(Outcomes)
  /\ Counted(delivery[q][h])
  /\ hooks[h] # "gone" /\ <<q, h>> \notin gaps => Told(delivery[q][h], log[q][h])

Tables ==
  /\ hooks \in [Hooks -> {"none", "active", "paused", "gone"}]
  /\ delivery \in [Requests -> [Hooks -> Deliveries]]
  /\ log \in [Requests -> [Hooks -> Seq(Outcomes)]]
  /\ lapses \in 0..MaxFaults /\ gaps \subseteq Requests \X Hooks

HookInv == Tables /\ \A q \in Requests, h \in Hooks : Accounted(q, h)

LEMMA NoDeliveryFits == NoDelivery \in Deliveries /\ Counted(NoDelivery) /\ Told(NoDelivery, <<>>)
  BY AttemptsBound DEF NoDelivery, Deliveries, Counted, Told

LEMMA TablesAreTypes == Tables <=> HooksTypeOK
  BY DEF Tables, HooksTypeOK, Deliveries

LEMMA HookInvInit == HooksInit => HookInv
  <1> SUFFICES ASSUME HooksInit PROVE HookInv
    OBVIOUS
  <1>1. <<>> \in Seq(Outcomes)
    OBVIOUS
  <1>2. Tables
    BY <1>1, NoDeliveryFits, FaultBound DEF HooksInit, Tables
  <1>3. ASSUME NEW q \in Requests, NEW h \in Hooks PROVE Accounted(q, h)
    BY <1>1, NoDeliveryFits DEF HooksInit, Accounted
  <1> QED
    BY <1>2, <1>3 DEF HookInv

-----------------------------------------------------------------------------
(***************************************************************************)
(* One delivery at a time                                                  *)
(***************************************************************************)
\* A delivery that has stopped, or has a gap, owes no account of its rows.
LEMMA StillAccounted ==
  ASSUME HookInv, NEW q \in Requests, NEW h \in Hooks,
         delivery'[q][h] = delivery[q][h], log'[q][h] = log[q][h],
         hooks'[h] # "gone" => hooks[h] # "gone", <<q, h>> \in gaps => <<q, h>> \in gaps'
  PROVE  Accounted(q, h)'
  <1>1. Accounted(q, h)
    BY DEF HookInv
  <1> QED
    BY <1>1 DEF Accounted, Counted, Told, AllBroken

\* What becomes of one delivery, whatever happens to the others.
LEMMA NewlyAccounted ==
  ASSUME NEW q \in Requests, NEW h \in Hooks, NEW d \in Deliveries, NEW rows \in Seq(Outcomes),
         delivery'[q][h] = d, log'[q][h] = rows, Counted(d),
         hooks'[h] # "gone" /\ <<q, h>> \notin gaps' => Told(d, rows)
  PROVE  Accounted(q, h)'
  BY DEF Accounted, Counted, Told, AllBroken

LEMMA OneMoves ==
  ASSUME HookInv, NEW q \in Requests, NEW h \in Hooks, NEW d \in Deliveries, NEW rows \in Seq(Outcomes),
         delivery' = [delivery EXCEPT ![q][h] = d], log' = [log EXCEPT ![q][h] = rows],
         gaps \subseteq gaps', \A g \in Hooks : hooks'[g] # "gone" => hooks[g] # "gone",
         Counted(d), hooks'[h] # "gone" /\ <<q, h>> \notin gaps' => Told(d, rows)
  PROVE  /\ delivery' \in [Requests -> [Hooks -> Deliveries]]
         /\ log' \in [Requests -> [Hooks -> Seq(Outcomes)]]
         /\ \A p \in Requests, g \in Hooks : Accounted(p, g)'
  <1>1. Tables
    BY DEF HookInv
  <1>2. /\ delivery' \in [Requests -> [Hooks -> Deliveries]]
        /\ delivery'[q][h] = d
        /\ \A p \in Requests, g \in Hooks : p # q \/ g # h => delivery'[p][g] = delivery[p][g]
    BY <1>1 DEF Tables
  <1>3. /\ log' \in [Requests -> [Hooks -> Seq(Outcomes)]]
        /\ log'[q][h] = rows
        /\ \A p \in Requests, g \in Hooks : p # q \/ g # h => log'[p][g] = log[p][g]
    BY <1>1 DEF Tables
  <1>4. ASSUME NEW p \in Requests, NEW g \in Hooks PROVE Accounted(p, g)'
    <2>1. CASE p = q /\ g = h
      BY <2>1, <1>2, <1>3, NewlyAccounted
    <2>2. CASE p # q \/ g # h
      <3>1. delivery'[p][g] = delivery[p][g] /\ log'[p][g] = log[p][g]
        BY <2>2, <1>2, <1>3
      <3>2. hooks'[g] # "gone" => hooks[g] # "gone"
        OBVIOUS
      <3>3. <<p, g>> \in gaps => <<p, g>> \in gaps'
        OBVIOUS
      <3> QED
        BY <3>1, <3>2, <3>3, StillAccounted
    <2> QED
      BY <2>1, <2>2
  <1> QED
    BY <1>2, <1>3, <1>4

\* The record of the attempt in progress makes the loop go on, or end.
LEMMA RecordTells ==
  ASSUME NEW d \in Deliveries, NEW rows \in Seq(Outcomes), d.pc = "record", Counted(d), Told(d, rows)
  PROVE  Told([d EXCEPT !.pc = IF IsLast(d) THEN "done" ELSE "send"], Append(rows, d.last))
  <1> DEFINE e == [d EXCEPT !.pc = IF IsLast(d) THEN "done" ELSE "send"]
             more == Append(rows, d.last)
  <1>1. d.last \in Outcomes /\ d.attempt = Len(rows) + 1 /\ d.attempt \in 1..d.limit /\ AllBroken(rows, Len(rows))
    BY DEF Counted, Told
  <1>2. /\ Len(more) = Len(rows) + 1 /\ more[Len(rows) + 1] = d.last
        /\ \A i \in 1..Len(rows) : more[i] = rows[i]
    BY <1>1
  <1>3. AllBroken(more, Len(rows))
    BY <1>1, <1>2 DEF AllBroken
  <1>4. e.attempt = d.attempt /\ e.last = d.last /\ e.limit = d.limit
    BY DEF Deliveries
  <1>5. CASE IsLast(d)
    <2>1. e.pc = "done"
      BY <1>5 DEF Deliveries
    <2>2. more[Len(more)] # "broken" \/ Len(more) = e.limit
      BY <1>1, <1>2, <1>4, <1>5 DEF IsLast
    <2>3. Len(more) \in 1..e.limit /\ AllBroken(more, Len(more) - 1)
      BY <1>1, <1>2, <1>3, <1>4
    <2> HIDE DEF e, more
    <2>4. Told(e, more)
      BY <2>1, <2>2, <2>3 DEF Told
    <2> QED
      BY <2>4 DEF e, more
  <1>6. CASE ~IsLast(d)
    <2>1. e.pc = "send"
      BY <1>6 DEF Deliveries
    <2>2. AllBroken(more, Len(more))
      BY <1>1, <1>2, <1>6 DEF IsLast, AllBroken
    <2>3. e.attempt = Len(more)
      BY <1>1, <1>2, <1>4
    <2> HIDE DEF e, more
    <2>4. Told(e, more)
      BY <2>1, <2>2, <2>3 DEF Told
    <2> QED
      BY <2>4 DEF e, more
  <1> QED
    BY <1>5, <1>6

LEMMA RecordCounts ==
  ASSUME NEW d \in Deliveries, d.pc = "record", Counted(d)
  PROVE  [d EXCEPT !.pc = IF IsLast(d) THEN "done" ELSE "send"] \in Deliveries
         /\ Counted([d EXCEPT !.pc = IF IsLast(d) THEN "done" ELSE "send"])
  BY AttemptsBound DEF Deliveries, Counted, IsLast

\* The loop before its first row: a look at the hook, the envelope, an attempt.
LEMMA FirstSteps ==
  ASSUME NEW d \in Deliveries, Counted(d)
  PROVE  /\ d.pc \in {"look", "compose"} =>
              LET e == [d EXCEPT !.pc = "send"] IN
              e \in Deliveries /\ Counted(e) /\ \A rows : Told(d, rows) => Told(e, rows)
         /\ LET e == [d EXCEPT !.pc = "done"] IN e \in Deliveries /\ Counted(e)
  <1>1. 0 < d.limit /\ Len(<<>>) = 0
    BY AttemptsBound DEF Deliveries
  <1>2. ASSUME d.pc \in {"look", "compose"} PROVE
          LET e == [d EXCEPT !.pc = "send"] IN
          e \in Deliveries /\ Counted(e) /\ \A rows : Told(d, rows) => Told(e, rows)
    BY <1>1, <1>2 DEF Deliveries, Counted, Told, AllBroken
  <1>3. LET e == [d EXCEPT !.pc = "done"] IN e \in Deliveries /\ Counted(e)
    BY DEF Deliveries, Counted
  <1> QED
    BY <1>2, <1>3

LEMMA PingFits ==
  LET e == [NoDelivery EXCEPT !.pc = "look", !.limit = 1] IN
  e \in Deliveries /\ Counted(e) /\ \A rows : Told(NoDelivery, rows) => Told(e, rows)
  <1> DEFINE e == [NoDelivery EXCEPT !.pc = "look", !.limit = 1]
  <1>1. 1 \in {1, MAX_ATTEMPTS}
    OBVIOUS
  <1>2. e \in Deliveries
    BY <1>1, NoDeliveryFits DEF Deliveries
  <1>3. e.pc = "look" /\ e.attempt = 0
    BY DEF NoDelivery
  <1>4. NoDelivery.pc = "none"
    BY DEF NoDelivery
  <1> HIDE DEF e
  <1>5. Counted(e) /\ \A rows : Told(NoDelivery, rows) => Told(e, rows)
    BY <1>3, <1>4 DEF Counted, Told
  <1> QED
    BY <1>2, <1>5 DEF e

LEMMA AttemptFits ==
  ASSUME NEW d \in Deliveries, Counted(d), d.pc = "send", NEW outcome \in Outcomes
  PROVE  LET e == [d EXCEPT !.pc = "record", !.attempt = d.attempt + 1, !.last = outcome] IN
         e \in Deliveries /\ Counted(e) /\ \A rows : Told(d, rows) => Told(e, rows)
  <1> DEFINE e == [d EXCEPT !.pc = "record", !.attempt = d.attempt + 1, !.last = outcome]
  <1>1. d.attempt < d.limit /\ d.attempt \in Nat /\ d.limit \in {1, MAX_ATTEMPTS}
    BY DEF Deliveries, Counted
  <1>3. e.pc = "record" /\ e.attempt = d.attempt + 1 /\ e.last = outcome /\ e.limit = d.limit
    BY DEF Deliveries
  <1>4. d.attempt + 1 \in 1..d.limit /\ d.attempt + 1 \in 0..MAX_ATTEMPTS
    BY <1>1, AttemptsBound
  <1>5. e \in Deliveries
    BY <1>1, <1>4 DEF Deliveries
  <1> HIDE DEF e
  <1>6. Counted(e)
    BY <1>3, <1>4 DEF Counted
  <1>7. \A rows : Told(d, rows) => Told(e, rows)
    BY <1>3 DEF Told
  <1> QED
    BY <1>5, <1>6, <1>7 DEF e

\* Nothing is added to the rows.
LEMMA RowsStay ==
  ASSUME Tables, NEW q \in Requests, NEW h \in Hooks, UNCHANGED log
  PROVE  log[q][h] \in Seq(Outcomes) /\ log' = [log EXCEPT ![q][h] = log[q][h]]
  BY DEF Tables

\* A step of one delivery whose rows stay.
LEMMA OneGoesOn ==
  ASSUME HookInv, NEW q \in Requests, NEW h \in Hooks, NEW d \in Deliveries,
         delivery' = [delivery EXCEPT ![q][h] = d], UNCHANGED log,
         gaps \subseteq gaps', gaps' \subseteq Requests \X Hooks, lapses' \in 0..MaxFaults,
         hooks' \in [Hooks -> {"none", "active", "paused", "gone"}],
         \A g \in Hooks : hooks'[g] # "gone" => hooks[g] # "gone",
         Counted(d),
         hooks'[h] # "gone" /\ <<q, h>> \notin gaps' /\ Told(delivery[q][h], log[q][h]) => Told(d, log[q][h])
  PROVE  HookInv'
  <1>1. Tables /\ Accounted(q, h)
    BY DEF HookInv
  <1>2. log[q][h] \in Seq(Outcomes) /\ log' = [log EXCEPT ![q][h] = log[q][h]]
    BY <1>1, RowsStay
  <1>3. hooks'[h] # "gone" /\ <<q, h>> \notin gaps' => Told(d, log[q][h])
    BY <1>1 DEF Accounted
  <1>4. /\ delivery' \in [Requests -> [Hooks -> Deliveries]]
        /\ log' \in [Requests -> [Hooks -> Seq(Outcomes)]]
        /\ \A p \in Requests, g \in Hooks : Accounted(p, g)'
    BY <1>2, <1>3, OneMoves
  <1> QED
    BY <1>4 DEF HookInv, Tables

\* The history of the hooks and the counter of lapses.
LEMMA Surroundings ==
  ASSUME Tables
  PROVE  /\ UNCHANGED <<lapses, gaps>> =>
              gaps \subseteq gaps' /\ gaps' \subseteq Requests \X Hooks /\ lapses' \in 0..MaxFaults
         /\ Lapse => lapses' \in 0..MaxFaults
         /\ UNCHANGED hooks =>
              /\ hooks' \in [Hooks -> {"none", "active", "paused", "gone"}]
              /\ \A g \in Hooks : hooks'[g] # "gone" => hooks[g] # "gone"
  <1>1. Lapse => lapses' \in 0..MaxFaults
    BY FaultBound DEF Tables, Lapse
  <1> QED
    BY <1>1 DEF Tables

LEMMA CreateHookStep ==
  ASSUME HookInv, NEW q \in Requests, NEW h \in Hooks, CreateHook(q, h)
  PROVE  HookInv'
  <1>1. Tables
    BY DEF HookInv
  <1> DEFINE e == [NoDelivery EXCEPT !.pc = "look", !.limit = 1]
  <1>2. delivery[q][h] = NoDelivery
    BY DEF CreateHook, IsNew
  <1>3. delivery' = [delivery EXCEPT ![q][h] = e]
    BY <1>1, <1>2 DEF CreateHook, Tables
  <1>4. /\ hooks' \in [Hooks -> {"none", "active", "paused", "gone"}]
        /\ \A g \in Hooks : hooks'[g] # "gone" => hooks[g] # "gone"
    BY <1>1 DEF CreateHook, Tables
  <1>5. UNCHANGED <<log, lapses, gaps>>
    BY DEF CreateHook
  <1>6. e \in Deliveries /\ Counted(e) /\ (Told(delivery[q][h], log[q][h]) => Told(e, log[q][h]))
    BY <1>2, PingFits
  <1> HIDE DEF e
  <1> QED
    BY <1>1, <1>3, <1>4, <1>5, <1>6, Surroundings, OneGoesOn

LEMMA RedeliverStep ==
  ASSUME HookInv, NEW q \in Requests, NEW source \in Requests, NEW h \in Hooks, Redeliver(q, source, h)
  PROVE  HookInv'
  <1>1. Tables
    BY DEF HookInv
  <1> DEFINE e == [NoDelivery EXCEPT !.pc = "look", !.limit = 1]
  <1>2. delivery[q][h] = NoDelivery
    BY DEF Redeliver, IsNew
  <1>3. delivery' = [delivery EXCEPT ![q][h] = e]
    BY <1>1, <1>2 DEF Redeliver, Tables
  <1>4. UNCHANGED <<hooks, log, lapses, gaps>>
    BY DEF Redeliver
  <1>5. e \in Deliveries /\ Counted(e) /\ (Told(delivery[q][h], log[q][h]) => Told(e, log[q][h]))
    BY <1>2, PingFits
  <1> HIDE DEF e
  <1> QED
    BY <1>1, <1>3, <1>4, <1>5, Surroundings, OneGoesOn

LEMMA LookUpHookStep ==
  ASSUME HookInv, NEW q \in Requests, NEW h \in Hooks, LookUpHook(q, h)
  PROVE  HookInv'
  <1>1. Tables /\ Accounted(q, h)
    BY DEF HookInv
  <1> DEFINE d == delivery[q][h]
             e == [d EXCEPT !.pc = IF hooks[h] = "gone" THEN "done" ELSE "send"]
  <1>2. d \in Deliveries /\ Counted(d) /\ d.pc = "look"
    BY <1>1 DEF Accounted, LookUpHook
  <1>3. delivery' = [delivery EXCEPT ![q][h] = e]
    BY <1>1 DEF LookUpHook, Tables
  <1>4. UNCHANGED <<hooks, log, lapses, gaps>>
    BY DEF LookUpHook
  <1>5. e \in Deliveries /\ Counted(e)
    BY <1>2, FirstSteps
  <1>6. hooks[h] # "gone" /\ Told(d, log[q][h]) => Told(e, log[q][h])
    BY <1>2, FirstSteps
  <1>7. hooks'[h] # "gone" /\ <<q, h>> \notin gaps' /\ Told(delivery[q][h], log[q][h]) => Told(e, log[q][h])
    BY <1>4, <1>6
  <1> HIDE DEF e
  <1> QED
    BY <1>1, <1>3, <1>4, <1>5, <1>7, Surroundings, OneGoesOn

LEMMA AttemptStep ==
  ASSUME HookInv, NEW q \in Requests, NEW h \in Hooks, Attempt(q, h)
  PROVE  HookInv'
  <1>1. Tables /\ Accounted(q, h)
    BY DEF HookInv
  <1> DEFINE d == delivery[q][h]
  <1>2. PICK outcome \in Outcomes :
          delivery' = [delivery EXCEPT ![q][h] =
                         [d EXCEPT !.pc = "record", !.attempt = d.attempt + 1, !.last = outcome]]
    BY DEF Attempt
  <1> DEFINE e == [d EXCEPT !.pc = "record", !.attempt = d.attempt + 1, !.last = outcome]
  <1>3. d \in Deliveries /\ Counted(d) /\ d.pc = "send"
    BY <1>1 DEF Accounted, Attempt
  <1>4. delivery' = [delivery EXCEPT ![q][h] = e]
    BY <1>1, <1>2 DEF Tables
  <1>5. UNCHANGED <<hooks, log, lapses, gaps>>
    BY DEF Attempt
  <1>6. e \in Deliveries /\ Counted(e) /\ (Told(d, log[q][h]) => Told(e, log[q][h]))
    BY <1>3, AttemptFits
  <1> HIDE DEF e
  <1> QED
    BY <1>1, <1>4, <1>5, <1>6, Surroundings, OneGoesOn

LEMMA RecordStep ==
  ASSUME HookInv, NEW q \in Requests, NEW h \in Hooks, Record(q, h)
  PROVE  HookInv'
  <1>1. Tables /\ Accounted(q, h)
    BY DEF HookInv
  <1> DEFINE d == delivery[q][h]
             e == [d EXCEPT !.pc = IF IsLast(d) THEN "done" ELSE "send"]
  <1>2. d \in Deliveries /\ Counted(d) /\ d.pc = "record" /\ log[q][h] \in Seq(Outcomes) /\ d.last \in Outcomes
    BY <1>1 DEF Accounted, Record, Counted
  <1>3. delivery' = [delivery EXCEPT ![q][h] = e]
    BY <1>1 DEF Record, Tables
  <1>4. e \in Deliveries /\ Counted(e) /\ UNCHANGED hooks
    BY <1>2, RecordCounts DEF Record
  <1>5. CASE UNCHANGED <<log, lapses, gaps>> /\ hooks[h] = "gone"
    <2> HIDE DEF e
    <2> QED
      BY <1>1, <1>3, <1>4, <1>5, Surroundings, OneGoesOn
  <1>6. CASE Lapse /\ gaps' = gaps \cup {<<q, h>>} /\ UNCHANGED log
    <2>1. gaps \subseteq gaps' /\ gaps' \subseteq Requests \X Hooks /\ <<q, h>> \in gaps' /\ lapses' \in 0..MaxFaults
      BY <1>1, <1>6, Surroundings DEF Tables
    <2> HIDE DEF e
    <2> QED
      BY <1>1, <1>3, <1>4, <1>6, <2>1, Surroundings, OneGoesOn
  <1>7. CASE UNCHANGED <<lapses, gaps>> /\ Records(q, h)
    <2> DEFINE rows == Append(log[q][h], d.last)
    <2>1. rows \in Seq(Outcomes)
      BY <1>2
    <2>2. log' = [log EXCEPT ![q][h] = rows]
      BY <1>1, <1>7 DEF Records, Tables
    <2>3. hooks'[h] # "gone" /\ <<q, h>> \notin gaps' => Told(e, rows)
      <3>1. hooks[h] # "gone" /\ <<q, h>> \notin gaps => Told(d, log[q][h])
        BY <1>1 DEF Accounted
      <3> QED
        BY <1>2, <1>4, <1>7, <3>1, RecordTells
    <2>4. /\ gaps \subseteq gaps' /\ gaps' \subseteq Requests \X Hooks /\ lapses' \in 0..MaxFaults
          /\ hooks' \in [Hooks -> {"none", "active", "paused", "gone"}]
          /\ \A g \in Hooks : hooks'[g] # "gone" => hooks[g] # "gone"
      BY <1>1, <1>4, <1>7, Surroundings
    <2> HIDE DEF e, rows
    <2>5. /\ delivery' \in [Requests -> [Hooks -> Deliveries]]
          /\ log' \in [Requests -> [Hooks -> Seq(Outcomes)]]
          /\ \A p \in Requests, g \in Hooks : Accounted(p, g)'
      BY <1>3, <1>4, <2>1, <2>2, <2>3, <2>4, OneMoves
    <2> QED
      BY <2>4, <2>5 DEF HookInv, Tables
  <1> QED
    BY <1>5, <1>6, <1>7 DEF Record

-----------------------------------------------------------------------------
(***************************************************************************)
(* Several deliveries at once                                              *)
(***************************************************************************)
LEMMA PatchHookStep ==
  ASSUME HookInv, NEW h \in Hooks, PatchHook(h)
  PROVE  HookInv'
  <1>1. Tables
    BY DEF HookInv
  <1>2. /\ hooks' \in [Hooks -> {"none", "active", "paused", "gone"}]
        /\ \A g \in Hooks : hooks'[g] # "gone" => hooks[g] # "gone"
        /\ UNCHANGED <<delivery, log, lapses, gaps>>
    BY <1>1 DEF PatchHook, Tables
  <1>3. \A q \in Requests, g \in Hooks : Accounted(q, g)'
    BY <1>2, StillAccounted
  <1> QED
    BY <1>1, <1>2, <1>3 DEF HookInv, Tables

LEMMA DeleteHookStep ==
  ASSUME HookInv, NEW h \in Hooks, DeleteHook(h)
  PROVE  HookInv'
  <1>1. Tables
    BY DEF HookInv
  <1>2. /\ hooks' \in [Hooks -> {"none", "active", "paused", "gone"}]
        /\ \A g \in Hooks : hooks'[g] # "gone" => hooks[g] # "gone"
        /\ hooks'[h] = "gone"
        /\ UNCHANGED <<delivery, lapses, gaps>>
    BY <1>1 DEF DeleteHook, Tables
  <1>3. log' = [q \in Requests |-> [log[q] EXCEPT ![h] = <<>>]] /\ <<>> \in Seq(Outcomes)
    BY DEF DeleteHook
  <1>4. log' \in [Requests -> [Hooks -> Seq(Outcomes)]]
    BY <1>1, <1>3 DEF Tables
  <1>5. ASSUME NEW q \in Requests, NEW g \in Hooks PROVE Accounted(q, g)'
    <2>1. CASE g = h
      <3>1. Accounted(q, g)
        BY DEF HookInv
      <3> QED
        BY <1>2, <1>4, <2>1, <3>1 DEF Accounted
    <2>2. CASE g # h
      <3>1. log'[q][g] = log[q][g] /\ delivery'[q][g] = delivery[q][g]
        BY <1>1, <1>2, <1>3, <2>2 DEF Tables
      <3> QED
        BY <1>2, <3>1, StillAccounted
    <2> QED
      BY <2>1, <2>2
  <1> QED
    BY <1>1, <1>2, <1>4, <1>5 DEF HookInv, Tables

LEMMA EmitEventStep ==
  ASSUME HookInv, NEW q \in Requests, EmitEvent(q)
  PROVE  HookInv'
  <1>1. Tables
    BY DEF HookInv
  <1> DEFINE e(h) == [NoDelivery EXCEPT !.pc = IF hooks[h] = "active" THEN "compose" ELSE "none"]
  <1>2. delivery' = [delivery EXCEPT ![q] = [h \in Hooks |-> e(h)]] /\ UNCHANGED <<hooks, log, lapses, gaps>>
    BY DEF EmitEvent
  <1>3. ASSUME NEW h \in Hooks
        PROVE  e(h) \in Deliveries /\ Counted(e(h)) /\ (Told(NoDelivery, log[q][h]) => Told(e(h), log[q][h]))
    <2>1. e(h) \in Deliveries
      BY NoDeliveryFits DEF Deliveries
    <2>2. e(h).pc \in {"compose", "none"} /\ e(h).attempt = 0 /\ NoDelivery.pc = "none"
      BY DEF NoDelivery
    <2> HIDE DEF e
    <2>3. Counted(e(h)) /\ (Told(NoDelivery, log[q][h]) => Told(e(h), log[q][h]))
      BY <2>2 DEF Counted, Told
    <2> QED
      BY <2>1, <2>3
  <1> HIDE DEF e
  <1>4. /\ delivery' \in [Requests -> [Hooks -> Deliveries]]
        /\ \A h \in Hooks : delivery'[q][h] = e(h)
        /\ \A p \in Requests, g \in Hooks : p # q => delivery'[p][g] = delivery[p][g]
    BY <1>1, <1>2, <1>3 DEF Tables
  <1>5. ASSUME NEW p \in Requests, NEW g \in Hooks PROVE Accounted(p, g)'
    <2>1. CASE p = q
      <3>1. delivery[q][g] = NoDelivery
        BY DEF EmitEvent, IsNew
      <3>2. Accounted(q, g) /\ log'[q][g] = log[q][g] /\ log[q][g] \in Seq(Outcomes)
        BY <1>2 DEF HookInv, Accounted
      <3>3. hooks'[g] # "gone" /\ <<q, g>> \notin gaps' => Told(e(g), log[q][g])
        BY <1>2, <1>3, <3>1, <3>2 DEF Accounted
      <3> QED
        BY <1>3, <1>4, <2>1, <3>2, <3>3, NewlyAccounted
    <2>2. CASE p # q
      BY <1>2, <1>4, <2>2, StillAccounted
    <2> QED
      BY <2>1, <2>2
  <1> QED
    BY <1>1, <1>2, <1>4, <1>5 DEF HookInv, Tables

LEMMA ComposeStep ==
  ASSUME HookInv, NEW q \in Requests, Compose(q)
  PROVE  HookInv'
  <1>1. Tables /\ UNCHANGED <<hooks, log>>
    BY DEF HookInv, Compose
  <1>2. gaps \subseteq gaps' /\ gaps' \subseteq Requests \X Hooks /\ lapses' \in 0..MaxFaults
    <2>1. Composing(q) \subseteq Hooks
      BY DEF Composing
    <2> QED
      BY <1>1, <2>1, Surroundings DEF Compose, Tables
  <1>3. PICK pc \in {"send", "done"} :
          /\ AllGo(q, Composing(q), pc)
          /\ pc = "done" => \A h \in Composing(q) : <<q, h>> \in gaps'
    BY DEF Compose
  <1> DEFINE e(h) == IF h \in Composing(q) THEN [delivery[q][h] EXCEPT !.pc = pc] ELSE delivery[q][h]
  <1>4. delivery' = [delivery EXCEPT ![q] = [h \in Hooks |-> e(h)]]
    BY <1>3 DEF AllGo
  <1>5. ASSUME NEW h \in Hooks
        PROVE  /\ e(h) \in Deliveries /\ Counted(e(h))
               /\ <<q, h>> \notin gaps' /\ Told(delivery[q][h], log[q][h]) => Told(e(h), log[q][h])
    <2>1. delivery[q][h] \in Deliveries /\ Counted(delivery[q][h])
      BY DEF HookInv, Accounted
    <2>2. CASE h \notin Composing(q)
      BY <2>1, <2>2
    <2>3. CASE h \in Composing(q) /\ pc = "send"
      BY <2>1, <2>3, FirstSteps DEF Composing
    <2>4. CASE h \in Composing(q) /\ pc = "done"
      BY <1>3, <2>1, <2>4, FirstSteps
    <2> QED
      BY <2>2, <2>3, <2>4
  <1> HIDE DEF e
  <1>6. /\ delivery' \in [Requests -> [Hooks -> Deliveries]]
        /\ \A h \in Hooks : delivery'[q][h] = e(h)
        /\ \A p \in Requests, g \in Hooks : p # q => delivery'[p][g] = delivery[p][g]
    BY <1>1, <1>4, <1>5 DEF Tables
  <1>7. ASSUME NEW p \in Requests, NEW g \in Hooks PROVE Accounted(p, g)'
    <2>1. CASE p = q
      <3>1. Accounted(q, g) /\ log'[q][g] = log[q][g] /\ log[q][g] \in Seq(Outcomes)
        BY <1>1 DEF HookInv, Accounted
      <3>2. hooks'[g] # "gone" /\ <<q, g>> \notin gaps' => Told(e(g), log[q][g])
        BY <1>1, <1>2, <1>5, <3>1 DEF Accounted
      <3> QED
        BY <1>5, <1>6, <2>1, <3>1, <3>2, NewlyAccounted
    <2>2. CASE p # q
      BY <1>1, <1>2, <1>6, <2>2, StillAccounted
    <2> QED
      BY <2>1, <2>2
  <1> QED
    BY <1>1, <1>2, <1>6, <1>7 DEF HookInv, Tables

LEMMA RestartSenderStep ==
  ASSUME HookInv, RestartSender
  PROVE  HookInv'
  <1>1. Tables /\ UNCHANGED <<hooks, log>> /\ lapses' \in 0..MaxFaults
    BY Surroundings DEF HookInv, RestartSender
  <1>2. gaps \subseteq gaps' /\ gaps' \subseteq Requests \X Hooks
    BY <1>1 DEF RestartSender, Tables
  <1> DEFINE e(q, h) == IF UnderWay(delivery[q][h]) THEN [delivery[q][h] EXCEPT !.pc = "done"] ELSE delivery[q][h]
  <1>3. delivery' = [q \in Requests |-> [h \in Hooks |-> e(q, h)]]
    BY DEF RestartSender
  <1>4. ASSUME NEW q \in Requests, NEW h \in Hooks
        PROVE  /\ e(q, h) \in Deliveries /\ Counted(e(q, h))
               /\ <<q, h>> \notin gaps' => e(q, h) = delivery[q][h]
    <2>1. delivery[q][h] \in Deliveries /\ Counted(delivery[q][h])
      BY DEF HookInv, Accounted
    <2>2. CASE ~UnderWay(delivery[q][h])
      BY <2>1, <2>2
    <2>3. CASE UnderWay(delivery[q][h])
      <3>1. <<q, h>> \in gaps'
        BY <2>3 DEF RestartSender
      <3>2. e(q, h) \in Deliveries /\ Counted(e(q, h))
        BY <2>1, <2>3, FirstSteps
      <3> QED
        BY <3>1, <3>2
    <2> QED
      BY <2>2, <2>3
  <1> HIDE DEF e
  <1>5. delivery' \in [Requests -> [Hooks -> Deliveries]] /\ \A q \in Requests, h \in Hooks : delivery'[q][h] = e(q, h)
    BY <1>3, <1>4
  <1>6. ASSUME NEW q \in Requests, NEW h \in Hooks PROVE Accounted(q, h)'
    <2>1. Accounted(q, h) /\ log'[q][h] = log[q][h] /\ log[q][h] \in Seq(Outcomes)
      BY <1>1 DEF HookInv, Accounted
    <2>2. hooks'[h] # "gone" /\ <<q, h>> \notin gaps' => Told(e(q, h), log[q][h])
      BY <1>1, <1>2, <1>4, <2>1 DEF Accounted
    <2> QED
      BY <1>4, <1>5, <2>1, <2>2, NewlyAccounted
  <1> QED
    BY <1>1, <1>2, <1>5, <1>6 DEF HookInv, Tables

-----------------------------------------------------------------------------
LEMMA HookInvStep == HookInv /\ [HooksNext]_hookVars => HookInv'
  <1> SUFFICES ASSUME HookInv, [HooksNext]_hookVars PROVE HookInv'
    OBVIOUS
  <1>1. CASE UNCHANGED hookVars
    <2>1. \A q \in Requests, h \in Hooks : Accounted(q, h)'
      BY <1>1, StillAccounted DEF hookVars
    <2> QED
      BY <1>1, <2>1 DEF hookVars, HookInv, Tables
  <1> QED
    BY <1>1, PatchHookStep, DeleteHookStep, EmitEventStep, ComposeStep, CreateHookStep, LookUpHookStep,
       AttemptStep, RecordStep, RedeliverStep, RestartSenderStep DEF HooksNext

LEMMA HookInvHolds == HooksSpec => []HookInv
  BY HookInvInit, HookInvStep, PTL DEF HooksSpec

(***************************************************************************)
(* The log of a webhook explains each delivery that is over and was not    *)
(* cut off: its attempts in order, all but the last broken, the last       *)
(* answered or the last allowed (webhook-service.ts, deliverWithRetries).  *)
(***************************************************************************)
THEOREM DeliveriesExplained == HooksSpec => []ExplainedByLog
  <1>1. HookInv => ExplainedByLog
    <2> SUFFICES ASSUME HookInv, NEW q \in Requests, NEW h \in Hooks,
                        delivery[q][h].pc = "done", hooks[h] # "gone", <<q, h>> \notin gaps
                 PROVE  LET d == delivery[q][h]  rows == log[q][h]  n == Len(rows) IN
                          /\ n \in 1..d.limit
                          /\ rows[n] # "broken" \/ n = d.limit
                          /\ \A i \in 1..(n - 1) : rows[i] = "broken"
      BY DEF ExplainedByLog
    <2>1. Told(delivery[q][h], log[q][h])
      BY DEF HookInv, Accounted
    <2> QED
      BY <2>1 DEF Told, AllBroken
  <1> QED
    BY <1>1, HookInvHolds, PTL

(***************************************************************************)
(* No delivery is attempted more than MAX_ATTEMPTS times, and rows keep    *)
(* their types (webhook-service.ts, MAX_ATTEMPTS).                         *)
(***************************************************************************)
THEOREM HookTypes == HooksSpec => []HooksTypeOK
  <1>1. HookInv => HooksTypeOK
    BY TablesAreTypes DEF HookInv
  <1> QED
    BY <1>1, HookInvHolds, PTL

(***************************************************************************)
(* The log of a job, for every cap, every marker and all sizes of what is  *)
(* written.                                                                *)
(***************************************************************************)

\* Until the cap is crossed, everything offered is in the file; the file is full then.
CountsAgree ==
  IF truncated THEN offered > ContentCap /\ stored = ContentCap /\ marked
  ELSE offered <= ContentCap /\ stored = offered /\ written = offered /\ ~marked

SinkInv == SinkTypeOK /\ CountsAgree /\ PausedWillResume

LEMMA CapIsNatural == ContentCap \in Nat /\ (Cap >= Marker => ContentCap + Marker <= Cap)
  BY SinkBounds DEF ContentCap, CutAt

LEMMA SinkInvInit == SinkInit => SinkInv
  <1> SUFFICES ASSUME SinkInit PROVE SinkInv
    OBVIOUS
  <1>1. SinkTypeOK
    BY DEF SinkInit, SinkTypeOK
  <1>2. CountsAgree
    BY CapIsNatural DEF SinkInit, CountsAgree
  <1> QED
    BY <1>1, <1>2 DEF SinkInit, SinkInv, PausedWillResume

\* What any write does to the sink, whoever writes.
LEMMA WriteKeeps ==
  ASSUME SinkInv, NEW size \in Chunks, Offer(size), Drop(size) \/ Fits(size) \/ Crosses(size)
  PROVE  /\ CountsAgree'
         /\ written' \in Nat /\ stored' \in Nat /\ offered' \in Nat
         /\ truncated' \in BOOLEAN /\ marked' \in BOOLEAN /\ congested' \in BOOLEAN
         /\ congested => congested'
  <1>0. size \in Nat /\ ContentCap \in Nat /\ ContentCap' = ContentCap /\ Marker \in Nat
    BY SinkBounds, CapIsNatural DEF ContentCap, CutAt
  <1>t. SinkTypeOK /\ CountsAgree
    BY DEF SinkInv
  <1>o. offered' = offered + size /\ offered' \in Nat
    BY <1>0, <1>t DEF Offer, SinkTypeOK
  <1>1. CASE Drop(size)
    <2>1. truncated /\ UNCHANGED <<written, truncated, stored, marked, congested>>
      BY <1>1 DEF Drop
    <2>2. CountsAgree'
      BY <2>1, <1>0, <1>t, <1>o DEF CountsAgree, SinkTypeOK
    <2> QED
      BY <2>1, <2>2, <1>o, <1>t DEF SinkTypeOK
  <1>2. CASE Fits(size)
    <2>1. congested' \in BOOLEAN /\ (congested => congested')
      BY <1>2, <1>t DEF Fits, SinkTypeOK
    <2>2. ~truncated /\ ~truncated' /\ ~marked' /\ size <= ContentCap - written
          /\ written' = written + size /\ stored' = stored + size
      BY <1>2, <1>t DEF Fits, CountsAgree
    <2>3. CountsAgree' /\ written' \in Nat /\ stored' \in Nat
      BY <2>2, <1>0, <1>t, <1>o DEF CountsAgree, SinkTypeOK
    <2>4. truncated' \in BOOLEAN /\ marked' \in BOOLEAN
      BY <1>2, <1>t DEF Fits, SinkTypeOK
    <2> QED
      BY <2>1, <2>3, <2>4, <1>o
  <1>3. CASE Crosses(size)
    <2>1. congested' \in BOOLEAN /\ (congested => congested')
      BY <1>3, <1>t DEF Crosses, SinkTypeOK
    <2>2. ~truncated /\ size > ContentCap - written
      BY <1>3 DEF Crosses
    <2>3. written = offered /\ stored = offered /\ offered <= ContentCap
      BY <2>2, <1>t DEF CountsAgree
    <2>4. CutAt(ContentCap - written) = ContentCap - written
      BY <1>0, <2>3, <1>t DEF CutAt, SinkTypeOK
    <2>5. stored' = ContentCap /\ written' = ContentCap + Marker
      BY <1>3, <2>3, <2>4, <1>0, <1>t DEF Crosses, SinkTypeOK
    <2>6. offered' > ContentCap
      BY <1>o, <1>0, <2>2, <2>3, <1>t DEF SinkTypeOK
    <2>7. truncated' = TRUE /\ marked' = TRUE
      BY <1>3 DEF Crosses
    <2>8. CountsAgree'
      BY <2>5, <2>6, <2>7, <1>0 DEF CountsAgree
    <2> QED
      BY <2>1, <2>5, <2>7, <2>8, <1>0, <1>o
  <1> QED
    BY <1>1, <1>2, <1>3

LEMMA SinkInvStep == SinkInv /\ [SinkNext]_sinkVars => SinkInv'
  <1> SUFFICES ASSUME SinkInv, [SinkNext]_sinkVars PROVE SinkInv'
    OBVIOUS
  <1>1. CASE Drain
    BY <1>1 DEF Drain, SinkInv, SinkTypeOK, CountsAgree, PausedWillResume, ContentCap, CutAt
  <1>2. ASSUME NEW size \in Chunks, Frame(size) PROVE SinkInv'
    BY <1>2, WriteKeeps DEF Frame, SinkInv, SinkTypeOK, PausedWillResume
  <1>3. ASSUME NEW size \in Chunks, NEW pipe \in Pipes, PipeData(pipe, size) PROVE SinkInv'
    <2>1. /\ CountsAgree'
          /\ written' \in Nat /\ stored' \in Nat /\ offered' \in Nat
          /\ truncated' \in BOOLEAN /\ marked' \in BOOLEAN /\ congested' \in BOOLEAN
          /\ congested => congested'
      BY <1>3, WriteKeeps DEF PipeData
    <2>2. paused' \subseteq Pipes /\ PausedWillResume'
      BY <1>3, <2>1 DEF PipeData, SinkInv, SinkTypeOK, PausedWillResume
    <2> QED
      BY <2>1, <2>2 DEF SinkInv, SinkTypeOK
  <1>4. CASE UNCHANGED sinkVars
    BY <1>4 DEF sinkVars, SinkInv, SinkTypeOK, CountsAgree, PausedWillResume, ContentCap, CutAt
  <1> QED
    BY <1>1, <1>2, <1>3, <1>4 DEF SinkNext

LEMMA SinkInvHolds == SinkSpec => []SinkInv
  BY SinkInvInit, SinkInvStep, PTL DEF SinkSpec

(***************************************************************************)
(* Whatever the sizes of the chunks, and however the job's output and the  *)
(* runner's own lines alternate, the file holds the first bytes of what    *)
(* was offered, is marked exactly when something was left out, and with    *)
(* its marker stays within the cap (log-sink.ts, LogSink.write).           *)
(***************************************************************************)
THEOREM LogPrefix == SinkSpec => []LogIsMarkedPrefix
  <1>1. SinkInv => LogIsMarkedPrefix
    BY CapIsNatural, SinkBounds DEF SinkInv, SinkTypeOK, CountsAgree, LogIsMarkedPrefix
  <1> QED
    BY <1>1, SinkInvHolds, PTL

(***************************************************************************)
(* A pipe is paused only while the file's stream still owes the drain      *)
(* event that resumes it (log-sink.ts, pipe).                              *)
(***************************************************************************)
THEOREM PipesResume == SinkSpec => []PausedWillResume
  <1>1. SinkInv => PausedWillResume
    BY DEF SinkInv
  <1> QED
    BY <1>1, SinkInvHolds, PTL

(***************************************************************************)
(* The files of a design (design-storage.ts, routes/designs.ts).  Up to    *)
(* the record of its version, an upload that shares its number with nobody *)
(* has its file to itself; and the versions are numbered without a gap,    *)
(* because the one that is recorded but not yet the current one keeps      *)
(* every other from being recorded.                                        *)
(***************************************************************************)
Aiming == {"open", "write", "record", "current"}
Holding == {"write", "record", "current"}
Begun == {q \in Requests : upload[q].pc # "new"}

Uploads == [pc: {"new", "make", "open", "write", "record", "current", "unlink", "erase", "done"},
            design: Requests \cup {None}, version: 0..Cardinality(Requests), fresh: BOOLEAN,
            inode: Requests \cup {None}]
DesignRows == [id: Requests, current: 0..Cardinality(Requests)]
VersionRows == [design: Requests, version: Numbers, by: Requests]
DesignFiles == [inode: Requests, bytes: SUBSET Requests]

TablesOfDesigns ==
  /\ design \in DesignRows \cup {None} /\ versions \subseteq VersionRows
  /\ files \in [StorageKeys -> DesignFiles \cup {None}]
  /\ faults \in 0..MaxFaults /\ spoiled \subseteq StorageKeys /\ adrift \subseteq Requests
UploadsKnow ==
  /\ upload \in [Requests -> Uploads]
  /\ \A q \in Requests : upload[q].pc \in Aiming => upload[q].version \in Numbers
  /\ \A q \in Requests : upload[q].pc \in Aiming \cup {"unlink", "erase"} => upload[q].design \in Requests

RowsAreOfTheDesign ==
  /\ \A v \in versions : IsThere(v.design)
  /\ \A v, w \in versions : v.design = w.design /\ v.version = w.version => v = w

\* The id of a design is a request that made one, and none that has still to.
Maker(id) == upload[id].pc \notin {"new", "make"}
IdsAreNew ==
  /\ \A q \in Requests : upload[q].design # None => Maker(upload[q].design)
  /\ design # None => Maker(design.id)

\* No number is above the requests that have begun.
NumbersSuffice ==
  /\ design # None => design.current <= Cardinality(Begun)
  /\ \A q \in Requests : upload[q].pc \in Aiming => upload[q].version <= Cardinality(Begun)

FileInHand ==
  \A q \in Requests : upload[q].pc \in {"write", "record"} /\ KeyOf(q) \notin spoiled =>
    /\ files[KeyOf(q)] # None /\ files[KeyOf(q)].bytes = {q}
    /\ \A v \in versions : <<v.design, v.version>> # KeyOf(q)
FilesApart ==
  \A p, q \in Requests : p # q /\ upload[p].pc \in Holding /\ upload[q].pc \in Holding /\ KeyOf(p) = KeyOf(q)
    => KeyOf(p) \in spoiled
FilesOfVersions == \A v \in versions : <<v.design, v.version>> \notin spoiled => StoredWhole(v)

RecordedOwn ==
  \A q \in Requests : upload[q].pc = "current" /\ IsThere(upload[q].design) =>
    \E v \in versions : v.design = upload[q].design /\ v.version = upload[q].version /\ v.by = q

Finishing == {q \in Requests : upload[q].pc = "current" /\ IsThere(upload[q].design)}
VersionNumbers == {v.version : v \in versions}
InOrder ==
  design # None /\ design.id \notin adrift =>
    /\ \A q \in Requests : upload[q].pc \in Aiming /\ upload[q].design = design.id =>
         upload[q].version <= design.current + 1
    /\ \A q \in Finishing : upload[q].version = design.current + 1
    /\ VersionNumbers = 1..(IF Finishing = {} THEN design.current ELSE design.current + 1)

DesignInv == /\ TablesOfDesigns /\ UploadsKnow /\ RowsAreOfTheDesign /\ IdsAreNew /\ NumbersSuffice
             /\ FileInHand /\ FilesApart /\ FilesOfVersions /\ RecordedOwn /\ InOrder

\* Numbers of requests.
LEMMA RequestCount == Cardinality(Requests) \in Nat /\ Numbers = 1..Cardinality(Requests)
BY RequestsAreFinite, FS_CardinalityType DEF Numbers

LEMMA BegunCount == Begun \subseteq Requests /\ Cardinality(Begun) \in Nat /\ Cardinality(Begun) <= Cardinality(Requests)
<1>1. Begun \subseteq Requests
  BY DEF Begun
<1>2. QED
  BY <1>1, RequestsAreFinite, FS_Subset, FS_CardinalityType

\* What becomes of the requests that have begun.
LEMMA BeginsOne ==
  ASSUME NEW q \in Requests, upload[q].pc = "new", upload'[q].pc # "new",
         \A p \in Requests \ {q} : upload'[p] = upload[p]
  PROVE  Cardinality(Begun)' = Cardinality(Begun) + 1 /\ Cardinality(Begun)' <= Cardinality(Requests)
<1>1. Begun' = Begun \cup {q} /\ q \notin Begun
  BY DEF Begun
<1>2. IsFiniteSet(Begun) /\ Begun' \subseteq Requests
  BY <1>1, BegunCount, RequestsAreFinite, FS_Subset
<1>3. Cardinality(Begun') = Cardinality(Begun) + 1
  BY <1>1, <1>2, FS_AddElement
<1>4. Cardinality(Begun') <= Cardinality(Requests)
  BY <1>2, RequestsAreFinite, FS_Subset
<1>5. QED
  BY <1>3, <1>4

LEMMA BeginsNone ==
  ASSUME NEW q \in Requests, upload[q].pc # "new", upload'[q].pc # "new",
         \A p \in Requests \ {q} : upload'[p] = upload[p]
  PROVE  Begun' = Begun
BY DEF Begun

LEMMA UploadMoves ==
  ASSUME UploadsKnow, NEW q \in Requests, NEW u, Proceeds(q, u)
  PROVE  /\ upload'[q] = u /\ \A p \in Requests \ {q} : upload'[p] = upload[p]
         /\ u \in Uploads => upload' \in [Requests -> Uploads]
BY DEF UploadsKnow, Proceeds

\* The rows of a design go together.
LEMMA EraseKeeps ==
  ASSUME RowsAreOfTheDesign, NEW id, EraseDesign(id)
  PROVE  (design' = None /\ versions' = {}) \/ (design' = design /\ versions' = versions)
<1>1. CASE IsThere(id)
  <2>1. \A v \in versions : v.design = id
    BY <1>1 DEF RowsAreOfTheDesign, IsThere
  <2>2. QED
    BY <1>1, <2>1 DEF EraseDesign
<1>2. CASE ~IsThere(id)
  <2>1. \A v \in versions : v.design # id
    BY <1>2 DEF RowsAreOfTheDesign
  <2>2. QED
    BY <1>2, <2>1 DEF EraseDesign
<1>3. QED
  BY <1>1, <1>2

\* What an upload knows when it has nothing to do with files.
LEMMA PlainUploads ==
  /\ NotStarted \in Uploads /\ NotStarted.pc = "new" /\ NotStarted.design = None
  /\ [NotStarted EXCEPT !.pc = "done"] \in Uploads
  /\ [NotStarted EXCEPT !.pc = "done"].pc = "done" /\ [NotStarted EXCEPT !.pc = "done"].design = None
  /\ [NotStarted EXCEPT !.pc = "make"] \in Uploads
  /\ [NotStarted EXCEPT !.pc = "make"].pc = "make" /\ [NotStarted EXCEPT !.pc = "make"].design = None
<1>1. 0 \in 0..Cardinality(Requests)
  BY RequestCount
<1>2. NotStarted \in Uploads /\ NotStarted.pc = "new" /\ NotStarted.design = None
  BY <1>1 DEF NotStarted, Uploads
<1>3. ASSUME NEW c \in {"done", "make"}
      PROVE  LET u == [NotStarted EXCEPT !.pc = c] IN u \in Uploads /\ u.pc = c /\ u.design = None
  BY <1>1 DEF NotStarted, Uploads
<1>4. QED
  BY <1>2, <1>3

\* A request that takes up or gives up, and leaves the rows and files as they are.
LEMMA LookStep ==
  ASSUME DesignInv, NEW q \in Requests, NEW u \in Uploads, Proceeds(q, u), upload[q].pc = "new",
         u.pc \in {"make", "open", "unlink"},
         u.pc = "make" => u.design = None,
         u.pc # "make" => design # None /\ u.design = design.id,
         u.pc = "open" => u.version = design.current + 1,
         UNCHANGED <<design, versions, files, faults, spoiled, adrift>>
  PROVE  DesignInv'
<1>1. /\ upload'[q] = u /\ \A p \in Requests \ {q} : upload'[p] = upload[p]
      /\ upload' \in [Requests -> Uploads]
  BY UploadMoves DEF DesignInv
<1>2. /\ TablesOfDesigns /\ UploadsKnow /\ RowsAreOfTheDesign /\ IdsAreNew /\ NumbersSuffice
      /\ FileInHand /\ FilesApart /\ FilesOfVersions /\ RecordedOwn /\ InOrder
  BY DEF DesignInv
<1>3. design # None => design.id \in Requests /\ design.id # q /\ design.current \in Nat
  BY <1>2, RequestCount DEF TablesOfDesigns, DesignRows, IdsAreNew, Maker
<1>4. Cardinality(Begun)' = Cardinality(Begun) + 1 /\ Cardinality(Begun)' <= Cardinality(Requests)
  BY <1>1, BeginsOne
<1>5. /\ Cardinality(Begun) \in Nat /\ Cardinality(Begun)' \in Nat /\ Cardinality(Requests) \in Nat
  BY <1>4, BegunCount, RequestCount
<1>6. u.pc = "open" => u.version \in Numbers /\ u.version <= Cardinality(Begun)'
  BY <1>2, <1>3, <1>4, <1>5, RequestCount DEF NumbersSuffice
<1>7. TablesOfDesigns'
  BY <1>2 DEF TablesOfDesigns, Numbers, StorageKeys
<1>8. UploadsKnow'
  BY <1>1, <1>2, <1>3, <1>6 DEF UploadsKnow, Aiming
<1>9. RowsAreOfTheDesign'
  BY <1>2 DEF RowsAreOfTheDesign, IsThere
<1>10. IdsAreNew'
  <2>1. \A p \in Requests : upload[p].design # None => upload[p].design \in Requests \ {q}
    BY <1>2 DEF IdsAreNew, Maker, UploadsKnow, Uploads
  <2>2. QED
    BY <1>1, <1>2, <1>3, <2>1 DEF IdsAreNew, Maker
<1>11. NumbersSuffice'
  <2>1. design # None => design.current <= Cardinality(Begun)'
    BY <1>2, <1>3, <1>4, <1>5 DEF NumbersSuffice
  <2>2. ASSUME NEW p \in Requests, upload'[p].pc \in Aiming PROVE upload'[p].version <= Cardinality(Begun)'
    <3>1. CASE p = q
      BY <1>1, <1>6, <2>2, <3>1 DEF Aiming
    <3>2. CASE p # q
      <4>1. upload'[p] = upload[p] /\ upload[p].version \in Nat /\ upload[p].version <= Cardinality(Begun)
        BY <1>1, <1>2, <1>5, <2>2, <3>2 DEF NumbersSuffice, UploadsKnow, Numbers
      <4>2. QED
        BY <1>4, <1>5, <4>1
    <3>3. QED
      BY <3>1, <3>2
  <2>3. QED
    BY <2>1, <2>2 DEF NumbersSuffice
<1>12. \A p \in Requests : upload'[p].pc \in Holding => p # q /\ upload'[p] = upload[p] /\ KeyOf(p)' = KeyOf(p)
  BY <1>1 DEF Holding, KeyOf
<1>13. FileInHand' /\ FilesApart'
  <2>1. FileInHand'
    BY <1>2, <1>12 DEF FileInHand, Holding
  <2>2. FilesApart'
    BY <1>2, <1>12 DEF FilesApart
  <2>3. QED
    BY <2>1, <2>2
<1>14. FilesOfVersions'
  BY <1>2 DEF FilesOfVersions, StoredWhole
<1>15. RecordedOwn'
  BY <1>2, <1>12 DEF RecordedOwn, Holding, IsThere
<1>16. InOrder'
  <2>1. Finishing' = Finishing
    BY <1>1, <1>12 DEF Finishing, Holding, IsThere
  <2> SUFFICES ASSUME design # None, design.id \notin adrift
               PROVE  /\ \A p \in Requests : upload'[p].pc \in Aiming /\ upload'[p].design = design.id =>
                           upload'[p].version <= design.current + 1
                      /\ \A p \in Finishing : upload'[p].version = design.current + 1
                      /\ VersionNumbers = 1..(IF Finishing = {} THEN design.current ELSE design.current + 1)
    BY <2>1 DEF InOrder, VersionNumbers
  <2>2. \A p \in Requests : upload'[p].pc \in Aiming /\ upload'[p].design = design.id =>
          upload'[p].version <= design.current + 1
    BY <1>1, <1>2, <1>3 DEF InOrder, Aiming
  <2>3. \A p \in Finishing : upload'[p].version = design.current + 1
    BY <1>2, <1>12, <2>1 DEF InOrder, Finishing, Holding
  <2>4. QED
    BY <1>2, <2>2, <2>3 DEF InOrder
<1>17. QED
  BY <1>7, <1>8, <1>9, <1>10, <1>11, <1>13, <1>14, <1>15, <1>16 DEF DesignInv

LEMMA FindDesignStep ==
  ASSUME DesignInv, NEW q \in Requests, FindDesign(q)
  PROVE  DesignInv'
<1>1. upload[q].pc = "new" /\ UNCHANGED <<design, versions, files, faults, spoiled, adrift>>
  BY DEF FindDesign
<1>2. CASE design = None
  <2>1. Proceeds(q, [NotStarted EXCEPT !.pc = "make"])
    BY <1>2 DEF FindDesign
  <2>2. QED
    BY <1>1, <2>1, PlainUploads, LookStep
<1>3. CASE design # None
  <2> DEFINE u == [NotStarted EXCEPT !.pc = "open", !.design = design.id, !.version = design.current + 1]
  <2>1. Proceeds(q, u)
    BY <1>3 DEF FindDesign
  <2>2. design.id \in Requests /\ design.current + 1 \in 0..Cardinality(Requests)
    <3>1. design \in DesignRows /\ design.current <= Cardinality(Begun)
      BY <1>3 DEF DesignInv, TablesOfDesigns, NumbersSuffice
    <3>2. design.current \in Nat /\ Cardinality(Begun) < Cardinality(Requests)
      <4>1. q \in Requests \ Begun /\ Begun # Requests
        BY <1>1 DEF Begun
      <4>2. QED
        BY <3>1, <4>1, BegunCount, RequestCount, RequestsAreFinite, FS_Subset DEF DesignRows
    <3>3. QED
      BY <3>1, <3>2, BegunCount, RequestCount DEF DesignRows
  <2>3. u \in Uploads /\ u.pc = "open" /\ u.design = design.id /\ u.version = design.current + 1
    BY <2>2 DEF NotStarted, Uploads
  <2> HIDE DEF u
  <2>4. QED
    BY <1>1, <1>3, <2>1, <2>3, LookStep
<1>4. QED
  BY <1>2, <1>3

\* The versions of a design have as many numbers at most as there are requests.
LEMMA VersionsAreFew ==
  ASSUME DesignInv
  PROVE  Cardinality(versions) \in 0..Cardinality(Requests)
<1> DEFINE f == [v \in versions |-> v.version]
<1>1. f \in Injection(versions, Numbers)
  <2>1. versions \subseteq VersionRows /\ RowsAreOfTheDesign
    BY DEF DesignInv, TablesOfDesigns
  <2>2. f \in [versions -> Numbers]
    BY <2>1 DEF VersionRows
  <2>3. ASSUME NEW v \in versions, NEW w \in versions, v.version = w.version PROVE v = w
    BY <2>1, <2>3 DEF RowsAreOfTheDesign, IsThere
  <2>4. QED
    BY <2>2, <2>3 DEF Injection, IsInjective
<1>2. IsFiniteSet(Numbers) /\ Cardinality(Numbers) = Cardinality(Requests)
  BY RequestCount, FS_Interval
<1> HIDE DEF f
<1>3. IsFiniteSet(versions) /\ Cardinality(versions) <= Cardinality(Numbers)
  BY <1>1, <1>2, FS_Injection
<1>4. QED
  BY <1>2, <1>3, RequestCount, FS_CardinalityType

LEMMA FindToDeleteStep ==
  ASSUME DesignInv, NEW q \in Requests, FindToDelete(q)
  PROVE  DesignInv'
<1> DEFINE u == [NotStarted EXCEPT !.pc = "unlink", !.design = design.id, !.version = Cardinality(versions)]
<1>1. upload[q].pc = "new" /\ design # None /\ Proceeds(q, u)
      /\ UNCHANGED <<design, versions, files, faults, spoiled, adrift>>
  BY DEF FindToDelete
<1>2. design.id \in Requests
  BY <1>1 DEF DesignInv, TablesOfDesigns, DesignRows
<1>3. u \in Uploads /\ u.pc = "unlink" /\ u.design = design.id
  BY <1>2, VersionsAreFew DEF NotStarted, Uploads
<1> HIDE DEF u
<1>4. QED
  BY <1>1, <1>3, LookStep

\* A request under way knows what it should after it proceeds.
LEMMA KnowledgeStep ==
  ASSUME DesignInv, NEW q \in Requests, NEW u \in Uploads, Proceeds(q, u), upload[q].pc # "new",
         u.pc \notin {"new", "make"},
         u.pc \in Aiming => u.version \in Numbers /\ u.version <= Cardinality(Begun),
         u.pc \in Aiming \cup {"unlink", "erase"} => u.design \in Requests,
         u.design \in {None, q, upload[q].design},
         design' \in {design, None} \/ (/\ design' \in DesignRows /\ design'.current <= Cardinality(Begun)
                                        /\ design'.id = q \/ (design # None /\ design'.id = design.id))
  PROVE  UploadsKnow' /\ IdsAreNew' /\ NumbersSuffice'
<1>1. /\ upload'[q] = u /\ \A p \in Requests \ {q} : upload'[p] = upload[p]
      /\ upload' \in [Requests -> Uploads]
  BY UploadMoves DEF DesignInv
<1>2. UploadsKnow /\ IdsAreNew /\ NumbersSuffice
  BY DEF DesignInv
<1>3. Begun' = Begun
  BY <1>1, BeginsNone
<1>4. UploadsKnow'
  BY <1>1, <1>2 DEF UploadsKnow
<1>5. \A p \in Requests : upload[p].pc \notin {"new", "make"} \/ p = q => upload'[p].pc \notin {"new", "make"}
  BY <1>1
<1>6. IdsAreNew'
  <2>1. ASSUME NEW p \in Requests, upload'[p].design # None
        PROVE  upload'[upload'[p].design].pc \notin {"new", "make"}
    <3>1. CASE upload'[p].design = q
      BY <1>5, <3>1
    <3>2. CASE upload'[p].design # q
      <4>1. upload'[p].design = upload[p].design
        BY <1>1, <2>1, <3>2
      <4>2. upload[p].design \in Requests /\ upload[upload[p].design].pc \notin {"new", "make"}
        <5>1. upload[p].design \in Requests
          BY <1>2, <2>1, <4>1 DEF UploadsKnow, Uploads
        <5>2. QED
          BY <1>2, <2>1, <4>1, <5>1 DEF IdsAreNew, Maker
      <4>3. QED
        BY <1>5, <4>1, <4>2
    <3>3. QED
      BY <3>1, <3>2
  <2>2. ASSUME design' # None PROVE upload'[design'.id].pc \notin {"new", "make"}
    <3>1. design'.id = q \/ (design # None /\ design'.id = design.id)
      BY <2>2
    <3>2. design # None => design.id \in Requests /\ upload[design.id].pc \notin {"new", "make"}
      <4>1. design # None => design.id \in Requests
        BY DEF DesignInv, TablesOfDesigns, DesignRows
      <4>2. QED
        BY <1>2, <4>1 DEF IdsAreNew, Maker
    <3>3. design'.id \in Requests /\ (upload[design'.id].pc \notin {"new", "make"} \/ design'.id = q)
      BY <3>1, <3>2
    <3>4. QED
      BY <1>5, <3>3
  <2>3. QED
    BY <2>1, <2>2 DEF IdsAreNew, Maker
<1>7. NumbersSuffice'
  BY <1>1, <1>2, <1>3 DEF NumbersSuffice
<1>8. QED
  BY <1>4, <1>6, <1>7

\* A request that gives up its upload, or goes on deleting: the keys it removes are spoiled or its own.
LEMMA GiveUpStep ==
  ASSUME DesignInv, NEW q \in Requests, NEW u \in Uploads, Proceeds(q, u), upload[q].pc \notin {"new", "current"},
         \/ u.pc = "done" /\ u.design = None
         \/ u.pc = "erase" /\ u.design \in Requests /\ u.design = upload[q].design,
         NEW keys, Unlink(keys),
         \A k \in keys : \/ k \in spoiled'
                         \/ /\ \A p \in Requests \ {q} : upload[p].pc \in Holding => KeyOf(p) # k
                            /\ \A v \in versions : <<v.design, v.version>> # k,
         spoiled \subseteq spoiled', spoiled' \subseteq StorageKeys,
         (design' = None /\ versions' = {}) \/ UNCHANGED <<design, versions>>,
         faults' \in 0..MaxFaults, UNCHANGED adrift
  PROVE  DesignInv'
<1>1. /\ upload'[q] = u /\ \A p \in Requests \ {q} : upload'[p] = upload[p]
      /\ upload' \in [Requests -> Uploads]
  BY UploadMoves DEF DesignInv
<1>2. /\ TablesOfDesigns /\ UploadsKnow /\ RowsAreOfTheDesign /\ IdsAreNew /\ NumbersSuffice
      /\ FileInHand /\ FilesApart /\ FilesOfVersions /\ RecordedOwn /\ InOrder
  BY DEF DesignInv
<1>3. UploadsKnow' /\ IdsAreNew' /\ NumbersSuffice'
  BY KnowledgeStep DEF Aiming
<1>4. TablesOfDesigns'
  <2>1. files' \in [StorageKeys -> DesignFiles \cup {None}]
    BY <1>2 DEF TablesOfDesigns, Unlink
  <2>2. QED
    BY <1>2, <2>1 DEF TablesOfDesigns, Numbers, StorageKeys
<1>5. RowsAreOfTheDesign'
  BY <1>2 DEF RowsAreOfTheDesign, IsThere
<1>6. \A p \in Requests : upload'[p].pc \in Aiming => p # q /\ upload'[p] = upload[p] /\ KeyOf(p)' = KeyOf(p)
  BY <1>1 DEF Aiming, KeyOf
<1>7. \A p \in Requests : upload'[p].pc \in Holding => p # q /\ upload'[p] = upload[p] /\ KeyOf(p)' = KeyOf(p)
  BY <1>1 DEF Holding, KeyOf
<1>8. \A p \in Requests : upload[p].pc \in Holding => KeyOf(p) \in StorageKeys
  BY <1>2 DEF UploadsKnow, Holding, Aiming, KeyOf, StorageKeys
<1>9. versions' \subseteq versions /\ \A v \in versions : <<v.design, v.version>> \in StorageKeys
  BY <1>2 DEF TablesOfDesigns, VersionRows, StorageKeys
<1>10. \A k \in StorageKeys : k \notin keys => files'[k] = files[k]
  BY DEF Unlink
<1>11. FileInHand'
  <2> SUFFICES ASSUME NEW p \in Requests, upload'[p].pc \in {"write", "record"}, KeyOf(p)' \notin spoiled'
               PROVE  /\ files'[KeyOf(p)'] # None /\ files'[KeyOf(p)'].bytes = {p}
                      /\ \A v \in versions' : <<v.design, v.version>> # KeyOf(p)'
    BY DEF FileInHand
  <2>1. p # q /\ upload'[p] = upload[p] /\ KeyOf(p)' = KeyOf(p) /\ upload[p].pc \in Holding
    BY <1>7 DEF Holding
  <2>2. KeyOf(p) \notin keys /\ KeyOf(p) \in StorageKeys
    BY <1>8, <2>1
  <2>3. QED
    BY <1>2, <1>9, <1>10, <2>1, <2>2 DEF FileInHand
<1>12. FilesApart'
  BY <1>2, <1>7 DEF FilesApart
<1>13. FilesOfVersions'
  <2> SUFFICES ASSUME NEW v \in versions', <<v.design, v.version>> \notin spoiled'
               PROVE  StoredWhole(v)'
    BY DEF FilesOfVersions
  <2>1. v \in versions /\ <<v.design, v.version>> \in StorageKeys \ keys
    BY <1>9
  <2>2. StoredWhole(v)
    BY <1>2, <2>1 DEF FilesOfVersions
  <2>3. QED
    BY <1>10, <2>1, <2>2 DEF StoredWhole
<1>14. RecordedOwn'
  <2> SUFFICES ASSUME NEW p \in Requests, upload'[p].pc = "current", IsThere(upload[p].design)'
               PROVE  \E v \in versions' : v.design = upload'[p].design /\ v.version = upload'[p].version /\ v.by = p
    BY DEF RecordedOwn
  <2>1. upload'[p] = upload[p] /\ UNCHANGED <<design, versions>>
    BY <1>7 DEF Holding, IsThere
  <2>2. QED
    BY <1>2, <2>1 DEF RecordedOwn, IsThere
<1>15. InOrder'
  <2>1. CASE design' = None
    BY <2>1 DEF InOrder
  <2>2. CASE UNCHANGED <<design, versions>>
    <3>1. Finishing' = Finishing
      BY <1>1, <1>7, <2>2 DEF Finishing, Holding, IsThere
    <3> SUFFICES ASSUME design # None, design.id \notin adrift
                 PROVE  /\ \A p \in Requests : upload'[p].pc \in Aiming /\ upload'[p].design = design.id =>
                             upload'[p].version <= design.current + 1
                        /\ \A p \in Finishing : upload'[p].version = design.current + 1
                        /\ VersionNumbers = 1..(IF Finishing = {} THEN design.current ELSE design.current + 1)
      BY <2>2, <3>1 DEF InOrder, VersionNumbers
    <3>2. \A p \in Requests : upload'[p].pc \in Aiming /\ upload'[p].design = design.id =>
            upload'[p].version <= design.current + 1
      BY <1>2, <1>6 DEF InOrder
    <3>3. \A p \in Finishing : upload'[p].version = design.current + 1
      BY <1>1, <1>2 DEF InOrder, Finishing
    <3>4. QED
      BY <1>2, <3>2, <3>3 DEF InOrder
  <2>3. QED
    BY <2>1, <2>2
<1>16. QED
  BY <1>3, <1>4, <1>5, <1>11, <1>12, <1>13, <1>14, <1>15 DEF DesignInv

LEMMA MakeDesignStep ==
  ASSUME DesignInv, NEW q \in Requests, MakeDesign(q)
  PROVE  DesignInv'
<1>1. upload[q].pc = "make" /\ UNCHANGED <<versions, files, faults, spoiled, adrift>>
  BY DEF MakeDesign
<1>2. /\ TablesOfDesigns /\ UploadsKnow /\ RowsAreOfTheDesign /\ IdsAreNew /\ NumbersSuffice
      /\ FileInHand /\ FilesApart /\ FilesOfVersions /\ RecordedOwn /\ InOrder
  BY DEF DesignInv
<1>3. CASE design # None
  <2> DEFINE u == [NotStarted EXCEPT !.pc = "done"]
  <2>1. Proceeds(q, u) /\ UNCHANGED design
    BY <1>3 DEF MakeDesign, Gives
  <2>2. u \in Uploads /\ u.pc = "done" /\ u.design = None
    BY PlainUploads
  <2>3. Unlink({}) /\ faults' \in 0..MaxFaults /\ spoiled' \subseteq StorageKeys
    BY <1>1, <1>2 DEF Unlink, TablesOfDesigns
  <2> HIDE DEF u
  <2>4. QED
    BY <1>1, <2>1, <2>2, <2>3, GiveUpStep
<1>4. CASE design = None
  <2> DEFINE u == [NotStarted EXCEPT !.pc = "open", !.design = q, !.version = 1, !.fresh = TRUE]
  <2>1. Proceeds(q, u) /\ design' = [id |-> q, current |-> 0]
    BY <1>4 DEF MakeDesign
  <2>2. Cardinality(Begun) \in 1..Cardinality(Requests)
    <3>1. q \in Begun /\ IsFiniteSet(Begun)
      BY <1>1, BegunCount, RequestsAreFinite, FS_Subset DEF Begun
    <3>2. Cardinality(Begun) # 0
      BY <3>1, FS_EmptySet
    <3>3. QED
      BY <3>2, BegunCount, RequestCount
  <2>3. 1 \in Numbers /\ 1 <= Cardinality(Begun) /\ 0 <= Cardinality(Begun)
    BY <2>2, BegunCount, RequestCount
  <2>4. u \in Uploads /\ u.pc = "open" /\ u.design = q /\ u.version = 1
    <3>1. 1 \in 0..Cardinality(Requests)
      BY <2>2, BegunCount, RequestCount
    <3>2. NotStarted \in Uploads
      BY PlainUploads
    <3>3. QED
      BY <3>1, <3>2 DEF Uploads
  <2>5. design' \in DesignRows /\ design'.id = q /\ design'.current = 0 /\ design' # None
    BY <2>1, RequestCount, NoneIsNoRow DEF DesignRows
  <2> HIDE DEF u
  <2>6. UploadsKnow' /\ IdsAreNew' /\ NumbersSuffice'
    BY <1>1, <2>1, <2>3, <2>4, <2>5, KnowledgeStep
  <2>7. /\ upload'[q] = u /\ \A p \in Requests \ {q} : upload'[p] = upload[p]
    BY <1>2, <2>1, UploadMoves
  <2>8. versions = {}
    BY <1>2, <1>4 DEF RowsAreOfTheDesign, IsThere
  <2>9. \A p \in Requests : upload[p].design # q
    <3>1. q # None
      BY NoneIsNoRow
    <3>2. QED
      BY <1>1, <1>2, <3>1 DEF IdsAreNew, Maker
  <2>10. TablesOfDesigns'
    BY <1>1, <1>2, <2>5 DEF TablesOfDesigns, Numbers, StorageKeys
  <2>11. RowsAreOfTheDesign' /\ FilesOfVersions'
    BY <1>1, <2>8 DEF RowsAreOfTheDesign, FilesOfVersions
  <2>12. \A p \in Requests : upload'[p].pc \in Holding => p # q /\ upload'[p] = upload[p] /\ KeyOf(p)' = KeyOf(p)
    BY <2>4, <2>7 DEF Holding, KeyOf
  <2>13. FileInHand' /\ FilesApart'
    BY <1>1, <1>2, <2>12 DEF FileInHand, FilesApart, Holding
  <2>14. \A p \in Requests : upload'[p].pc = "current" => upload'[p].design # q
    BY <2>9, <2>12 DEF Holding
  <2>15. RecordedOwn' /\ Finishing' = {}
    BY <2>5, <2>14 DEF RecordedOwn, IsThere, Finishing
  <2>16. \A p \in Requests : upload'[p].pc \in Aiming /\ upload'[p].design = q => upload'[p].version <= 0 + 1
    BY <2>4, <2>7, <2>9
  <2>17. VersionNumbers' = 1..0
    BY <1>1, <2>8 DEF VersionNumbers
  <2>18. InOrder'
    BY <2>5, <2>15, <2>16, <2>17 DEF InOrder
  <2>19. QED
    BY <2>6, <2>10, <2>11, <2>13, <2>15, <2>18 DEF DesignInv
<1>5. QED
  BY <1>3, <1>4

\* The key of an upload that has a number.
LEMMA KeysOfUploads ==
  ASSUME DesignInv, NEW q \in Requests, upload[q].pc \in Aiming
  PROVE  KeyOf(q) \in StorageKeys /\ upload[q].version \in Numbers /\ upload[q].design \in Requests
         /\ upload[q].version <= Cardinality(Begun)
BY DEF DesignInv, UploadsKnow, NumbersSuffice, KeyOf, StorageKeys

LEMMA OpenFileStep ==
  ASSUME DesignInv, NEW q \in Requests, OpenFile(q)
  PROVE  DesignInv'
<1> DEFINE k == KeyOf(q)
           inode == IF files[k] = None THEN q ELSE files[k].inode
           u == [upload[q] EXCEPT !.pc = "write", !.inode = inode]
           f == [inode |-> inode, bytes |-> {q}]
<1>1. /\ upload[q].pc = "open" /\ files' = [files EXCEPT ![k] = f] /\ Proceeds(q, u)
      /\ spoiled' = IF IsTaken(k, q) THEN spoiled \cup {k} ELSE spoiled
      /\ UNCHANGED <<design, versions, faults, adrift>>
  BY DEF OpenFile
<1>2. /\ TablesOfDesigns /\ UploadsKnow /\ RowsAreOfTheDesign /\ IdsAreNew /\ NumbersSuffice
      /\ FileInHand /\ FilesApart /\ FilesOfVersions /\ RecordedOwn /\ InOrder
  BY DEF DesignInv
<1>3. /\ k \in StorageKeys /\ upload[q].version \in Numbers /\ upload[q].design \in Requests
      /\ upload[q].version <= Cardinality(Begun)
  BY <1>1, KeysOfUploads DEF Aiming
<1>4. inode \in Requests
  BY <1>2, <1>3 DEF TablesOfDesigns, DesignFiles
<1>5. f \in DesignFiles /\ f # None /\ f.bytes = {q}
  BY <1>4, NoneIsNoRow DEF DesignFiles
<1>6. u \in Uploads /\ u.pc = "write" /\ u.design = upload[q].design /\ u.version = upload[q].version
  BY <1>2, <1>4 DEF UploadsKnow, Uploads
<1>7. UploadsKnow' /\ IdsAreNew' /\ NumbersSuffice'
  <2> HIDE DEF u
  <2>1. QED
    BY <1>1, <1>3, <1>6, KnowledgeStep
<1>8. /\ upload'[q] = u /\ \A p \in Requests \ {q} : upload'[p] = upload[p]
  <2> HIDE DEF u
  <2>1. QED
    BY <1>1, <1>2, UploadMoves
<1>9. \A p \in Requests : KeyOf(p)' = KeyOf(p) /\ upload'[p].design = upload[p].design /\ upload'[p].version = upload[p].version
  BY <1>6, <1>8 DEF KeyOf
<1> HIDE DEF u, f, inode
<1>10. files'[k] = f /\ \A l \in StorageKeys \ {k} : files'[l] = files[l]
  BY <1>1, <1>2, <1>3 DEF TablesOfDesigns
<1>11. /\ spoiled \subseteq spoiled' /\ spoiled' \subseteq StorageKeys
       /\ k \notin spoiled' => ~IsTaken(k, q)
  BY <1>1, <1>2, <1>3 DEF TablesOfDesigns
<1>12. k \notin spoiled' => /\ \A p \in Requests \ {q} : upload[p].pc \in Holding => KeyOf(p) # k
                            /\ \A v \in versions : <<v.design, v.version>> # k
  BY <1>11 DEF IsTaken, Holding
<1>13. TablesOfDesigns'
  BY <1>1, <1>2, <1>5, <1>11 DEF TablesOfDesigns, Numbers, StorageKeys
<1>14. RowsAreOfTheDesign'
  BY <1>1, <1>2 DEF RowsAreOfTheDesign, IsThere
<1>15. FileInHand'
  <2> SUFFICES ASSUME NEW p \in Requests, upload'[p].pc \in {"write", "record"}, KeyOf(p) \notin spoiled'
               PROVE  /\ files'[KeyOf(p)] # None /\ files'[KeyOf(p)].bytes = {p}
                      /\ \A v \in versions : <<v.design, v.version>> # KeyOf(p)
    BY <1>1, <1>9 DEF FileInHand
  <2>1. CASE p = q
    BY <1>5, <1>10, <1>12, <2>1
  <2>2. CASE p # q
    <3>1. upload[p].pc \in {"write", "record"} /\ KeyOf(p) \in StorageKeys
      BY <1>8, <2>2, KeysOfUploads DEF Aiming
    <3>2. KeyOf(p) # k
      BY <1>12, <2>2, <3>1 DEF Holding
    <3>3. QED
      BY <1>2, <1>10, <1>11, <3>1, <3>2 DEF FileInHand
  <2>3. QED
    BY <2>1, <2>2
<1>16. FilesApart'
  <2> SUFFICES ASSUME NEW p \in Requests, NEW r \in Requests, p # r,
                      upload'[p].pc \in Holding, upload'[r].pc \in Holding, KeyOf(p) = KeyOf(r)
               PROVE  KeyOf(p) \in spoiled'
    BY <1>9 DEF FilesApart
  <2>1. CASE p = q
    BY <1>8, <1>12, <2>1
  <2>2. CASE r = q
    BY <1>8, <1>12, <2>2
  <2>3. CASE p # q /\ r # q
    BY <1>2, <1>8, <1>11, <2>3 DEF FilesApart
  <2>4. QED
    BY <2>1, <2>2, <2>3
<1>17. FilesOfVersions'
  <2> SUFFICES ASSUME NEW v \in versions, <<v.design, v.version>> \notin spoiled'
               PROVE  StoredWhole(v)'
    BY <1>1 DEF FilesOfVersions
  <2>1. <<v.design, v.version>> \in StorageKeys \ {k}
    BY <1>2, <1>12 DEF TablesOfDesigns, VersionRows, StorageKeys
  <2>2. StoredWhole(v)
    BY <1>2, <1>11 DEF FilesOfVersions
  <2>3. QED
    BY <1>10, <2>1, <2>2 DEF StoredWhole
<1>18. \A p \in Requests : /\ upload'[p].pc = "current" => upload[p].pc = "current"
                           /\ upload'[p].pc \in Aiming => upload[p].pc \in Aiming
                           /\ upload[p].pc = "current" => upload'[p].pc = "current"
  BY <1>1, <1>6, <1>8 DEF Aiming
<1>19. RecordedOwn'
  <2> SUFFICES ASSUME NEW p \in Requests, upload[p].pc = "current", IsThere(upload[p].design)
               PROVE  \E v \in versions : v.design = upload[p].design /\ v.version = upload[p].version /\ v.by = p
    BY <1>1, <1>9, <1>18 DEF RecordedOwn, IsThere
  <2>1. QED
    BY <1>2 DEF RecordedOwn
<1>20. InOrder'
  <2>1. Finishing' = Finishing
    BY <1>1, <1>9, <1>18 DEF Finishing, IsThere
  <2> SUFFICES ASSUME design # None, design.id \notin adrift
               PROVE  /\ \A p \in Requests : upload'[p].pc \in Aiming /\ upload[p].design = design.id =>
                           upload[p].version <= design.current + 1
                      /\ \A p \in Finishing : upload[p].version = design.current + 1
                      /\ VersionNumbers = 1..(IF Finishing = {} THEN design.current ELSE design.current + 1)
    <3>1. Finishing \subseteq Requests
      BY DEF Finishing
    <3>2. QED
      BY <1>1, <1>9, <2>1, <3>1 DEF InOrder, VersionNumbers
  <2>2. QED
    BY <1>2, <1>18 DEF InOrder
<1>21. QED
  BY <1>7, <1>13, <1>14, <1>15, <1>16, <1>17, <1>19, <1>20 DEF DesignInv

\* An upload that fails removes its file: nobody else has it, unless it was spoiled.
LEMMA OwnKey ==
  ASSUME DesignInv, NEW q \in Requests, upload[q].pc \in {"write", "record"}, KeyOf(q) \notin spoiled
  PROVE  /\ \A p \in Requests \ {q} : upload[p].pc \in Holding => KeyOf(p) # KeyOf(q)
         /\ \A v \in versions : <<v.design, v.version>> # KeyOf(q)
<1>1. FileInHand /\ FilesApart
  BY DEF DesignInv
<1>2. upload[q].pc \in Holding
  BY DEF Holding
<1>3. QED
  BY <1>1, <1>2 DEF FileInHand, FilesApart

LEMMA AbortStep ==
  ASSUME DesignInv, NEW q \in Requests, upload[q].pc \in {"write", "record"}, Unlink({KeyOf(q)}), Gives(q),
         UNCHANGED <<spoiled, adrift>>, faults' \in 0..MaxFaults,
         (design' = None /\ versions' = {}) \/ UNCHANGED <<design, versions>>
  PROVE  DesignInv'
<1> DEFINE u == [NotStarted EXCEPT !.pc = "done"]
<1>1. Proceeds(q, u)
  BY DEF Gives
<1>2. u \in Uploads /\ u.pc = "done" /\ u.design = None
  BY PlainUploads
<1>3. spoiled' \subseteq StorageKeys
  BY DEF DesignInv, TablesOfDesigns
<1> HIDE DEF u
<1>4. QED
  BY <1>1, <1>2, <1>3, OwnKey, GiveUpStep

LEMMA FinishFileStep ==
  ASSUME DesignInv, NEW q \in Requests, FinishFile(q)
  PROVE  DesignInv'
<1> DEFINE k == KeyOf(q)
<1>1. upload[q].pc = "write" /\ UNCHANGED <<spoiled, adrift>>
  BY DEF FinishFile
<1>2. /\ TablesOfDesigns /\ UploadsKnow /\ RowsAreOfTheDesign /\ IdsAreNew /\ NumbersSuffice
      /\ FileInHand /\ FilesApart /\ FilesOfVersions /\ RecordedOwn /\ InOrder
  BY DEF DesignInv
<1>3. ASSUME AbortUpload(q), UNCHANGED faults \/ Fault PROVE DesignInv'
  <2>1. faults' \in 0..MaxFaults
    BY <1>2, <1>3, FaultBound DEF TablesOfDesigns, Fault
  <2>2. (design' = None /\ versions' = {}) \/ UNCHANGED <<design, versions>>
    BY <1>2, <1>3, EraseKeeps DEF AbortUpload
  <2>3. QED
    BY <1>1, <1>3, <2>1, <2>2, AbortStep DEF AbortUpload
<1>4. ASSUME files[k] # None,
             files' = [files EXCEPT ![k].bytes = IF files[k].inode = upload[q].inode THEN @ \cup {q} ELSE @],
             Proceeds(q, [upload[q] EXCEPT !.pc = "record"]), UNCHANGED <<design, versions, faults>>
      PROVE  DesignInv'
  <2> DEFINE u == [upload[q] EXCEPT !.pc = "record"]
             bytes == IF files[k].inode = upload[q].inode THEN files[k].bytes \cup {q} ELSE files[k].bytes
             f == [files[k] EXCEPT !.bytes = bytes]
  <2>1. /\ k \in StorageKeys /\ upload[q].version \in Numbers /\ upload[q].design \in Requests
        /\ upload[q].version <= Cardinality(Begun)
    BY <1>1, KeysOfUploads DEF Aiming
  <2>2. files' = [files EXCEPT ![k] = f]
    BY <1>2, <1>4, <2>1 DEF TablesOfDesigns
  <2>3. files[k] \in DesignFiles
    BY <1>2, <1>4, <2>1 DEF TablesOfDesigns
  <2>4. bytes \subseteq Requests
    BY <2>3 DEF DesignFiles
  <2>5. f \in DesignFiles /\ f.bytes = bytes
    <3> HIDE DEF bytes
    <3>1. QED
      BY <2>3, <2>4 DEF DesignFiles
  <2>6. f # None
    <3> HIDE DEF f
    <3>1. QED
      BY <2>5, NoneIsNoRow DEF DesignFiles
  <2>7. k \notin spoiled => bytes = {q}
    <3>1. k \notin spoiled => files[k].bytes = {q}
      BY <1>1, <1>2 DEF FileInHand
    <3>2. QED
      BY <3>1
  <2>8. u \in Uploads /\ u.pc = "record" /\ u.design = upload[q].design /\ u.version = upload[q].version
    BY <1>2 DEF UploadsKnow, Uploads
  <2>9. UploadsKnow' /\ IdsAreNew' /\ NumbersSuffice'
    <3> HIDE DEF u
    <3>1. QED
      BY <1>1, <1>4, <2>1, <2>8, KnowledgeStep DEF u
  <2>10. /\ upload'[q] = u /\ \A p \in Requests \ {q} : upload'[p] = upload[p]
    BY <1>2, <1>4, UploadMoves
  <2>11. \A p \in Requests : KeyOf(p)' = KeyOf(p) /\ upload'[p].design = upload[p].design /\ upload'[p].version = upload[p].version
    BY <2>8, <2>10 DEF KeyOf
  <2>12. k \notin spoiled => /\ \A p \in Requests \ {q} : upload[p].pc \in Holding => KeyOf(p) # k
                             /\ \A v \in versions : <<v.design, v.version>> # k
    BY <1>1, OwnKey
  <2> HIDE DEF u, f, bytes
  <2>13. files'[k] = f /\ \A l \in StorageKeys \ {k} : files'[l] = files[l]
    BY <1>2, <2>1, <2>2 DEF TablesOfDesigns
  <2>14. TablesOfDesigns'
    BY <1>1, <1>2, <1>4, <2>2, <2>5 DEF TablesOfDesigns, Numbers, StorageKeys
  <2>15. RowsAreOfTheDesign'
    BY <1>2, <1>4 DEF RowsAreOfTheDesign, IsThere
  <2>16. FileInHand'
    <3> SUFFICES ASSUME NEW p \in Requests, upload'[p].pc \in {"write", "record"}, KeyOf(p) \notin spoiled
                 PROVE  /\ files'[KeyOf(p)] # None /\ files'[KeyOf(p)].bytes = {p}
                        /\ \A v \in versions : <<v.design, v.version>> # KeyOf(p)
      BY <1>1, <1>4, <2>11 DEF FileInHand
    <3>1. CASE p = q
      BY <2>5, <2>6, <2>7, <2>12, <2>13, <3>1
    <3>2. CASE p # q
      <4>1. upload[p].pc \in {"write", "record"} /\ KeyOf(p) \in StorageKeys
        BY <2>10, <3>2, KeysOfUploads DEF Aiming
      <4>2. KeyOf(p) # k
        BY <2>12, <3>2, <4>1 DEF Holding
      <4>3. QED
        BY <1>2, <2>13, <4>1, <4>2 DEF FileInHand
    <3>3. QED
      BY <3>1, <3>2
  <2>17. \A p \in Requests : /\ upload'[p].pc = "current" <=> upload[p].pc = "current"
                             /\ upload'[p].pc \in Aiming => upload[p].pc \in Aiming
                             /\ upload'[p].pc \in Holding => upload[p].pc \in Holding
    BY <1>1, <2>8, <2>10 DEF Aiming, Holding
  <2>18. FilesApart'
    BY <1>1, <1>2, <2>11, <2>17 DEF FilesApart
  <2>19. FilesOfVersions'
    <3> SUFFICES ASSUME NEW v \in versions, <<v.design, v.version>> \notin spoiled
                 PROVE  StoredWhole(v)'
      BY <1>1, <1>4 DEF FilesOfVersions
    <3>1. <<v.design, v.version>> \in StorageKeys \ {k}
      BY <1>2, <2>12 DEF TablesOfDesigns, VersionRows, StorageKeys
    <3>2. StoredWhole(v)
      BY <1>2 DEF FilesOfVersions
    <3>3. QED
      BY <2>13, <3>1, <3>2 DEF StoredWhole
  <2>20. RecordedOwn'
    <3> SUFFICES ASSUME NEW p \in Requests, upload[p].pc = "current", IsThere(upload[p].design)
                 PROVE  \E v \in versions : v.design = upload[p].design /\ v.version = upload[p].version /\ v.by = p
      BY <1>4, <2>11, <2>17 DEF RecordedOwn, IsThere
    <3>1. QED
      BY <1>2 DEF RecordedOwn
  <2>21. InOrder'
    <3>1. Finishing' = Finishing
      BY <1>4, <2>11, <2>17 DEF Finishing, IsThere
    <3> SUFFICES ASSUME design # None, design.id \notin adrift
                 PROVE  /\ \A p \in Requests : upload'[p].pc \in Aiming /\ upload[p].design = design.id =>
                             upload[p].version <= design.current + 1
                        /\ \A p \in Finishing : upload[p].version = design.current + 1
                        /\ VersionNumbers = 1..(IF Finishing = {} THEN design.current ELSE design.current + 1)
      <4>1. Finishing \subseteq Requests
        BY DEF Finishing
      <4>2. QED
        BY <1>1, <1>4, <2>11, <3>1, <4>1 DEF InOrder, VersionNumbers
    <3>2. QED
      BY <1>2, <2>17 DEF InOrder
  <2>22. QED
    BY <2>9, <2>14, <2>15, <2>16, <2>18, <2>19, <2>20, <2>21 DEF DesignInv
<1>5. QED
  BY <1>3, <1>4 DEF FinishFile

\* The upload that is at the record finds its number free only if nobody is finishing another.
LEMMA NumberIsNext ==
  ASSUME DesignInv, NEW q \in Requests, upload[q].pc = "record", IsThere(upload[q].design),
         design.id \notin adrift, \A v \in versions : v.version # upload[q].version
  PROVE  Finishing = {} /\ upload[q].version = design.current + 1
<1>1. TablesOfDesigns /\ UploadsKnow /\ InOrder
  BY DEF DesignInv
<1>2. design # None /\ design.current \in Nat /\ upload[q].design = design.id
  BY <1>1, RequestCount DEF TablesOfDesigns, DesignRows, IsThere
<1>3. upload[q].version \in Nat \ {0} /\ upload[q].version <= design.current + 1
  BY <1>1, <1>2, RequestCount DEF InOrder, Aiming, UploadsKnow, Numbers
<1>4. upload[q].version \notin VersionNumbers
  BY DEF VersionNumbers
<1>5. VersionNumbers = 1..(IF Finishing = {} THEN design.current ELSE design.current + 1)
  BY <1>1, <1>2 DEF InOrder
<1>6. CASE Finishing = {}
  BY <1>2, <1>3, <1>4, <1>5, <1>6
<1>7. CASE Finishing # {}
  BY <1>2, <1>3, <1>4, <1>5, <1>7
<1>8. QED
  BY <1>6, <1>7

LEMMA RecordVersionStep ==
  ASSUME DesignInv, NEW q \in Requests, RecordVersion(q)
  PROVE  DesignInv'
<1> DEFINE d == upload[q].design
           n == upload[q].version
           row == [design |-> d, version |-> n, by |-> q]
           u == [upload[q] EXCEPT !.pc = "current"]
<1>1. upload[q].pc = "record" /\ UNCHANGED <<design, faults, spoiled, adrift>>
  BY DEF RecordVersion
<1>2. /\ TablesOfDesigns /\ UploadsKnow /\ RowsAreOfTheDesign /\ IdsAreNew /\ NumbersSuffice
      /\ FileInHand /\ FilesApart /\ FilesOfVersions /\ RecordedOwn /\ InOrder
  BY DEF DesignInv
<1>3. CASE IsThere(d) /\ ~\E v \in versions : v.design = d /\ v.version = n
  <2>1. versions' = versions \cup {row} /\ Proceeds(q, u) /\ UNCHANGED files
    BY <1>3 DEF RecordVersion
  <2>2. /\ KeyOf(q) \in StorageKeys /\ n \in Numbers /\ d \in Requests /\ n <= Cardinality(Begun)
    BY <1>1, KeysOfUploads DEF Aiming
  <2>3. u \in Uploads /\ u.pc = "current" /\ u.design = d /\ u.version = n
    BY <1>2 DEF UploadsKnow, Uploads
  <2>4. row \in VersionRows /\ row.design = d /\ row.version = n /\ row.by = q
    BY <2>2 DEF VersionRows
  <2>5. UploadsKnow' /\ IdsAreNew' /\ NumbersSuffice'
    <3> HIDE DEF u
    <3>1. QED
      BY <1>1, <2>1, <2>2, <2>3, KnowledgeStep
  <2>6. /\ upload'[q] = u /\ \A p \in Requests \ {q} : upload'[p] = upload[p]
    <3> HIDE DEF u
    <3>1. QED
      BY <1>2, <2>1, UploadMoves
  <2>7. \A p \in Requests : KeyOf(p)' = KeyOf(p) /\ upload'[p].design = upload[p].design /\ upload'[p].version = upload[p].version
    BY <2>3, <2>6 DEF KeyOf
  <2>8. KeyOf(q) = <<d, n>>
    BY DEF KeyOf
  <2>9. \A v \in versions : v.design = d /\ v.version # n
    BY <1>2, <1>3 DEF RowsAreOfTheDesign, IsThere
  <2>10. KeyOf(q) \notin spoiled => /\ files[KeyOf(q)] # None /\ files[KeyOf(q)].bytes = {q}
                                    /\ \A p \in Requests \ {q} : upload[p].pc \in Holding => KeyOf(p) # KeyOf(q)
    BY <1>1, <1>2, OwnKey DEF FileInHand
  <2> HIDE DEF u, row
  <2>11. TablesOfDesigns'
    BY <1>1, <1>2, <2>1, <2>4 DEF TablesOfDesigns, Numbers, StorageKeys
  <2>12. RowsAreOfTheDesign'
    <3>1. \A v \in versions' : v = row \/ (v \in versions /\ v.version # n)
      BY <2>1, <2>9
    <3>2. \A v \in versions' : IsThere(v.design)'
      BY <1>1, <1>2, <1>3, <2>4, <3>1 DEF RowsAreOfTheDesign, IsThere
    <3>3. \A v, w \in versions' : v.design = w.design /\ v.version = w.version => v = w
      BY <1>2, <2>4, <3>1 DEF RowsAreOfTheDesign
    <3>4. QED
      BY <3>2, <3>3 DEF RowsAreOfTheDesign
  <2>13. \A p \in Requests : /\ upload'[p].pc \in Aiming => upload[p].pc \in Aiming
                             /\ upload'[p].pc \in Holding => upload[p].pc \in Holding
                             /\ upload'[p].pc \in {"write", "record"} => p # q /\ upload[p].pc \in {"write", "record"}
                             /\ upload'[p].pc = "current" <=> upload[p].pc = "current" \/ p = q
    BY <1>1, <2>3, <2>6 DEF Aiming, Holding
  <2>14. FileInHand'
    <3> SUFFICES ASSUME NEW p \in Requests, upload'[p].pc \in {"write", "record"}, KeyOf(p) \notin spoiled
                 PROVE  /\ files[KeyOf(p)] # None /\ files[KeyOf(p)].bytes = {p}
                        /\ \A v \in versions' : <<v.design, v.version>> # KeyOf(p)
      BY <1>1, <2>1, <2>7 DEF FileInHand
    <3>1. p # q /\ upload[p].pc \in {"write", "record"} /\ upload[p].pc \in Holding
      BY <2>13 DEF Holding
    <3>2. KeyOf(p) # <<d, n>>
      BY <2>8, <2>10, <3>1
    <3>3. QED
      BY <1>2, <2>1, <2>4, <3>1, <3>2 DEF FileInHand
  <2>15. FilesApart'
    BY <1>1, <1>2, <2>7, <2>13 DEF FilesApart
  <2>16. FilesOfVersions'
    <3> SUFFICES ASSUME NEW v \in versions', <<v.design, v.version>> \notin spoiled
                 PROVE  files[<<v.design, v.version>>] # None /\ files[<<v.design, v.version>>].bytes = {v.by}
      BY <1>1, <2>1 DEF FilesOfVersions, StoredWhole
    <3>1. CASE v \in versions
      BY <1>2, <3>1 DEF FilesOfVersions, StoredWhole
    <3>2. CASE v = row
      BY <2>4, <2>8, <2>10, <3>2
    <3>3. QED
      BY <2>1, <3>1, <3>2
  <2>17. RecordedOwn'
    <3> SUFFICES ASSUME NEW p \in Requests, upload'[p].pc = "current", IsThere(upload[p].design)
                 PROVE  \E v \in versions' : v.design = upload[p].design /\ v.version = upload[p].version /\ v.by = p
      BY <1>1, <2>7 DEF RecordedOwn, IsThere
    <3>1. CASE p = q
      BY <2>1, <2>4, <3>1
    <3>2. CASE p # q
      BY <1>2, <2>1, <2>13, <3>2 DEF RecordedOwn
    <3>3. QED
      BY <3>1, <3>2
  <2>18. Finishing' = Finishing \cup {q}
    BY <1>1, <1>3, <2>7, <2>13 DEF Finishing, IsThere
  <2>19. InOrder'
    <3> SUFFICES ASSUME design # None, design.id \notin adrift
                 PROVE  /\ \A p \in Requests : upload'[p].pc \in Aiming /\ upload[p].design = design.id =>
                             upload[p].version <= design.current + 1
                        /\ \A p \in Finishing' : upload[p].version = design.current + 1
                        /\ VersionNumbers' = 1..(design.current + 1)
      <4>1. Finishing' \subseteq Requests /\ Finishing' # {}
        BY <2>18 DEF Finishing
      <4>2. QED
        BY <1>1, <2>7, <4>1 DEF InOrder
    <3>1. Finishing = {} /\ n = design.current + 1
      BY <1>1, <1>3, <2>9, NumberIsNext
    <3>2. VersionNumbers = 1..design.current /\ design.current \in Nat
      BY <1>2, <3>1, RequestCount DEF InOrder, TablesOfDesigns, DesignRows
    <3>3. VersionNumbers' = VersionNumbers \cup {n}
      BY <2>1, <2>4 DEF VersionNumbers
    <3>4. VersionNumbers' = 1..(design.current + 1)
      BY <3>1, <3>2, <3>3
    <3>5. \A p \in Finishing' : upload[p].version = design.current + 1
      BY <2>18, <3>1
    <3>6. QED
      BY <1>2, <2>13, <3>4, <3>5 DEF InOrder
  <2>20. QED
    BY <2>5, <2>11, <2>12, <2>14, <2>15, <2>16, <2>17, <2>19 DEF DesignInv
<1>4. CASE ~(IsThere(d) /\ ~\E v \in versions : v.design = d /\ v.version = n)
  <2>1. Unlink({KeyOf(q)}) /\ Gives(q) /\ UNCHANGED versions
    BY <1>4 DEF RecordVersion
  <2>2. faults' \in 0..MaxFaults
    BY <1>1, <1>2 DEF TablesOfDesigns
  <2>3. QED
    BY <1>1, <2>1, <2>2, AbortStep
<1>5. QED
  BY <1>3, <1>4

\* Only one upload at a time has its version recorded and not yet the current one.
LEMMA OneFinishes ==
  ASSUME DesignInv, NEW p \in Finishing, NEW q \in Finishing, design.id \notin adrift
  PROVE  p = q
<1>1. RowsAreOfTheDesign /\ RecordedOwn /\ InOrder
  BY DEF DesignInv
<1>2. /\ p \in Requests /\ upload[p].pc = "current" /\ IsThere(upload[p].design)
      /\ q \in Requests /\ upload[q].pc = "current" /\ IsThere(upload[q].design)
  BY DEF Finishing
<1>3. upload[p].version = upload[q].version /\ upload[p].design = upload[q].design
  BY <1>1, <1>2 DEF InOrder, IsThere
<1>4. PICK v \in versions : v.design = upload[p].design /\ v.version = upload[p].version /\ v.by = p
  BY <1>1, <1>2 DEF RecordedOwn
<1>5. PICK w \in versions : w.design = upload[q].design /\ w.version = upload[q].version /\ w.by = q
  BY <1>1, <1>2 DEF RecordedOwn
<1>6. v = w
  BY <1>1, <1>3, <1>4, <1>5 DEF RowsAreOfTheDesign
<1>7. QED
  BY <1>4, <1>5, <1>6

LEMMA MakeCurrentStep ==
  ASSUME DesignInv, NEW q \in Requests, MakeCurrent(q)
  PROVE  DesignInv'
<1> DEFINE u == [NotStarted EXCEPT !.pc = "done"]
           n == upload[q].version
           here == IsThere(upload[q].design)
           new == [design EXCEPT !.current = n]
<1>1. /\ upload[q].pc = "current" /\ Proceeds(q, u) /\ design' = (IF here THEN new ELSE design)
      /\ UNCHANGED <<versions, files, faults, spoiled, adrift>>
  BY DEF MakeCurrent, Gives
<1>2. /\ TablesOfDesigns /\ UploadsKnow /\ RowsAreOfTheDesign /\ IdsAreNew /\ NumbersSuffice
      /\ FileInHand /\ FilesApart /\ FilesOfVersions /\ RecordedOwn /\ InOrder
  BY DEF DesignInv
<1>3. u \in Uploads /\ u.pc = "done" /\ u.design = None
  BY PlainUploads
<1> HIDE DEF u
<1>4. n \in Numbers /\ n <= Cardinality(Begun) /\ upload[q].design \in Requests
  BY <1>1, KeysOfUploads DEF Aiming
<1>5. here => design # None /\ design \in DesignRows /\ design.id = upload[q].design
  BY <1>2 DEF IsThere, TablesOfDesigns
<1>6. here => new \in DesignRows /\ new.id = design.id /\ new.current = n
  BY <1>4, <1>5, RequestCount DEF DesignRows
<1>7. here => new # None
  <2> HIDE DEF new
  <2>1. QED
    BY <1>6, NoneIsNoRow DEF DesignRows
<1> HIDE DEF new
<1>8. UploadsKnow' /\ IdsAreNew' /\ NumbersSuffice'
  <2>1. design' \in {design, None} \/ (/\ design' \in DesignRows /\ design'.current <= Cardinality(Begun)
                                       /\ design'.id = q \/ (design # None /\ design'.id = design.id))
    BY <1>1, <1>4, <1>5, <1>6
  <2>2. QED
    BY <1>1, <1>3, <2>1, KnowledgeStep DEF Aiming
<1>9. /\ upload'[q] = u /\ \A p \in Requests \ {q} : upload'[p] = upload[p]
  BY <1>1, <1>2, UploadMoves
<1>10. \A id : IsThere(id)' <=> IsThere(id)
  BY <1>1, <1>5, <1>6, <1>7 DEF IsThere
<1>11. TablesOfDesigns'
  BY <1>1, <1>2, <1>6 DEF TablesOfDesigns, Numbers, StorageKeys
<1>12. RowsAreOfTheDesign'
  BY <1>1, <1>2, <1>10 DEF RowsAreOfTheDesign
<1>13. \A p \in Requests : upload'[p].pc \in Aiming => p # q /\ upload'[p] = upload[p] /\ KeyOf(p)' = KeyOf(p)
  BY <1>3, <1>9 DEF Aiming, KeyOf
<1>14. FileInHand' /\ FilesApart' /\ FilesOfVersions'
  <2>1. FileInHand'
    BY <1>1, <1>2, <1>13 DEF FileInHand, Aiming
  <2>2. FilesApart'
    BY <1>1, <1>2, <1>13 DEF FilesApart, Aiming, Holding
  <2>3. FilesOfVersions'
    BY <1>1, <1>2 DEF FilesOfVersions, StoredWhole
  <2>4. QED
    BY <2>1, <2>2, <2>3
<1>15. RecordedOwn'
  <2> SUFFICES ASSUME NEW p \in Requests, upload'[p].pc = "current", IsThere(upload[p].design)'
               PROVE  \E v \in versions : v.design = upload'[p].design /\ v.version = upload'[p].version /\ v.by = p
    BY <1>1 DEF RecordedOwn, IsThere
  <2>1. upload'[p] = upload[p] /\ IsThere(upload[p].design)
    BY <1>10, <1>13 DEF Aiming, IsThere
  <2>2. QED
    BY <1>2, <2>1 DEF RecordedOwn
<1>16. Finishing' = Finishing \ {q}
  <2>1. \A p \in Requests : upload'[p].pc = "current" => p # q /\ upload'[p] = upload[p]
    BY <1>13 DEF Aiming
  <2>2. \A p \in Requests \ {q} : upload'[p] = upload[p]
    BY <1>9
  <2>3. \A p \in Requests : IsThere(upload[p].design)' <=> IsThere(upload'[p].design)
    BY <1>10 DEF IsThere
  <2>4. QED
    BY <1>3, <1>9, <1>10, <2>1, <2>2, <2>3 DEF Finishing
<1>17. InOrder'
  <2>1. CASE here
    <3> SUFFICES ASSUME design.id \notin adrift
                 PROVE  /\ \A p \in Requests : upload'[p].pc \in Aiming /\ upload'[p].design = design.id =>
                             upload'[p].version <= n + 1
                        /\ \A p \in Finishing' : upload'[p].version = n + 1
                        /\ VersionNumbers' = 1..(IF Finishing' = {} THEN n ELSE n + 1)
      BY <1>1, <1>5, <1>6, <1>7, <2>1 DEF InOrder
    <3>1. q \in Finishing
      BY <1>1, <2>1 DEF Finishing
    <3>2. Finishing' = {}
      BY <1>16, <3>1, OneFinishes
    <3>3. design # None /\ n = design.current + 1 /\ design.current \in Nat
      BY <1>2, <1>5, <2>1, <3>1, RequestCount DEF InOrder, DesignRows
    <3>4. VersionNumbers' = 1..n
      BY <1>1, <1>2, <3>1, <3>3 DEF InOrder, VersionNumbers
    <3>5. ASSUME NEW p \in Requests, upload'[p].pc \in Aiming, upload'[p].design = design.id PROVE upload'[p].version <= n + 1
      <4>1. upload'[p] = upload[p] /\ upload[p].version \in Nat
        BY <1>2, <1>13, <3>5, RequestCount DEF UploadsKnow, Numbers
      <4>2. upload[p].version <= design.current + 1
        BY <1>2, <3>3, <3>5, <4>1 DEF InOrder
      <4>3. QED
        BY <3>3, <4>1, <4>2
    <3>6. QED
      BY <3>2, <3>4, <3>5
  <2>2. CASE ~here
    <3>1. Finishing' = Finishing /\ UNCHANGED design
      BY <1>1, <1>16, <2>2 DEF Finishing
    <3> SUFFICES ASSUME design # None, design.id \notin adrift
                 PROVE  /\ \A p \in Requests : upload'[p].pc \in Aiming /\ upload'[p].design = design.id =>
                             upload'[p].version <= design.current + 1
                        /\ \A p \in Finishing : upload'[p].version = design.current + 1
                        /\ VersionNumbers = 1..(IF Finishing = {} THEN design.current ELSE design.current + 1)
      BY <1>1, <3>1 DEF InOrder, VersionNumbers
    <3>2. \A p \in Finishing : p \in Requests /\ upload'[p] = upload[p]
      BY <1>9, <1>16, <3>1 DEF Finishing
    <3>3. QED
      BY <1>2, <1>13, <3>2 DEF InOrder
  <2>3. QED
    BY <2>1, <2>2
<1>18. QED
  BY <1>8, <1>11, <1>12, <1>14, <1>15, <1>17 DEF DesignInv

LEMMA UnlinkVersionsStep ==
  ASSUME DesignInv, NEW q \in Requests, UnlinkVersions(q)
  PROVE  DesignInv'
<1> DEFINE all == {upload[q].design} \X (1..upload[q].version)
           u == [upload[q] EXCEPT !.pc = "erase"]
<1>1. /\ upload[q].pc = "unlink" /\ Proceeds(q, u) /\ spoiled' = spoiled \cup all
      /\ (Unlink(all) /\ UNCHANGED faults) \/ (Fault /\ UNCHANGED files)
      /\ UNCHANGED <<design, versions, adrift>>
  BY DEF UnlinkVersions
<1>2. TablesOfDesigns /\ UploadsKnow
  BY DEF DesignInv
<1>3. upload[q].design \in Requests /\ upload[q].version \in 0..Cardinality(Requests)
  BY <1>1, <1>2 DEF UploadsKnow, Uploads
<1>4. u \in Uploads /\ u.pc = "erase" /\ u.design = upload[q].design
  BY <1>2 DEF UploadsKnow, Uploads
<1>5. all \subseteq StorageKeys
  BY <1>3, RequestCount DEF StorageKeys
<1>6. faults' \in 0..MaxFaults
  BY <1>1, <1>2, FaultBound DEF TablesOfDesigns, Fault
<1>7. Unlink(all) \/ Unlink({})
  BY <1>1, <1>2 DEF Unlink, TablesOfDesigns
<1>8. spoiled \subseteq spoiled' /\ spoiled' \subseteq StorageKeys /\ \A k \in all : k \in spoiled'
  BY <1>1, <1>2, <1>5 DEF TablesOfDesigns
<1> HIDE DEF u, all
<1>9. QED
  BY <1>1, <1>3, <1>4, <1>6, <1>7, <1>8, GiveUpStep

LEMMA EraseRowsStep ==
  ASSUME DesignInv, NEW q \in Requests, EraseRows(q)
  PROVE  DesignInv'
<1> DEFINE u == [NotStarted EXCEPT !.pc = "done"]
<1>1. upload[q].pc = "erase" /\ Proceeds(q, u) /\ UNCHANGED <<files, faults, spoiled, adrift>>
  BY DEF EraseRows, Gives
<1>2. u \in Uploads /\ u.pc = "done" /\ u.design = None
  BY PlainUploads
<1>3. TablesOfDesigns /\ RowsAreOfTheDesign
  BY DEF DesignInv
<1>4. Unlink({}) /\ faults' \in 0..MaxFaults /\ spoiled' \subseteq StorageKeys
  BY <1>1, <1>3 DEF Unlink, TablesOfDesigns
<1>5. (design' = None /\ versions' = {}) \/ UNCHANGED <<design, versions>>
  BY <1>3, EraseKeeps DEF EraseRows
<1> HIDE DEF u
<1>6. QED
  BY <1>1, <1>2, <1>4, <1>5, GiveUpStep

LEMMA RestartUploadsStep ==
  ASSUME DesignInv, RestartUploads
  PROVE  DesignInv'
<1> DEFINE u == [NotStarted EXCEPT !.pc = "done"]
<1>1. /\ Fault /\ UNCHANGED <<design, versions, files, spoiled>>
      /\ adrift' = adrift \cup {upload[q].design : q \in {p \in Requests : upload[p].pc = "current"}}
      /\ upload' = [q \in Requests |-> IF upload[q].pc = "new" THEN NotStarted ELSE u]
  BY DEF RestartUploads
<1>2. /\ TablesOfDesigns /\ UploadsKnow /\ RowsAreOfTheDesign /\ IdsAreNew /\ NumbersSuffice
      /\ FileInHand /\ FilesApart /\ FilesOfVersions /\ RecordedOwn /\ InOrder
  BY DEF DesignInv
<1>3. /\ u \in Uploads /\ u.pc = "done" /\ u.design = None
      /\ NotStarted \in Uploads /\ NotStarted.pc = "new" /\ NotStarted.design = None
  BY PlainUploads
<1> HIDE DEF u
<1>4. \A q \in Requests : /\ upload'[q].pc \in {"new", "done"} /\ upload'[q].design = None
                          /\ upload'[q].pc = "new" <=> upload[q].pc = "new"
  BY <1>1, <1>3
<1>5. faults' \in 0..MaxFaults /\ adrift' \subseteq Requests
  BY <1>1, <1>2, FaultBound DEF TablesOfDesigns, UploadsKnow, Aiming, Fault
<1>6. TablesOfDesigns'
  BY <1>1, <1>2, <1>5 DEF TablesOfDesigns, Numbers, StorageKeys
<1>7. Begun' = Begun
  BY <1>4 DEF Begun
<1>8. UploadsKnow' /\ NumbersSuffice'
  <2>1. upload' \in [Requests -> Uploads]
    BY <1>1, <1>3
  <2>2. QED
    BY <1>1, <1>2, <1>4, <1>7, <2>1 DEF UploadsKnow, NumbersSuffice, Aiming
<1>9. IdsAreNew'
  <2>1. design # None => design.id \in Requests
    BY <1>2 DEF TablesOfDesigns, DesignRows
  <2>2. QED
    BY <1>1, <1>2, <1>4, <2>1 DEF IdsAreNew, Maker
<1>10. RowsAreOfTheDesign' /\ FilesOfVersions'
  BY <1>1, <1>2 DEF RowsAreOfTheDesign, IsThere, FilesOfVersions, StoredWhole
<1>11. FileInHand' /\ FilesApart' /\ RecordedOwn' /\ Finishing' = {}
  BY <1>4 DEF FileInHand, FilesApart, RecordedOwn, Finishing, Holding
<1>12. InOrder'
  <2> SUFFICES ASSUME design # None, design.id \notin adrift'
               PROVE  VersionNumbers = 1..design.current
    BY <1>1, <1>4, <1>11 DEF InOrder, VersionNumbers, Aiming
  <2>1. Finishing = {} /\ design.id \notin adrift
    BY <1>1 DEF Finishing, IsThere
  <2>2. QED
    BY <1>2, <2>1 DEF InOrder
<1>13. QED
  BY <1>6, <1>8, <1>9, <1>10, <1>11, <1>12 DEF DesignInv

LEMMA DesignInvInit == DesignsInit => DesignInv
<1> SUFFICES ASSUME DesignsInit PROVE DesignInv
  OBVIOUS
<1>1. /\ design = None /\ versions = {} /\ files = [k \in StorageKeys |-> None]
      /\ upload = [q \in Requests |-> NotStarted] /\ faults = 0 /\ spoiled = {} /\ adrift = {}
  BY DEF DesignsInit
<1>2. NotStarted \in Uploads /\ NotStarted.pc = "new" /\ NotStarted.design = None
  BY PlainUploads
<1>3. TablesOfDesigns
  BY <1>1, FaultBound DEF TablesOfDesigns
<1>4. UploadsKnow /\ IdsAreNew /\ NumbersSuffice
  BY <1>1, <1>2 DEF UploadsKnow, IdsAreNew, NumbersSuffice, Aiming
<1>5. RowsAreOfTheDesign /\ FilesOfVersions /\ InOrder
  BY <1>1 DEF RowsAreOfTheDesign, FilesOfVersions, InOrder
<1>6. FileInHand /\ FilesApart /\ RecordedOwn
  BY <1>1, <1>2 DEF FileInHand, FilesApart, RecordedOwn, Holding
<1>7. QED
  BY <1>3, <1>4, <1>5, <1>6 DEF DesignInv

LEMMA DesignInvStep == DesignInv /\ [DesignsNext]_designVars => DesignInv'
<1> SUFFICES ASSUME DesignInv, [DesignsNext]_designVars PROVE DesignInv'
  OBVIOUS
<1>1. ASSUME NEW q \in Requests,
             \/ FindDesign(q) \/ MakeDesign(q) \/ OpenFile(q) \/ FinishFile(q) \/ RecordVersion(q) \/ MakeCurrent(q)
             \/ FindToDelete(q) \/ UnlinkVersions(q) \/ EraseRows(q)
      PROVE  DesignInv'
  BY <1>1, FindDesignStep, MakeDesignStep, OpenFileStep, FinishFileStep, RecordVersionStep, MakeCurrentStep,
     FindToDeleteStep, UnlinkVersionsStep, EraseRowsStep
<1>2. CASE UNCHANGED designVars
  BY <1>2 DEF designVars, DesignInv, TablesOfDesigns, UploadsKnow, RowsAreOfTheDesign, IdsAreNew, NumbersSuffice,
     FileInHand, FilesApart, FilesOfVersions, RecordedOwn, InOrder, Finishing, VersionNumbers, Begun, Maker, KeyOf,
     StoredWhole, IsThere, StorageKeys, Numbers
<1>3. QED
  BY <1>1, <1>2, RestartUploadsStep DEF DesignsNext

LEMMA DesignInvHolds == DesignsSpec => []DesignInv
BY DesignInvInit, DesignInvStep, PTL DEF DesignsSpec

(***************************************************************************)
(* However many requests upload, delete and fail, and whenever the process *)
(* ends, a recorded version has its uploader's file whole, unless its key  *)
(* was opened twice or its design was being deleted; and no number is      *)
(* missing below the current version (routes/designs.ts).                  *)
(***************************************************************************)
THEOREM VersionsWhole == DesignsSpec => []VersionsAreWhole
<1>1. DesignInv => VersionsAreWhole
  <2> SUFFICES ASSUME DesignInv PROVE VersionsAreWhole
    OBVIOUS
  <2>1. FilesOfVersions /\ InOrder
    BY DEF DesignInv
  <2>2. Uploading = {} => Finishing = {}
    BY DEF Uploading, Finishing
  <2>3. QED
    BY <2>1, <2>2 DEF FilesOfVersions, InOrder, VersionNumbers, VersionsAreWhole
<1>2. QED
  BY <1>1, DesignInvHolds, PTL

LEMMA DesignTypes == DesignInv => DesignsTypeOK
<1> SUFFICES ASSUME DesignInv PROVE DesignsTypeOK
  OBVIOUS
<1>1. TablesOfDesigns /\ UploadsKnow /\ RowsAreOfTheDesign
  BY DEF DesignInv
<1>2. \A q \in Requests :
        upload[q].pc \in {"new", "make", "open", "write", "record", "current", "unlink", "erase", "done"}
  BY <1>1 DEF UploadsKnow, Uploads
<1>3. \A v \in versions : design # None /\ v.design = design.id
  BY <1>1 DEF RowsAreOfTheDesign, IsThere
<1>4. design = None \/ (design.id \in Requests /\ design.current \in 0..Cardinality(Requests))
  BY <1>1 DEF TablesOfDesigns, DesignRows
<1>5. \A k \in StorageKeys : files[k] = None \/ (files[k].inode \in Requests /\ files[k].bytes \subseteq Requests)
  BY <1>1 DEF TablesOfDesigns, DesignFiles
<1>6. QED
  BY <1>1, <1>2, <1>3, <1>4, <1>5 DEF DesignsTypeOK, TablesOfDesigns, VersionRows, RowsAreOfTheDesign

(***************************************************************************)
(* One issue and its timeline (routes/issues.ts, quick-actions.ts,         *)
(* timeline-service.ts).  What is still to be told of a field or a label   *)
(* is owed by one request, and is what the row says; when nobody owes it,  *)
(* the timeline has said it.                                               *)
(***************************************************************************)
Topics == Fields \cup Labels
Events == {c \in Commands : c.op # "spend"}
FieldRows == {r \in [Fields -> Values.state \cup Values.assignee] : \A f \in Fields : r[f] \in Values[f]}
Deeds == [pc: {"new", "patch", "run", "done"}, plan: Seq(Commands), copy: FieldRows \cup {None}, time: 0..MaxSpent,
          seen: (SUBSET Labels) \cup {None}, owed: Seq(Events)]

\* What a list of events says of a topic; each topic is in it once.
Saying(s, x) == {s[i].to : i \in {j \in 1..Len(s) : s[j].of = x}}
OnceEach(s) == \A i, j \in 1..Len(s) : s[i].of = s[j].of => i = j
Said(q, x) == Saying(deed[q].owed, x)
Current(x) == IF x \in Labels THEN (IF x \in labels THEN "on" ELSE "off") ELSE field[x]

TablesOfIssues ==
  /\ field \in FieldRows /\ labels \subseteq Labels /\ spent \in 0..MaxSpent /\ logged \in 0..MaxSpent
  /\ told \in [Topics -> (UNION {Values[f] : f \in Fields}) \cup {"on", "off"}]
  /\ \A f \in Fields : told[f] \in Values[f]
  /\ \A l \in Labels : told[l] \in {"on", "off"}
  /\ misses \in 0..MaxFaults /\ raced \subseteq Topics \cup {"spent"} /\ untold \subseteq Topics
DeedsHang ==
  /\ deed \in [Requests -> Deeds]
  /\ \A q \in Requests : /\ deed[q].pc = "new" => deed[q] = Unread
                         /\ deed[q].pc # "run" => deed[q].owed = <<>>
                         /\ deed[q].pc = "patch" => deed[q].plan \in Patches
                         /\ deed[q].plan # <<>> => deed[q].copy \in FieldRows
                         /\ OnceEach(deed[q].owed)
OwedByOne(x) == x \notin raced => \A p, q \in Requests : Said(p, x) # {} /\ Said(q, x) # {} => p = q
ToldOrOwed(x) == x \notin raced \cup untold =>
  /\ \A q \in Requests : Said(q, x) \subseteq {Current(x)}
  /\ (\A q \in Requests : Said(q, x) = {}) => told[x] = Current(x)
IssueInv == /\ TablesOfIssues /\ DeedsHang /\ SpentIsWhatWasLogged
            /\ \A x \in Topics : OwedByOne(x) /\ ToldOrOwed(x)

LEMMA FieldValues ==
  /\ Values["state"] = {"open", "closed"} /\ Values["assignee"] = {"nobody", "somebody"}
  /\ Values.state = Values["state"] /\ Values.assignee = Values["assignee"]
  /\ \A f \in Fields : f \in {"state", "assignee"} /\ f \notin Labels /\ f # "spent"
  /\ \A l \in Labels : l # "spent"
BY NamesApart DEF Values, Fields

LEMMA RowChange ==
  ASSUME NEW r \in FieldRows, NEW f \in Fields, NEW to \in Values[f]
  PROVE  [r EXCEPT ![f] = to] \in FieldRows
BY FieldValues DEF FieldRows

\* What a command says, and which commands are told.
LEMMA CommandKinds ==
  ASSUME NEW c \in Commands
  PROVE  \/ c.op = "set" /\ c.of \in Fields /\ c.to \in Values[c.of]
         \/ c.op = "label" /\ c.of \in Labels /\ c.to \in {"on", "off"}
         \/ c.op = "spend"
<1>1. \/ c \in UNION {{Set(f, to) : to \in Values[f]} : f \in Fields}
      \/ c \in {Label(l) : l \in Labels} \/ c \in {Unlabel(l) : l \in Labels}
      \/ c \in {Spend(sign, n) : sign \in {"+", "-"}, n \in 0..MaxSpent}
  BY DEF Commands
<1>2. ASSUME NEW f \in Fields, c \in {Set(f, to) : to \in Values[f]}
      PROVE  c.op = "set" /\ c.of \in Fields /\ c.to \in Values[c.of]
  <2>1. PICK to \in Values[f] : c = Set(f, to)
    BY <1>2
  <2>2. c.op = "set" /\ c.of = f /\ c.to = to
    BY <2>1 DEF Set
  <2>3. QED
    BY <2>2
<1>3. ASSUME c \in {Label(l) : l \in Labels} \/ c \in {Unlabel(l) : l \in Labels}
      PROVE  c.op = "label" /\ c.of \in Labels /\ c.to \in {"on", "off"}
  BY <1>3 DEF Label, Unlabel
<1>4. ASSUME c \in {Spend(sign, n) : sign \in {"+", "-"}, n \in 0..MaxSpent}
      PROVE  c.op = "spend"
  BY <1>4 DEF Spend
<1>5. QED
  BY <1>1, <1>2, <1>3, <1>4

LEMMA EventTopics ==
  ASSUME NEW e \in Events
  PROVE  /\ e \in Commands /\ e.of \in Topics
         /\ e.of \in Fields => e.to \in Values[e.of]
         /\ e.of \in Labels => e.to \in {"on", "off"}
<1>1. e \in Commands /\ e.op # "spend"
  BY DEF Events
<1>2. QED
  BY <1>1, CommandKinds, FieldValues DEF Topics

LEMMA EventsOfChanges ==
  /\ \A f \in Fields : \A to \in Values[f] : Set(f, to) \in Events /\ Set(f, to).of = f /\ Set(f, to).to = to
  /\ \A l \in Labels : /\ Label(l) \in Events /\ Label(l).of = l /\ Label(l).to = "on"
                       /\ Unlabel(l) \in Events /\ Unlabel(l).of = l /\ Unlabel(l).to = "off"
<1>1. ASSUME NEW f \in Fields, NEW to \in Values[f]
      PROVE  Set(f, to) \in Events /\ Set(f, to).of = f /\ Set(f, to).to = to
  <2>1. Set(f, to) \in UNION {{Set(g, v) : v \in Values[g]} : g \in Fields}
    <3>1. Set(f, to) \in {Set(f, v) : v \in Values[f]}
      OBVIOUS
    <3>2. QED
      BY <3>1
  <2>2. Set(f, to) \in Commands
    BY <2>1 DEF Commands
  <2>3. QED
    BY <2>2 DEF Set, Events
<1>2. ASSUME NEW l \in Labels
      PROVE  /\ Label(l) \in Events /\ Label(l).of = l /\ Label(l).to = "on"
             /\ Unlabel(l) \in Events /\ Unlabel(l).of = l /\ Unlabel(l).to = "off"
  <2>1. Label(l) \in Commands /\ Unlabel(l) \in Commands
    BY DEF Commands
  <2>2. QED
    BY <2>1 DEF Label, Unlabel, Events
<1>3. QED
  BY <1>1, <1>2

\* Lists of none, of one, and of all but the first.
LEMMA NothingToSay == <<>> \in Seq(Events) /\ OnceEach(<<>>) /\ \A x : Saying(<<>>, x) = {}
BY DEF OnceEach, Saying

LEMMA OneToSay ==
  ASSUME NEW e \in Events
  PROVE  /\ <<e>> \in Seq(Events) /\ OnceEach(<<e>>) /\ Saying(<<e>>, e.of) = {e.to}
         /\ \A x : x # e.of => Saying(<<e>>, x) = {}
<1>1. Len(<<e>>) = 1 /\ <<e>>[1] = e /\ <<e>> \in Seq(Events)
  OBVIOUS
<1>2. 1..1 = {1}
  OBVIOUS
<1>3. QED
  BY <1>1, <1>2 DEF OnceEach, Saying

LEMMA AllButTheFirst ==
  ASSUME NEW s \in Seq(Events), s # <<>>, OnceEach(s)
  PROVE  /\ Head(s) \in Events /\ Tail(s) \in Seq(Events) /\ OnceEach(Tail(s))
         /\ Saying(s, Head(s).of) = {Head(s).to} /\ Saying(Tail(s), Head(s).of) = {}
         /\ \A x : x # Head(s).of => Saying(Tail(s), x) = Saying(s, x)
<1>1. /\ Len(s) \in Nat /\ Len(s) >= 1 /\ Head(s) = s[1] /\ Head(s) \in Events
      /\ Tail(s) \in Seq(Events) /\ Len(Tail(s)) = Len(s) - 1
      /\ \A i \in 1..(Len(s) - 1) : Tail(s)[i] = s[i + 1]
  OBVIOUS
<1>2. 1 \in 1..Len(s) /\ \A i \in 1..(Len(s) - 1) : i + 1 \in 1..Len(s) /\ i + 1 # 1
  BY <1>1
<1>3. \A i \in 1..Len(s) : i = 1 \/ (i - 1 \in 1..(Len(s) - 1) /\ (i - 1) + 1 = i)
  BY <1>1
<1>4. OnceEach(Tail(s))
  <2> SUFFICES ASSUME NEW i \in 1..(Len(s) - 1), NEW j \in 1..(Len(s) - 1), Tail(s)[i].of = Tail(s)[j].of
               PROVE  i = j
    BY <1>1 DEF OnceEach
  <2>1. i + 1 = j + 1
    BY <1>1, <1>2 DEF OnceEach
  <2>2. QED
    BY <1>1, <2>1
<1>5. Saying(s, Head(s).of) = {Head(s).to}
  BY <1>1, <1>2 DEF OnceEach, Saying
<1>6. Saying(Tail(s), Head(s).of) = {}
  <2>1. \A i \in 1..(Len(s) - 1) : Tail(s)[i].of # s[1].of
    BY <1>1, <1>2 DEF OnceEach
  <2>2. QED
    BY <1>1, <2>1 DEF Saying
<1>7. ASSUME NEW x, x # Head(s).of PROVE Saying(Tail(s), x) = Saying(s, x)
  <2>1. ASSUME NEW i \in 1..(Len(s) - 1), Tail(s)[i].of = x
        PROVE  Tail(s)[i].to \in Saying(s, x)
    BY <1>1, <1>2, <2>1 DEF Saying
  <2>2. ASSUME NEW i \in 1..Len(s), s[i].of = x
        PROVE  s[i].to \in Saying(Tail(s), x)
    <3>1. i - 1 \in 1..(Len(s) - 1) /\ Tail(s)[i - 1] = s[i]
      BY <1>1, <1>3, <1>7, <2>2
    <3>2. QED
      BY <1>1, <2>2, <3>1 DEF Saying
  <2>3. QED
    BY <1>1, <2>1, <2>2 DEF Saying
<1>8. QED
  BY <1>1, <1>4, <1>5, <1>6, <1>7

LEMMA OwedIsSaid ==
  ASSUME NEW q \in Requests, NEW x
  PROVE  x \in Pending(q) <=> Said(q, x) # {}
BY DEF Pending, Said, Saying

LEMMA ElsewhereIsSaid ==
  ASSUME NEW q \in Requests, NEW x
  PROVE  PendingElsewhere(q, x) <=> \E p \in Requests \ {q} : Said(p, x) # {}
BY OwedIsSaid DEF PendingElsewhere

\* A topic that a step leaves alone, one that it changes, and one that it tells.
LEMMA TopicKept ==
  ASSUME NEW x \in Topics, OwedByOne(x), ToldOrOwed(x), raced \subseteq raced', untold \subseteq untold',
         Current(x)' = Current(x), told'[x] = told[x], \A q \in Requests : Said(q, x)' = Said(q, x)
  PROVE  OwedByOne(x)' /\ ToldOrOwed(x)'
<1>1. OwedByOne(x)'
  BY DEF OwedByOne
<1>2. ToldOrOwed(x)'
  BY DEF ToldOrOwed
<1>3. QED
  BY <1>1, <1>2

LEMMA TopicChanged ==
  ASSUME NEW x \in Topics, OwedByOne(x), NEW q \in Requests, NEW v, Current(x)' = v, Said(q, x)' = {v},
         \A p \in Requests \ {q} : Said(p, x)' = Said(p, x),
         x \in raced' \/ \A p \in Requests \ {q} : Said(p, x) = {}
  PROVE  OwedByOne(x)' /\ ToldOrOwed(x)'
<1>1. OwedByOne(x)'
  BY DEF OwedByOne
<1>2. ToldOrOwed(x)'
  BY DEF ToldOrOwed
<1>3. QED
  BY <1>1, <1>2

LEMMA TopicTold ==
  ASSUME NEW x \in Topics, OwedByOne(x), ToldOrOwed(x), NEW q \in Requests, NEW v,
         UNCHANGED raced, untold \subseteq untold', Current(x)' = Current(x),
         Said(q, x) = {v}, Said(q, x)' = {}, \A p \in Requests \ {q} : Said(p, x)' = Said(p, x),
         told'[x] = v \/ x \in untold'
  PROVE  OwedByOne(x)' /\ ToldOrOwed(x)'
<1>1. OwedByOne(x)'
  BY DEF OwedByOne
<1>2. ToldOrOwed(x)'
  BY DEF OwedByOne, ToldOrOwed
<1>3. QED
  BY <1>1, <1>2

\* A request that moves on leaves what the others know.
LEMMA DeedMoves ==
  ASSUME DeedsHang, NEW q \in Requests, NEW d \in Deeds, deed' = [deed EXCEPT ![q] = d], d.pc # "new",
         d.pc # "run" => d.owed = <<>>, d.pc = "patch" => d.plan \in Patches,
         d.plan # <<>> => d.copy \in FieldRows, OnceEach(d.owed)
  PROVE  /\ DeedsHang' /\ \A x : Said(q, x)' = Saying(d.owed, x)
         /\ \A p \in Requests \ {q} : \A x : Said(p, x)' = Said(p, x)
<1>1. deed' \in [Requests -> Deeds] /\ deed'[q] = d /\ \A p \in Requests \ {q} : deed'[p] = deed[p]
  BY DEF DeedsHang
<1>2. DeedsHang'
  BY <1>1 DEF DeedsHang
<1>3. QED
  BY <1>1, <1>2 DEF Said

LEMMA PatchesGive ==
  ASSUME NEW plan \in Patches
  PROVE  /\ plan \in Seq(Commands) /\ Given(plan) \subseteq Fields
         /\ \A f \in Given(plan) : GivenTo(plan, f) \in Values[f]
<1>1. ASSUME NEW f \in Fields, NEW to \in Values[f], plan = <<Set(f, to)>>
      PROVE  /\ plan \in Seq(Commands) /\ Given(plan) \subseteq Fields
             /\ \A g \in Given(plan) : GivenTo(plan, g) \in Values[g]
  <2>1. Len(plan) = 1 /\ plan[1] = Set(f, to) /\ Set(f, to) \in Commands /\ Set(f, to).of = f /\ Set(f, to).to = to
    BY <1>1, EventsOfChanges DEF Events
  <2>2. 1..1 = {1}
    OBVIOUS
  <2>3. Given(plan) = {f}
    BY <2>1, <2>2 DEF Given
  <2>4. GivenTo(plan, f) = to
    BY <2>1, <2>2 DEF GivenTo
  <2>5. plan \in Seq(Commands)
    BY <1>1, <2>1
  <2>6. QED
    BY <2>3, <2>4, <2>5
<1>2. ASSUME NEW s \in Values["state"], NEW a \in Values["assignee"], plan = <<Set("state", s), Set("assignee", a)>>
      PROVE  /\ plan \in Seq(Commands) /\ Given(plan) \subseteq Fields
             /\ \A g \in Given(plan) : GivenTo(plan, g) \in Values[g]
  <2> DEFINE c == Set("state", s)
             e == Set("assignee", a)
  <2>1. c \in Commands /\ c.of = "state" /\ c.to = s /\ e \in Commands /\ e.of = "assignee" /\ e.to = a
    BY EventsOfChanges DEF Events, Fields
  <2> HIDE DEF c, e
  <2>2. Len(plan) = 2 /\ plan[1] = c /\ plan[2] = e /\ plan \in Seq(Commands)
    BY <1>2, <2>1 DEF c, e
  <2>3. 1..2 = {1, 2}
    OBVIOUS
  <2>4. Given(plan) = {"state", "assignee"}
    BY <2>1, <2>2, <2>3 DEF Given
  <2>5. GivenTo(plan, "state") = s
    BY <2>1, <2>2, <2>3 DEF GivenTo
  <2>6. GivenTo(plan, "assignee") = a
    BY <2>1, <2>2, <2>3 DEF GivenTo
  <2>7. QED
    BY <2>2, <2>4, <2>5, <2>6 DEF Fields
<1>3. "state" \in Fields /\ "assignee" \in Fields
  BY DEF Fields
<1>4. \/ \E s \in Values["state"] : plan = <<Set("state", s)>>
      \/ \E a \in Values["assignee"] : plan = <<Set("assignee", a)>>
      \/ \E s \in Values["state"], a \in Values["assignee"] : plan = <<Set("state", s), Set("assignee", a)>>
  BY FieldValues DEF Patches
<1>5. QED
  BY <1>1, <1>2, <1>3, <1>4

\* What a PATCH has to tell.
LEMMA ChangesToTell ==
  ASSUME NEW plan \in Patches, NEW old \in FieldRows
  PROVE  /\ Changed(plan, old) \in Seq(Events) /\ OnceEach(Changed(plan, old))
         /\ \A f \in Fields : Saying(Changed(plan, old), f) =
              IF f \in Given(plan) /\ old[f] # GivenTo(plan, f) THEN {GivenTo(plan, f)} ELSE {}
         /\ \A l \in Labels : Saying(Changed(plan, old), l) = {}
<1> DEFINE all == Changed(plan, old)
           ofState == ChangeOf(plan, old, "state")
           ofAssignee == ChangeOf(plan, old, "assignee")
           c == Set("state", GivenTo(plan, "state"))
           e == Set("assignee", GivenTo(plan, "assignee"))
           inS == "state" \in Given(plan) /\ old["state"] # GivenTo(plan, "state")
           inA == "assignee" \in Given(plan) /\ old["assignee"] # GivenTo(plan, "assignee")
<1>1. all = ofState \o ofAssignee
  BY DEF Changed
<1>2. ofState = (IF inS THEN <<c>> ELSE <<>>) /\ ofAssignee = (IF inA THEN <<e>> ELSE <<>>)
  BY DEF ChangeOf
<1>3. inS => c \in Events /\ c.of = "state" /\ c.to = GivenTo(plan, "state")
  BY PatchesGive, EventsOfChanges DEF Fields
<1>4. inA => e \in Events /\ e.of = "assignee" /\ e.to = GivenTo(plan, "assignee")
  BY PatchesGive, EventsOfChanges DEF Fields
<1> SUFFICES /\ all \in Seq(Events) /\ OnceEach(all)
             /\ Saying(all, "state") = (IF inS THEN {GivenTo(plan, "state")} ELSE {})
             /\ Saying(all, "assignee") = (IF inA THEN {GivenTo(plan, "assignee")} ELSE {})
             /\ \A x : x \notin {"state", "assignee"} => Saying(all, x) = {}
  <2>1. \A l \in Labels : l \notin {"state", "assignee"}
    BY FieldValues DEF Fields
  <2>2. /\ OnceEach(Changed(plan, old)) /\ Changed(plan, old) \in Seq(Events)
        /\ \A l \in Labels : Saying(Changed(plan, old), l) = {}
    BY <2>1
  <2>3. ASSUME NEW f \in Fields
        PROVE  Saying(Changed(plan, old), f) =
                 IF f \in Given(plan) /\ old[f] # GivenTo(plan, f) THEN {GivenTo(plan, f)} ELSE {}
    <3>1. CASE f = "state"
      BY <3>1
    <3>2. CASE f = "assignee"
      BY <3>2
    <3>3. QED
      BY <3>1, <3>2 DEF Fields
  <2>4. QED
    BY <2>2, <2>3
<1> HIDE DEF all, ofState, ofAssignee, c, e, inS, inA
<1>5. CASE ~inS /\ ~inA
  <2>1. all = <<>>
    BY <1>1, <1>2, <1>5
  <2>2. QED
    BY <1>5, <2>1, NothingToSay
<1>6. CASE inS /\ ~inA
  <2>1. all = <<c>>
    BY <1>1, <1>2, <1>6
  <2>2. QED
    BY <1>3, <1>6, <2>1, OneToSay
<1>7. CASE ~inS /\ inA
  <2>1. all = <<e>>
    BY <1>1, <1>2, <1>7
  <2>2. QED
    BY <1>4, <1>7, <2>1, OneToSay
<1>8. CASE inS /\ inA
  <2>1. all = <<c>> \o <<e>> /\ <<c>> \in Seq(Events) /\ <<e>> \in Seq(Events)
    BY <1>1, <1>2, <1>3, <1>4, <1>8
  <2>2. Len(all) = 2 /\ all[1] = c /\ all[2] = e /\ all \in Seq(Events)
    BY <2>1
  <2>3. 1..2 = {1, 2}
    OBVIOUS
  <2>4. OnceEach(all) /\ Saying(all, "state") = {c.to} /\ Saying(all, "assignee") = {e.to}
        /\ \A x : x \notin {"state", "assignee"} => Saying(all, x) = {}
    BY <1>3, <1>4, <1>8, <2>2, <2>3 DEF OnceEach, Saying
  <2>5. QED
    BY <1>3, <1>4, <1>8, <2>2, <2>4
<1>9. QED
  BY <1>5, <1>6, <1>7, <1>8

\* A step that changes no topic and tells nothing.
LEMMA QuietStep ==
  ASSUME IssueInv, NEW q \in Requests, NEW d \in Deeds, deed' = [deed EXCEPT ![q] = d], d.pc # "new",
         d.owed = deed[q].owed, d.pc # "run" => d.owed = <<>>, d.pc = "patch" => d.plan \in Patches,
         d.plan # <<>> => d.copy \in FieldRows,
         UNCHANGED <<field, labels, told, misses, untold>>, raced' \in {raced, raced \cup {"spent"}},
         spent' \in 0..MaxSpent, logged' \in 0..MaxSpent, SpentIsWhatWasLogged'
  PROVE  IssueInv'
<1>1. TablesOfIssues /\ DeedsHang /\ \A x \in Topics : OwedByOne(x) /\ ToldOrOwed(x)
  BY DEF IssueInv
<1>2. OnceEach(d.owed)
  BY <1>1 DEF DeedsHang
<1>3. /\ DeedsHang' /\ \A x : Said(q, x)' = Saying(d.owed, x)
      /\ \A p \in Requests \ {q} : \A x : Said(p, x)' = Said(p, x)
  BY <1>1, <1>2, DeedMoves
<1>4. \A p \in Requests : \A x : Said(p, x)' = Said(p, x)
  BY <1>3 DEF Said
<1>5. TablesOfIssues'
  BY <1>1 DEF TablesOfIssues
<1>6. ASSUME NEW x \in Topics PROVE OwedByOne(x)' /\ ToldOrOwed(x)'
  <2>1. Current(x)' = Current(x)
    BY DEF Current
  <2>2. raced \subseteq raced' /\ untold \subseteq untold' /\ told'[x] = told[x]
    OBVIOUS
  <2>3. QED
    BY <1>1, <1>4, <2>1, <2>2, TopicKept
<1>7. QED
  BY <1>3, <1>5, <1>6 DEF IssueInv

\* A step that changes one topic, and owes its event.
LEMMA ChangeStep ==
  ASSUME IssueInv, NEW q \in Requests, NEW d \in Deeds, deed' = [deed EXCEPT ![q] = d], d.pc = "run",
         NEW e \in Events, d.owed = <<e>>, d.plan # <<>> => d.copy \in FieldRows, deed[q].owed = <<>>,
         field' \in FieldRows, labels' \subseteq Labels, Current(e.of)' = e.to,
         \A x \in Topics \ {e.of} : Current(x)' = Current(x),
         raced' = raced \cup {e.of} \/ (UNCHANGED raced /\ ~PendingElsewhere(q, e.of)),
         UNCHANGED <<spent, told, misses, logged, untold>>
  PROVE  IssueInv'
<1>1. TablesOfIssues /\ DeedsHang /\ SpentIsWhatWasLogged /\ \A x \in Topics : OwedByOne(x) /\ ToldOrOwed(x)
  BY DEF IssueInv
<1>2. OnceEach(d.owed) /\ Saying(d.owed, e.of) = {e.to} /\ \A x : x # e.of => Saying(d.owed, x) = {}
  BY OneToSay
<1>3. /\ DeedsHang' /\ \A x : Said(q, x)' = Saying(d.owed, x)
      /\ \A p \in Requests \ {q} : \A x : Said(p, x)' = Said(p, x)
  BY <1>1, <1>2, DeedMoves
<1>4. \A x : Said(q, x) = {}
  BY NothingToSay DEF Said
<1>5. e.of \in Topics
  BY EventTopics
<1>6. TablesOfIssues'
  BY <1>1, <1>5 DEF TablesOfIssues
<1>7. SpentIsWhatWasLogged'
  BY <1>1 DEF SpentIsWhatWasLogged
<1>8. ASSUME NEW x \in Topics PROVE OwedByOne(x)' /\ ToldOrOwed(x)'
  <2>1. raced \subseteq raced' /\ untold \subseteq untold' /\ told'[x] = told[x]
    OBVIOUS
  <2>2. CASE x = e.of
    <3>1. x \in raced' \/ \A p \in Requests \ {q} : Said(p, x) = {}
      BY <2>2, ElsewhereIsSaid
    <3>2. Current(x)' = e.to /\ Said(q, x)' = {e.to} /\ \A p \in Requests \ {q} : Said(p, x)' = Said(p, x)
      BY <1>2, <1>3, <2>2
    <3>3. QED
      BY <1>1, <3>1, <3>2, TopicChanged
  <2>3. CASE x # e.of
    <3>1. Current(x)' = Current(x) /\ \A p \in Requests : Said(p, x)' = Said(p, x)
      BY <1>2, <1>3, <1>4, <2>3
    <3>2. QED
      BY <1>1, <2>1, <3>1, TopicKept
  <2>4. QED
    BY <2>2, <2>3
<1>9. QED
  BY <1>3, <1>6, <1>7, <1>8 DEF IssueInv

LEMMA UnreadDeeds ==
  /\ Unread \in Deeds /\ Unread.pc = "new" /\ Unread.plan = <<>> /\ Unread.owed = <<>>
  /\ [Unread EXCEPT !.pc = "done"] \in Deeds /\ [Unread EXCEPT !.pc = "done"].pc = "done"
  /\ [Unread EXCEPT !.pc = "done"].plan = <<>> /\ [Unread EXCEPT !.pc = "done"].owed = <<>>
<1> DEFINE empty == <<>>
<1>1. empty \in Seq(Commands) /\ empty \in Seq(Events) /\ 0 \in 0..MaxSpent
  BY SpentBound
<1>2. ASSUME NEW pc \in {"new", "done"}, NEW u, u = [pc |-> pc, plan |-> empty, copy |-> None, time |-> 0, seen |-> None, owed |-> empty]
      PROVE  u \in Deeds /\ u.pc = pc /\ u.plan = empty /\ u.owed = empty
  <2> HIDE DEF empty
  <2>1. QED
    BY <1>1, <1>2 DEF Deeds
<1>3. /\ Unread = [pc |-> "new", plan |-> empty, copy |-> None, time |-> 0, seen |-> None, owed |-> empty]
      /\ [Unread EXCEPT !.pc = "done"] = [pc |-> "done", plan |-> empty, copy |-> None, time |-> 0, seen |-> None, owed |-> empty]
  BY DEF Unread
<1>4. QED
  BY <1>2, <1>3

LEMMA ReadsStep ==
  ASSUME IssueInv, NEW q \in Requests, NEW pc, NEW plan, Reads(q, pc, plan),
         \/ pc = "run" /\ plan \in Seq(Commands)
         \/ pc = "patch" /\ plan \in Patches
  PROVE  IssueInv'
<1> DEFINE d == [Unread EXCEPT !.pc = pc, !.plan = plan, !.copy = field, !.time = spent]
<1>1. /\ deed[q].pc = "new" /\ deed' = [deed EXCEPT ![q] = d]
      /\ UNCHANGED <<field, labels, spent, told, misses, logged, raced, untold>>
  BY DEF Reads
<1>2. TablesOfIssues /\ DeedsHang /\ SpentIsWhatWasLogged
  BY DEF IssueInv
<1>3. plan \in Seq(Commands) /\ pc \in {"run", "patch"}
  BY PatchesGive
<1>4. field \in FieldRows /\ spent \in 0..MaxSpent /\ logged \in 0..MaxSpent
  BY <1>2 DEF TablesOfIssues
<1>5. d \in Deeds
  BY <1>3, <1>4, UnreadDeeds DEF Deeds
<1>6. d.pc = pc /\ d.plan = plan /\ d.copy = field /\ d.owed = <<>>
  BY DEF Unread
<1>7. deed[q].owed = <<>>
  BY <1>1, <1>2, UnreadDeeds DEF DeedsHang
<1>8. SpentIsWhatWasLogged'
  BY <1>1, <1>2 DEF SpentIsWhatWasLogged
<1> HIDE DEF d
<1>9. QED
  BY <1>1, <1>3, <1>4, <1>5, <1>6, <1>7, <1>8, QuietStep

\* The command whose turn it is.
LEMMA TurnTaken ==
  ASSUME IssueInv, NEW q \in Requests, NEW op, Turn(q, op)
  PROVE  /\ deed[q] \in Deeds /\ deed[q].pc = "run" /\ deed[q].owed = <<>> /\ deed[q].plan # <<>>
         /\ deed[q].copy \in FieldRows /\ Next1(q) \in Commands /\ Next1(q).op = op /\ Next1(q) = Head(deed[q].plan)
         /\ Tail(deed[q].plan) \in Seq(Commands)
<1>1. deed[q].pc = "run" /\ deed[q].owed = <<>> /\ deed[q].plan # <<>> /\ Next1(q).op = op
  BY DEF Turn
<1>2. deed[q] \in Deeds /\ deed[q].copy \in FieldRows
  BY <1>1 DEF IssueInv, DeedsHang
<1>3. deed[q].plan \in Seq(Commands)
  BY <1>2 DEF Deeds
<1>4. Head(deed[q].plan) \in Commands /\ Tail(deed[q].plan) \in Seq(Commands)
  BY <1>1, <1>3
<1>5. QED
  BY <1>1, <1>2, <1>4 DEF Next1

LEMMA ApplyFieldStep ==
  ASSUME IssueInv, NEW q \in Requests, ApplyField(q)
  PROVE  IssueInv'
<1> DEFINE d == deed[q]
<1>c. PICK c : c = Next1(q)
  OBVIOUS
<1>1. /\ Turn(q, "set")
      /\ IF d.copy[c.of] = c.to THEN Moves(q, d) /\ UNCHANGED <<field, raced>>
         ELSE /\ field' = [field EXCEPT ![c.of] = c.to]
              /\ Moves(q, [d EXCEPT !.copy[c.of] = c.to, !.owed = <<c>>])
              /\ raced' = IF field[c.of] # d.copy[c.of] \/ PendingElsewhere(q, c.of) THEN raced \cup {c.of} ELSE raced
      /\ UNCHANGED <<labels, spent, told, misses, logged, untold>>
  BY <1>c DEF ApplyField
<1>2. TablesOfIssues /\ DeedsHang /\ SpentIsWhatWasLogged
  BY DEF IssueInv
<1>3. /\ d \in Deeds /\ d.pc = "run" /\ d.owed = <<>> /\ d.plan # <<>>
      /\ d.copy \in FieldRows /\ c \in Commands /\ c.op = "set" /\ Tail(d.plan) \in Seq(Commands)
  BY <1>c, <1>1, TurnTaken
<1>4. c \in Events /\ c.of \in Fields /\ c.to \in Values[c.of]
  BY <1>3, CommandKinds DEF Events
<1>5. CASE d.copy[c.of] = c.to
  <2> DEFINE n == [d EXCEPT !.plan = Tail(@)]
  <2>1. deed' = [deed EXCEPT ![q] = n] /\ UNCHANGED <<field, raced>>
    BY <1>1, <1>5 DEF Moves
  <2>2. n \in Deeds /\ n.pc = "run" /\ n.owed = <<>> /\ n.copy = d.copy
    BY <1>3 DEF Deeds
  <2>3. SpentIsWhatWasLogged' /\ spent' \in 0..MaxSpent /\ logged' \in 0..MaxSpent
    BY <1>1, <1>2, <2>1 DEF SpentIsWhatWasLogged, TablesOfIssues
  <2> HIDE DEF n
  <2>4. QED
    BY <1>1, <1>3, <2>1, <2>2, <2>3, QuietStep
<1>6. CASE d.copy[c.of] # c.to
  <2> DEFINE copied == [d.copy EXCEPT ![c.of] = c.to]
             n == [d EXCEPT !.plan = Tail(@), !.copy = copied, !.owed = <<c>>]
  <2>1. deed' = [deed EXCEPT ![q] = n]
    <3>1. [[d EXCEPT !.copy[c.of] = c.to, !.owed = <<c>>] EXCEPT !.plan = Tail(@)] = n
      BY <1>3 DEF Deeds
    <3>2. Moves(q, [d EXCEPT !.copy[c.of] = c.to, !.owed = <<c>>])
      BY <1>1, <1>6
    <3>3. QED
      BY <3>1, <3>2 DEF Moves
  <2>2. copied \in FieldRows
    BY <1>3, <1>4, RowChange
  <2>3. <<c>> \in Seq(Events)
    BY <1>4
  <2>4. n \in Deeds /\ n.pc = "run" /\ n.owed = <<c>> /\ n.copy = copied
    <3> HIDE DEF copied
    <3>1. QED
      BY <1>3, <2>2, <2>3 DEF Deeds
  <2>5. /\ field' = [field EXCEPT ![c.of] = c.to]
        /\ raced' = raced \cup {c.of} \/ (UNCHANGED raced /\ ~PendingElsewhere(q, c.of))
    BY <1>1, <1>6
  <2>6. field' \in FieldRows
    BY <1>2, <1>4, <2>5, RowChange DEF TablesOfIssues
  <2>7. \A x \in Fields : x \notin Labels /\ field'[x] = IF x = c.of THEN c.to ELSE field[x]
    BY <1>2, <1>4, <2>5, FieldValues DEF TablesOfIssues, FieldRows
  <2>8. Current(c.of)' = c.to /\ \A x \in Topics \ {c.of} : Current(x)' = Current(x)
    BY <1>1, <1>4, <2>7 DEF Current, Topics
  <2>9. labels' \subseteq Labels
    BY <1>1, <1>2 DEF TablesOfIssues
  <2>e. UNCHANGED <<spent, told, misses, logged, untold>>
    BY <1>1
  <2>h. /\ n.plan # <<>> => n.copy \in FieldRows
        /\ deed[q].owed = <<>> /\ n.owed = <<c>> /\ n.pc = "run" /\ n \in Deeds /\ c \in Events
    BY <1>3, <1>4, <2>2, <2>4
  <2> HIDE DEF n, copied, d
  <2>10. QED
    BY <2>e, <2>h, <1>3, <1>4, <2>1, <2>2, <2>4, <2>5, <2>6, <2>8, <2>9, ChangeStep
<1>7. QED
  BY <1>5, <1>6

LEMMA LoadAppliedLabelsStep ==
  ASSUME IssueInv, NEW q \in Requests, LoadAppliedLabels(q)
  PROVE  IssueInv'
<1> DEFINE n == [deed[q] EXCEPT !.seen = labels]
<1>1. /\ Turn(q, "label") /\ UNCHANGED <<field, labels, spent, told, misses, logged, raced, untold>>
      /\ deed' = [deed EXCEPT ![q].seen = labels]
  BY DEF LoadAppliedLabels
<1>2. TablesOfIssues /\ DeedsHang /\ SpentIsWhatWasLogged
  BY DEF IssueInv
<1>3. deed[q] \in Deeds /\ deed[q].pc = "run" /\ deed[q].owed = <<>> /\ deed[q].copy \in FieldRows
  BY <1>1, TurnTaken
<1>4. deed' = [deed EXCEPT ![q] = n]
  BY <1>1, <1>2 DEF DeedsHang
<1>5. n \in Deeds /\ n.pc = "run" /\ n.owed = deed[q].owed /\ n.copy = deed[q].copy
  BY <1>2, <1>3 DEF Deeds, TablesOfIssues
<1>6. SpentIsWhatWasLogged' /\ spent' \in 0..MaxSpent /\ logged' \in 0..MaxSpent
  BY <1>1, <1>2 DEF SpentIsWhatWasLogged, TablesOfIssues
<1> HIDE DEF n
<1>7. QED
  BY <1>1, <1>3, <1>4, <1>5, <1>6, QuietStep

\* A label goes on or off, and nothing else changes.
LEMMA LabelTurns ==
  ASSUME IssueInv, NEW c \in Events, c.of \in Labels,
         labels' = IF c.to = "on" THEN labels \cup {c.of} ELSE labels \ {c.of}, UNCHANGED field
  PROVE  /\ labels' \subseteq Labels /\ field' \in FieldRows
         /\ Current(c.of)' = c.to /\ \A x \in Topics \ {c.of} : Current(x)' = Current(x)
<1>1. labels \subseteq Labels /\ field \in FieldRows
  BY DEF IssueInv, TablesOfIssues
<1>2. c.to \in {"on", "off"}
  BY EventTopics
<1>3. Current(c.of)' = c.to
  BY <1>1, <1>2 DEF Current
<1>4. \A x \in Topics \ {c.of} : Current(x)' = Current(x)
  BY <1>1 DEF Current
<1>5. QED
  BY <1>1, <1>3, <1>4

LEMMA ApplyLabelStep ==
  ASSUME IssueInv, NEW q \in Requests, ApplyLabel(q)
  PROVE  IssueInv'
<1> DEFINE d == deed[q]
<1>c. PICK c : c = Next1(q)
  OBVIOUS
<1>1. /\ Turn(q, "label") /\ UNCHANGED <<field, spent, told, misses, logged, untold>>
      /\ \/ Moves(q, d) /\ UNCHANGED <<labels, raced>>
         \/ /\ labels' = IF c.to = "on" THEN labels \cup {c.of} ELSE labels \ {c.of}
            /\ Moves(q, [d EXCEPT !.seen = labels', !.owed = <<c>>])
            /\ raced' = IF PendingElsewhere(q, c.of) THEN raced \cup {c.of} ELSE raced
  BY <1>c DEF ApplyLabel
<1>2. TablesOfIssues /\ DeedsHang /\ SpentIsWhatWasLogged
  BY DEF IssueInv
<1>3. /\ d \in Deeds /\ d.pc = "run" /\ d.owed = <<>> /\ d.plan # <<>>
      /\ d.copy \in FieldRows /\ c \in Commands /\ c.op = "label" /\ Tail(d.plan) \in Seq(Commands)
  BY <1>c, <1>1, TurnTaken
<1>4. c \in Events /\ c.of \in Labels
  BY <1>3, CommandKinds DEF Events
<1>5. ASSUME Moves(q, d), UNCHANGED <<labels, raced>> PROVE IssueInv'
  <2> DEFINE n == [d EXCEPT !.plan = Tail(@)]
  <2>1. deed' = [deed EXCEPT ![q] = n]
    BY <1>5 DEF Moves
  <2>2. n \in Deeds /\ n.pc = "run" /\ n.owed = <<>> /\ n.copy = d.copy
    BY <1>3 DEF Deeds
  <2>3. SpentIsWhatWasLogged' /\ spent' \in 0..MaxSpent /\ logged' \in 0..MaxSpent
    BY <1>1, <1>2, <1>5 DEF SpentIsWhatWasLogged, TablesOfIssues
  <2> HIDE DEF n
  <2>4. QED
    BY <1>1, <1>3, <1>5, <2>1, <2>2, <2>3, QuietStep
<1>6. ASSUME labels' = IF c.to = "on" THEN labels \cup {c.of} ELSE labels \ {c.of},
             Moves(q, [d EXCEPT !.seen = labels', !.owed = <<c>>]),
             raced' = IF PendingElsewhere(q, c.of) THEN raced \cup {c.of} ELSE raced
      PROVE  IssueInv'
  <2>1. /\ labels' \subseteq Labels /\ field' \in FieldRows
        /\ Current(c.of)' = c.to /\ \A x \in Topics \ {c.of} : Current(x)' = Current(x)
    BY <1>1, <1>4, <1>6, LabelTurns
  <2>2. PICK rows \in SUBSET Labels : rows = labels'
    BY <2>1
  <2> DEFINE n == [d EXCEPT !.plan = Tail(@), !.seen = rows, !.owed = <<c>>]
  <2>3. deed' = [deed EXCEPT ![q] = n]
    <3>1. [[d EXCEPT !.seen = rows, !.owed = <<c>>] EXCEPT !.plan = Tail(@)] = n
      BY <1>3 DEF Deeds
    <3>2. Moves(q, [d EXCEPT !.seen = rows, !.owed = <<c>>])
      BY <1>6, <2>2
    <3>3. QED
      BY <3>1, <3>2 DEF Moves
  <2>4. <<c>> \in Seq(Events)
    BY <1>4
  <2>5. n \in Deeds /\ n.pc = "run" /\ n.owed = <<c>> /\ n.copy = d.copy
    BY <1>3, <2>4 DEF Deeds
  <2>6. /\ raced' = raced \cup {c.of} \/ (UNCHANGED raced /\ ~PendingElsewhere(q, c.of))
        /\ UNCHANGED <<spent, told, misses, logged, untold>>
    BY <1>1, <1>6
  <2>7. n.plan # <<>> => n.copy \in FieldRows
    BY <1>3, <2>5
  <2> HIDE DEF n
  <2>8. QED
    BY <1>3, <1>4, <2>1, <2>3, <2>5, <2>6, <2>7, ChangeStep
<1>7. QED
  BY <1>1, <1>5, <1>6

LEMMA ApplySpendStep ==
  ASSUME IssueInv, NEW q \in Requests, ApplySpend(q)
  PROVE  IssueInv'
<1> DEFINE d == deed[q]
<1>c. PICK c : c = Next1(q)
  OBVIOUS
<1>t. PICK total, sum : total = Logged(d.time, c) /\ sum = Logged(logged, c)
  OBVIOUS
<1>1. /\ Turn(q, "spend") /\ UNCHANGED <<field, labels, told, misses, untold>>
      /\ total <= MaxSpent /\ sum <= MaxSpent /\ spent' = total /\ logged' = sum
      /\ Moves(q, [d EXCEPT !.time = total])
      /\ raced' = IF spent # d.time THEN raced \cup {"spent"} ELSE raced
  BY <1>c, <1>t DEF ApplySpend
<1>2. TablesOfIssues /\ DeedsHang /\ SpentIsWhatWasLogged
  BY DEF IssueInv
<1>3. /\ d \in Deeds /\ d.pc = "run" /\ d.owed = <<>> /\ d.plan # <<>>
      /\ d.copy \in FieldRows /\ c \in Commands /\ c.op = "spend" /\ Tail(d.plan) \in Seq(Commands)
  BY <1>c, <1>1, TurnTaken
<1>4. c.minutes \in 0..MaxSpent
  <2>1. \/ c \in UNION {{Set(f, to) : to \in Values[f]} : f \in Fields}
        \/ c \in {Label(l) : l \in Labels} \/ c \in {Unlabel(l) : l \in Labels}
        \/ c \in {Spend(sign, n) : sign \in {"+", "-"}, n \in 0..MaxSpent}
    BY <1>3 DEF Commands
  <2>2. ASSUME NEW f \in Fields, NEW to \in Values[f], c = Set(f, to) PROVE c.op # "spend"
    BY <2>2 DEF Set
  <2>3. CASE c \in {Label(l) : l \in Labels} \/ c \in {Unlabel(l) : l \in Labels}
    BY <1>3, <2>3 DEF Label, Unlabel
  <2>4. CASE c \in {Spend(sign, n) : sign \in {"+", "-"}, n \in 0..MaxSpent}
    BY <2>4 DEF Spend
  <2>5. QED
    BY <1>3, <2>1, <2>2, <2>3, <2>4
<1>5. d.time \in 0..MaxSpent /\ logged \in 0..MaxSpent
  BY <1>2, <1>3 DEF Deeds, TablesOfIssues
<1>6. total \in 0..MaxSpent /\ sum \in 0..MaxSpent
  BY <1>t, <1>1, <1>4, <1>5, SpentBound DEF Logged
<1> DEFINE n == [d EXCEPT !.plan = Tail(@), !.time = total]
<1>7. deed' = [deed EXCEPT ![q] = n]
  <2>1. [[d EXCEPT !.time = total] EXCEPT !.plan = Tail(@)] = n
    BY <1>3 DEF Deeds
  <2>2. QED
    BY <1>1, <2>1 DEF Moves
<1>8. n \in Deeds /\ n.pc = "run" /\ n.owed = d.owed /\ n.copy = d.copy
  BY <1>3, <1>6 DEF Deeds
<1>9. SpentIsWhatWasLogged'
  BY <1>1, <1>2, <1>t DEF SpentIsWhatWasLogged
<1>10. raced' \in {raced, raced \cup {"spent"}} /\ spent' \in 0..MaxSpent /\ logged' \in 0..MaxSpent
  BY <1>1, <1>6
<1> HIDE DEF n
<1>11. QED
  BY <1>1, <1>3, <1>7, <1>8, <1>9, <1>10, QuietStep

LEMMA RelabelsStep ==
  ASSUME IssueInv, NEW q \in Requests, NEW c \in Events, c.of \in Labels, Relabels(q, c)
  PROVE  IssueInv'
<1> DEFINE n == [Unread EXCEPT !.pc = "run", !.owed = <<c>>]
<1>1. /\ deed[q].pc = "new" /\ labels' = (IF c.to = "on" THEN labels \cup {c.of} ELSE labels \ {c.of})
      /\ deed' = [deed EXCEPT ![q] = n]
      /\ raced' = IF PendingElsewhere(q, c.of) THEN raced \cup {c.of} ELSE raced
      /\ UNCHANGED <<field, spent, told, misses, logged, untold>>
  BY DEF Relabels
<1>2. DeedsHang
  BY DEF IssueInv
<1>3. deed[q].owed = <<>>
  BY <1>1, <1>2, UnreadDeeds DEF DeedsHang
<1>4. /\ labels' \subseteq Labels /\ field' \in FieldRows
      /\ Current(c.of)' = c.to /\ \A x \in Topics \ {c.of} : Current(x)' = Current(x)
  BY <1>1, LabelTurns
<1>5. <<c>> \in Seq(Events)
  OBVIOUS
<1>6. n \in Deeds /\ n.pc = "run" /\ n.owed = <<c>> /\ n.plan = <<>>
  BY <1>5, UnreadDeeds DEF Deeds
<1>7. /\ raced' = raced \cup {c.of} \/ (UNCHANGED raced /\ ~PendingElsewhere(q, c.of))
      /\ UNCHANGED <<spent, told, misses, logged, untold>>
  BY <1>1
<1> HIDE DEF n
<1>8. QED
  BY <1>1, <1>3, <1>4, <1>6, <1>7, ChangeStep

LEMMA PutSpentStep ==
  ASSUME IssueInv, NEW q \in Requests, PutSpent(q)
  PROVE  IssueInv'
<1> DEFINE n == [Unread EXCEPT !.pc = "done"]
<1>1. /\ deed[q].pc = "new" /\ deed' = [deed EXCEPT ![q].pc = "done"]
      /\ spent' \in 0..1 /\ logged' = spent' /\ UNCHANGED <<field, labels, told, misses, raced, untold>>
  BY DEF PutSpent
<1>2. deed[q] = Unread /\ DeedsHang
  BY <1>1 DEF IssueInv, DeedsHang
<1>3. deed' = [deed EXCEPT ![q] = n]
  BY <1>1, <1>2 DEF DeedsHang
<1>4. n \in Deeds /\ n.pc = "done" /\ n.plan = <<>> /\ n.owed = <<>> /\ deed[q].owed = <<>>
  BY <1>2, UnreadDeeds
<1>5. SpentIsWhatWasLogged' /\ spent' \in 0..MaxSpent /\ logged' \in 0..MaxSpent
  BY <1>1, SpentBound DEF SpentIsWhatWasLogged
<1> HIDE DEF n
<1>6. QED
  BY <1>1, <1>3, <1>4, <1>5, QuietStep

LEMMA RespondToCommentStep ==
  ASSUME IssueInv, NEW q \in Requests, RespondToComment(q)
  PROVE  IssueInv'
<1> DEFINE n == [Unread EXCEPT !.pc = "done"]
<1>1. /\ deed[q].owed = <<>> /\ deed' = [deed EXCEPT ![q] = n]
      /\ UNCHANGED <<field, labels, spent, told, misses, logged, raced, untold>>
  BY DEF RespondToComment
<1>2. TablesOfIssues /\ SpentIsWhatWasLogged
  BY DEF IssueInv
<1>3. n \in Deeds /\ n.pc = "done" /\ n.plan = <<>> /\ n.owed = <<>>
  BY UnreadDeeds
<1>4. SpentIsWhatWasLogged' /\ spent' \in 0..MaxSpent /\ logged' \in 0..MaxSpent
  BY <1>1, <1>2 DEF SpentIsWhatWasLogged, TablesOfIssues
<1> HIDE DEF n
<1>5. QED
  BY <1>1, <1>3, <1>4, QuietStep

LEMMA WritePatchStep ==
  ASSUME IssueInv, NEW q \in Requests, WritePatch(q)
  PROVE  IssueInv'
<1> DEFINE d == deed[q]
<1>p. PICK plan, old, events : plan = d.plan /\ old = d.copy /\ events = Changed(plan, old)
  OBVIOUS
<1> DEFINE n == [d EXCEPT !.pc = "run", !.plan = <<>>, !.owed = events]
<1>1. /\ d.pc = "patch" /\ UNCHANGED <<labels, spent, told, misses, logged, untold>>
      /\ field' = [f \in Fields |-> IF f \in Given(plan) THEN GivenTo(plan, f) ELSE field[f]]
      /\ deed' = [deed EXCEPT ![q] = n]
      /\ raced' = raced \cup {f \in Given(plan) : field[f] # old[f] \/ PendingElsewhere(q, f)}
  BY <1>p DEF WritePatch
<1>2. TablesOfIssues /\ DeedsHang /\ SpentIsWhatWasLogged /\ \A x \in Topics : OwedByOne(x) /\ ToldOrOwed(x)
  BY DEF IssueInv
<1>3. plan \in Patches /\ d.owed = <<>> /\ d \in Deeds
  BY <1>p, <1>1, <1>2 DEF DeedsHang
<1>4. Given(plan) \subseteq Fields /\ \A f \in Given(plan) : GivenTo(plan, f) \in Values[f]
  BY <1>3, PatchesGive
<1>5. old \in FieldRows
  <2>1. plan # <<>>
    <3>1. ASSUME plan = <<>> PROVE FALSE
      <4>1. Len(plan) = 0
        BY <3>1
      <4>2. \A c, e : Len(<<c>>) = 1 /\ Len(<<c, e>>) = 2
        OBVIOUS
      <4>3. QED
        BY <1>3, <4>1, <4>2 DEF Patches
    <3>2. QED
      BY <3>1
  <2>2. QED
    BY <1>p, <1>2, <2>1 DEF DeedsHang
<1>6. /\ events \in Seq(Events) /\ OnceEach(events)
      /\ \A f \in Fields : Saying(events, f) = IF f \in Given(plan) /\ old[f] # GivenTo(plan, f) THEN {GivenTo(plan, f)} ELSE {}
      /\ \A l \in Labels : Saying(events, l) = {}
  BY <1>p, <1>3, <1>5, ChangesToTell
<1>7. <<>> \in Seq(Commands)
  OBVIOUS
<1>8. n \in Deeds /\ n.pc = "run" /\ n.owed = events /\ n.plan = <<>>
  BY <1>3, <1>6, <1>7 DEF Deeds
<1> HIDE DEF n
<1>9. /\ DeedsHang' /\ \A x : Said(q, x)' = Saying(events, x)
      /\ \A p \in Requests \ {q} : \A x : Said(p, x)' = Said(p, x)
  BY <1>1, <1>2, <1>6, <1>8, DeedMoves
<1>10. \A x : Said(q, x) = {}
  BY <1>3, NothingToSay DEF Said
<1>11. field \in FieldRows /\ field' \in FieldRows
  <2>1. field \in FieldRows
    BY <1>2 DEF TablesOfIssues
  <2>2. \A f \in Fields : field'[f] \in Values[f]
    BY <1>1, <1>4, <2>1 DEF FieldRows
  <2>3. \A f \in Fields : Values[f] \subseteq Values.state \cup Values.assignee
    BY FieldValues
  <2>4. field' \in [Fields -> Values.state \cup Values.assignee]
    BY <1>1, <2>2, <2>3
  <2>5. QED
    BY <2>1, <2>2, <2>4 DEF FieldRows
<1>12. TablesOfIssues'
  BY <1>1, <1>2, <1>4, <1>11 DEF TablesOfIssues, Topics
<1>13. SpentIsWhatWasLogged'
  <2>1. "spent" \notin Fields
    BY DEF Fields
  <2>2. QED
    BY <1>1, <1>2, <1>4, <2>1 DEF SpentIsWhatWasLogged
<1>14. ASSUME NEW x \in Topics PROVE OwedByOne(x)' /\ ToldOrOwed(x)'
  <2>1. raced \subseteq raced' /\ untold \subseteq untold' /\ told'[x] = told[x]
    BY <1>1
  <2>2. CASE x \in Labels \/ x \notin Given(plan)
    <3>1. Saying(events, x) = {}
      BY <1>6, <2>2 DEF Topics
    <3>2. Current(x)' = Current(x)
      BY <1>1, <2>2 DEF Current, Topics
    <3>3. \A p \in Requests : Said(p, x)' = Said(p, x)
      BY <1>9, <1>10, <3>1
    <3>4. QED
      BY <1>2, <2>1, <3>2, <3>3, TopicKept
  <2>3. CASE x \in Given(plan) /\ x \notin Labels
    <3>1. x \in Fields /\ Current(x)' = GivenTo(plan, x) /\ Current(x) = field[x]
      BY <1>1, <1>4, <2>3 DEF Current
    <3>2. x \in raced' \/ (/\ field[x] = old[x] /\ \A p \in Requests \ {q} : Said(p, x) = {})
      BY <1>1, <2>3, ElsewhereIsSaid
    <3>3. CASE old[x] # GivenTo(plan, x)
      <4>1. Said(q, x)' = {GivenTo(plan, x)}
        BY <1>6, <1>9, <2>3, <3>1, <3>3
      <4>2. QED
        BY <1>2, <1>9, <3>1, <3>2, <4>1, TopicChanged
    <3>4. CASE old[x] = GivenTo(plan, x)
      <4>1. \A p \in Requests : Said(p, x)' = Said(p, x)
        <5>1. Saying(events, x) = {}
          BY <1>6, <3>1, <3>4
        <5>2. QED
          BY <1>9, <1>10, <5>1
      <4>2. CASE x \in raced'
        BY <1>2, <2>1, <4>1, <4>2 DEF OwedByOne, ToldOrOwed
      <4>3. CASE x \notin raced'
        <5>1. Current(x)' = Current(x)
          BY <3>1, <3>2, <3>4, <4>3
        <5>2. QED
          BY <1>2, <2>1, <4>1, <5>1, TopicKept
      <4>4. QED
        BY <4>2, <4>3
    <3>5. QED
      BY <3>3, <3>4
  <2>4. QED
    BY <2>2, <2>3
<1>15. QED
  BY <1>9, <1>12, <1>13, <1>14 DEF IssueInv

LEMMA TellStep ==
  ASSUME IssueInv, NEW q \in Requests, Tell(q)
  PROVE  IssueInv'
<1> DEFINE d == deed[q]
<1>p. PICK e, rest : e = Head(d.owed) /\ rest = Tail(d.owed)
  OBVIOUS
<1> DEFINE n == [d EXCEPT !.owed = rest]
<1>1. /\ d.owed # <<>> /\ deed' = [deed EXCEPT ![q].owed = Tail(@)]
      /\ \/ told' = [told EXCEPT ![e.of] = e.to] /\ UNCHANGED <<misses, untold>>
         \/ /\ misses < MaxFaults /\ misses' = misses + 1
            /\ untold' = untold \cup {e.of} /\ UNCHANGED told
      /\ UNCHANGED <<field, labels, spent, logged, raced>>
  BY <1>p DEF Tell
<1>2. TablesOfIssues /\ DeedsHang /\ SpentIsWhatWasLogged /\ \A x \in Topics : OwedByOne(x) /\ ToldOrOwed(x)
  BY DEF IssueInv
<1>3. d \in Deeds /\ d.owed \in Seq(Events) /\ OnceEach(d.owed) /\ d.pc = "run" /\ (d.plan # <<>> => d.copy \in FieldRows)
  BY <1>1, <1>2 DEF DeedsHang, Deeds
<1>4. /\ e \in Events /\ rest \in Seq(Events) /\ OnceEach(rest)
      /\ Said(q, e.of) = {e.to} /\ Saying(rest, e.of) = {} /\ \A x : x # e.of => Saying(rest, x) = Said(q, x)
  BY <1>p, <1>1, <1>3, AllButTheFirst DEF Said
<1>5. deed' = [deed EXCEPT ![q] = n]
  BY <1>p, <1>1, <1>2 DEF DeedsHang
<1>6. n \in Deeds /\ n.pc = "run" /\ n.owed = rest /\ n.plan = d.plan /\ n.copy = d.copy
  BY <1>3, <1>4 DEF Deeds
<1> HIDE DEF n
<1>7. /\ DeedsHang' /\ \A x : Said(q, x)' = Saying(rest, x)
      /\ \A p \in Requests \ {q} : \A x : Said(p, x)' = Said(p, x)
  BY <1>2, <1>3, <1>4, <1>5, <1>6, DeedMoves
<1>8. /\ e.of \in Topics
      /\ e.of \in Fields => e.to \in Values[e.of]
      /\ e.of \in Labels => e.to \in {"on", "off"}
  BY <1>4, EventTopics
<1>9. TablesOfIssues'
  <2>1. misses' \in 0..MaxFaults /\ untold' \subseteq Topics
    BY <1>1, <1>2, <1>8, FaultBound DEF TablesOfIssues
  <2>2. /\ told' \in [Topics -> (UNION {Values[f] : f \in Fields}) \cup {"on", "off"}]
        /\ \A f \in Fields : told'[f] \in Values[f]
        /\ \A l \in Labels : told'[l] \in {"on", "off"}
    <3>1. CASE UNCHANGED told
      BY <1>2, <3>1 DEF TablesOfIssues
    <3>2. CASE told' = [told EXCEPT ![e.of] = e.to]
      <4>1. e.to \in (UNION {Values[f] : f \in Fields}) \cup {"on", "off"}
        BY <1>8 DEF Topics
      <4>2. \A x \in Topics : told'[x] = IF x = e.of THEN e.to ELSE told[x]
        BY <1>2, <3>2 DEF TablesOfIssues
      <4>3. QED
        BY <1>2, <1>8, <3>2, <4>1, <4>2 DEF TablesOfIssues, Topics
    <3>3. QED
      BY <1>1, <3>1, <3>2
  <2>3. QED
    BY <1>1, <1>2, <2>1, <2>2 DEF TablesOfIssues
<1>10. SpentIsWhatWasLogged'
  BY <1>1, <1>2 DEF SpentIsWhatWasLogged
<1>11. ASSUME NEW x \in Topics PROVE OwedByOne(x)' /\ ToldOrOwed(x)'
  <2>1. untold \subseteq untold' /\ Current(x)' = Current(x) /\ UNCHANGED raced
    BY <1>1 DEF Current
  <2>2. CASE x = e.of
    <3>1. Said(q, x) = {e.to} /\ Said(q, x)' = {} /\ \A p \in Requests \ {q} : Said(p, x)' = Said(p, x)
      BY <1>4, <1>7, <2>2
    <3>2. told'[x] = e.to \/ x \in untold'
      BY <1>1, <1>2, <2>2 DEF TablesOfIssues
    <3>3. QED
      BY <1>2, <2>1, <3>1, <3>2, TopicTold
  <2>3. CASE x # e.of
    <3>1. told'[x] = told[x]
      BY <1>1, <1>2, <2>3 DEF TablesOfIssues
    <3>2. \A p \in Requests : Said(p, x)' = Said(p, x)
      BY <1>4, <1>7, <2>3
    <3>3. QED
      BY <1>2, <2>1, <3>1, <3>2, TopicKept
  <2>4. QED
    BY <2>2, <2>3
<1>12. QED
  BY <1>7, <1>9, <1>10, <1>11 DEF IssueInv

LEMMA RestartConversationStep ==
  ASSUME IssueInv, RestartConversation
  PROVE  IssueInv'
<1> DEFINE n == [Unread EXCEPT !.pc = "done"]
<1>1. /\ misses < MaxFaults /\ misses' = misses + 1 /\ UNCHANGED <<field, labels, spent, told, logged, raced>>
      /\ untold' = untold \cup UNION {Pending(q) : q \in Requests}
      /\ deed' = [q \in Requests |-> IF deed[q].pc = "new" THEN Unread ELSE n]
  BY DEF RestartConversation
<1>2. TablesOfIssues /\ DeedsHang /\ SpentIsWhatWasLogged /\ \A x \in Topics : OwedByOne(x) /\ ToldOrOwed(x)
  BY DEF IssueInv
<1>3. /\ n \in Deeds /\ n.pc = "done" /\ n.plan = <<>> /\ n.owed = <<>>
      /\ Unread \in Deeds /\ Unread.pc = "new" /\ Unread.plan = <<>> /\ Unread.owed = <<>>
  BY UnreadDeeds
<1> HIDE DEF n
<1>4. \A q \in Requests : deed'[q] \in {n, Unread} /\ deed'[q].owed = <<>>
  BY <1>1, <1>3
<1>5. DeedsHang'
  <2>1. deed' \in [Requests -> Deeds]
    BY <1>1, <1>3
  <2>2. QED
    BY <1>3, <1>4, <2>1, NothingToSay DEF DeedsHang
<1>6. \A q \in Requests : \A x : Said(q, x)' = {}
  BY <1>4, NothingToSay DEF Said
<1>7. \A q \in Requests : Pending(q) \subseteq Topics
  <2>1. \A q \in Requests : deed[q].owed \in Seq(Events)
    BY <1>2 DEF DeedsHang, Deeds
  <2>2. \A q \in Requests : \A i \in 1..Len(deed[q].owed) : deed[q].owed[i] \in Events
    BY <2>1
  <2>3. QED
    BY <2>2, EventTopics DEF Pending
<1>8. TablesOfIssues'
  <2>1. misses' \in 0..MaxFaults
    BY <1>1, <1>2, FaultBound DEF TablesOfIssues
  <2>2. untold' \subseteq Topics
    BY <1>1, <1>2, <1>7 DEF TablesOfIssues
  <2>3. QED
    BY <1>1, <1>2, <2>1, <2>2 DEF TablesOfIssues
<1>9. SpentIsWhatWasLogged'
  BY <1>1, <1>2 DEF SpentIsWhatWasLogged
<1>10. ASSUME NEW x \in Topics PROVE OwedByOne(x)' /\ ToldOrOwed(x)'
  <2>1. OwedByOne(x)'
    BY <1>6 DEF OwedByOne
  <2>2. ASSUME x \notin untold' PROVE x \notin untold /\ \A q \in Requests : Said(q, x) = {}
    BY <1>1, <2>2, OwedIsSaid
  <2>3. Current(x)' = Current(x)
    BY <1>1 DEF Current
  <2>4. ToldOrOwed(x)'
    BY <1>1, <1>2, <1>6, <2>2, <2>3 DEF ToldOrOwed
  <2>5. QED
    BY <2>1, <2>4
<1>11. QED
  BY <1>5, <1>8, <1>9, <1>10 DEF IssueInv

LEMMA IssueInvInit == IssueInit => IssueInv
<1> SUFFICES ASSUME IssueInit PROVE IssueInv
  OBVIOUS
<1>1. /\ field = [state |-> "open", assignee |-> "nobody"] /\ labels = {} /\ spent = 0
      /\ told = [x \in Topics |-> IF x \in Labels THEN "off" ELSE field[x]]
      /\ deed = [q \in Requests |-> Unread]
      /\ misses = 0 /\ logged = 0 /\ raced = {} /\ untold = {}
  BY DEF IssueInit, Topics
<1>2. field \in FieldRows
  <2>1. field["state"] = "open" /\ field["assignee"] = "nobody"
    BY <1>1
  <2>2. field \in [Fields -> {"open", "nobody"}]
    BY <1>1 DEF Fields
  <2>3. QED
    BY <2>1, <2>2, FieldValues DEF FieldRows, Fields
<1>3. TablesOfIssues
  <2>1. \A f \in Fields : field[f] \in Values[f] /\ f \in Topics /\ f \notin Labels
    BY <1>2, FieldValues DEF FieldRows, Topics
  <2>2. \A x \in Topics : told[x] \in (UNION {Values[f] : f \in Fields}) \cup {"on", "off"}
    BY <1>1, <2>1 DEF Topics
  <2>3. told \in [Topics -> (UNION {Values[f] : f \in Fields}) \cup {"on", "off"}]
    BY <1>1, <2>2
  <2>4. \A f \in Fields : told[f] \in Values[f]
    BY <1>1, <2>1
  <2>5. \A l \in Labels : told[l] \in {"on", "off"}
    BY <1>1 DEF Topics
  <2>6. QED
    BY <1>1, <1>2, <2>3, <2>4, <2>5, FaultBound, SpentBound DEF TablesOfIssues
<1>4. DeedsHang
  BY <1>1, UnreadDeeds, NothingToSay DEF DeedsHang
<1>5. \A q \in Requests : \A x : Said(q, x) = {}
  BY <1>1, UnreadDeeds, NothingToSay DEF Said
<1>6. \A x \in Topics : told[x] = Current(x)
  BY <1>1 DEF Current
<1>7. QED
  BY <1>1, <1>3, <1>4, <1>5, <1>6 DEF IssueInv, SpentIsWhatWasLogged, OwedByOne, ToldOrOwed

LEMMA IssueInvStep == IssueInv /\ [IssueNext]_issueVars => IssueInv'
<1> SUFFICES ASSUME IssueInv, [IssueNext]_issueVars PROVE IssueInv'
  OBVIOUS
<1>1. ASSUME NEW q \in Requests, PostComment(q) PROVE IssueInv'
  BY <1>1, ReadsStep, ListsHoldCommands DEF PostComment
<1>2. ASSUME NEW q \in Requests, PatchIssue(q) PROVE IssueInv'
  BY <1>2, ReadsStep DEF PatchIssue
<1>3. ASSUME NEW q \in Requests, PostLabel(q) \/ DeleteLabel(q) PROVE IssueInv'
  BY <1>3, RelabelsStep, EventsOfChanges DEF PostLabel, DeleteLabel
<1>4. ASSUME NEW q \in Requests,
             \/ ApplyField(q) \/ LoadAppliedLabels(q) \/ ApplyLabel(q) \/ ApplySpend(q)
             \/ WritePatch(q) \/ PutSpent(q) \/ Tell(q) \/ RespondToComment(q)
      PROVE  IssueInv'
  BY <1>4, ApplyFieldStep, LoadAppliedLabelsStep, ApplyLabelStep, ApplySpendStep, WritePatchStep, PutSpentStep,
     TellStep, RespondToCommentStep
<1>5. CASE UNCHANGED issueVars
  BY <1>5 DEF issueVars, IssueInv, TablesOfIssues, DeedsHang, SpentIsWhatWasLogged, OwedByOne, ToldOrOwed, Said, Current
<1>6. QED
  BY <1>1, <1>2, <1>3, <1>4, <1>5, RestartConversationStep DEF IssueNext

LEMMA IssueInvHolds == IssueSpec => []IssueInv
BY IssueInvInit, IssueInvStep, PTL DEF IssueSpec

(***************************************************************************)
(* However many comments, patches and label requests change the issue at   *)
(* once, whatever is lost and whenever the process ends: the timeline,     *)
(* read to the end, says what the row says, and the time spent is what was *)
(* logged, but for what two requests changed at once and what was lost     *)
(* (routes/issues.ts, quick-actions.ts, timeline-service.ts).              *)
(***************************************************************************)
THEOREM TimelineAndTime == IssueSpec => []IssueIsItsHistory
<1>1. IssueInv => IssueIsItsHistory
  <2> SUFFICES ASSUME IssueInv PROVE TimelineTellsState
    BY DEF IssueInv, IssueIsItsHistory
  <2> SUFFICES ASSUME NEW x \in Topics, x \notin raced \cup untold, \A q \in Requests : x \notin Pending(q)
               PROVE  IF x \in Labels THEN (told[x] = "on") = (x \in labels) ELSE told[x] = field[x]
    BY DEF TimelineTellsState, Topics
  <2>1. told[x] = Current(x)
    BY OwedIsSaid DEF IssueInv, ToldOrOwed
  <2>2. QED
    BY <2>1 DEF Current
<1>2. QED
  BY <1>1, IssueInvHolds, PTL

LEMMA IssueTypes == IssueInv => IssueTypeOK
<1> SUFFICES ASSUME IssueInv PROVE IssueTypeOK
  OBVIOUS
<1>1. TablesOfIssues /\ DeedsHang
  BY DEF IssueInv
<1>2. \A f \in Fields : field[f] \in Values[f] /\ told[f] \in Values[f]
  BY <1>1 DEF TablesOfIssues, FieldRows
<1>3. ASSUME NEW q \in Requests
      PROVE  /\ deed[q].pc \in {"new", "patch", "run", "done"}
             /\ \A i \in 1..Len(deed[q].plan) : deed[q].plan[i] \in Commands
  <2>1. deed[q] \in Deeds
    BY <1>1 DEF DeedsHang
  <2>2. deed[q].plan \in Seq(Commands) /\ deed[q].pc \in {"new", "patch", "run", "done"}
    BY <2>1 DEF Deeds
  <2>3. QED
    BY <2>2
<1>4. QED
  BY <1>1, <1>2, <1>3 DEF IssueTypeOK, TablesOfIssues, Topics

-----------------------------------------------------------------------------
(***************************************************************************)
(* All of them together (MCServices)                                       *)
(***************************************************************************)
LEMMA PartsAreTheirOwn ==
  MCSpec => /\ ReviewSpec /\ HooksSpec /\ SinkSpec /\ DesignsSpec
            /\ IssueSpec /\ BoardSpec /\ IssuePageSpec /\ PullPageSpec
  <1>1. MCInit => /\ ReviewInit /\ HooksInit /\ SinkInit /\ DesignsInit
                  /\ IssueInit /\ BoardInit /\ IssuePageInit /\ PullPageInit
    BY DEF MCInit
  <1> DEFINE vars == <<part, reviewVars, hookVars, sinkVars, boardVars, designVars, issueVars,
                       issuePageVars, pullPageVars>>
  <1>2. [MCNext]_vars => [ReviewNext]_reviewVars
    BY DEF MCNext
  <1>3. [MCNext]_vars => [HooksNext]_hookVars
    BY DEF MCNext
  <1>4. [MCNext]_vars => [SinkNext]_sinkVars
    BY DEF MCNext
  <1>5. [MCNext]_vars => [DesignsNext]_designVars
    BY DEF MCNext
  <1>6. [MCNext]_vars => [IssueNext]_issueVars
    BY DEF MCNext
  <1>7. [MCNext]_vars => [BoardNext]_boardVars
    BY DEF MCNext
  <1>8. [MCNext]_vars => [IssuePageNext]_issuePageVars
    BY DEF MCNext
  <1>9. [MCNext]_vars => [PullPageNext]_pullPageVars
    BY DEF MCNext
  <1> QED
    BY <1>1, <1>2, <1>3, <1>4, <1>5, <1>6, <1>7, <1>8, <1>9, PTL
    DEF MCSpec, ReviewSpec, HooksSpec, SinkSpec, DesignsSpec, IssueSpec, BoardSpec, IssuePageSpec, PullPageSpec

(***************************************************************************)
(* Every service's state has its types, bounds and foreign keys, whatever  *)
(* the others do: what the columns and unique indexes of the schema        *)
(* promise and the handlers keep.                                          *)
(***************************************************************************)
THEOREM ServicesTypes == MCSpec => []ServicesTypeOK
  <1>1. SinkInv => SinkTypeOK
    BY DEF SinkInv
  <1>2. IssuePageInv => IssuePageTypeOK
    BY DEF IssuePageInv
  <1>3. PullPageInv => PullPageTypeOK
    BY DEF PullPageInv
  <1>4. /\ ReviewTypeOK /\ HooksTypeOK /\ SinkTypeOK
        /\ BoardTypeOK /\ DesignsTypeOK /\ IssueTypeOK
        /\ IssuePageTypeOK /\ PullPageTypeOK
        => ServicesTypeOK
    BY DEF ServicesTypeOK
  <1> QED
    BY <1>1, <1>2, <1>3, <1>4, PartsAreTheirOwn, ReviewTypes, HookTypes, SinkInvHolds, BoardInvHolds, BoardTypes,
       DesignInvHolds, DesignTypes, IssueInvHolds, IssueTypes, IssuePageInvHolds, PullPageInvHolds, PTL

(***************************************************************************)
(* Once nothing is under way, the board, the issue and the pull request    *)
(* are shown as the database has them, for any number of requests, save    *)
(* in what the history of each excuses.                                    *)
(***************************************************************************)
THEOREM PagesAreRight == MCSpec => []PagesShowWhatIsSo
  <1>1. PageShowsBoard /\ IssuePageShows /\ PullPageShows => PagesShowWhatIsSo
    BY DEF PagesShowWhatIsSo
  <1> QED
    BY <1>1, PartsAreTheirOwn, BoardIsShown, IssueIsShown, PullIsShown, PTL

=============================================================================
