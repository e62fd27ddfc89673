---------------------------- MODULE SubreqProofs ----------------------------
(***************************************************************************)
(* What module Subreq promises, for any number of tasks and keys and any   *)
(* value of the limits: the reference count of a task is the number of its *)
(* holders, subreq_out and the leading flags agree, followers are idle,    *)
(* somebody steps every unfinished task, and memory is released only after *)
(* qr_task_finalize().                                                     *)
(*                                                                         *)
(* First come the inductive invariant IInv, the effects of the operators   *)
(* that actions share and a lemma for each callback of the event loop: the *)
(* callback preserves IInv.  Then the steps of a task, and the theorems.   *)
(* Everything about one task is in TaskInv(t), so that an action has to be *)
(* compared with it for the task it is about; for every other task SameInv *)
(* says that nothing TaskInv reads has changed.                            *)
(***************************************************************************)
EXTENDS Subreq, TLAPS


\* No task is on two waiting lists, or twice on one.
Unique(w) ==
  \A l, m \in Task : \A i \in DOMAIN w[l], j \in DOMAIN w[m] :
    w[l][i] = w[m][j] => l = m /\ i = j

\* array_pop() of a waiting list in subreq_finalize() takes exactly one task
\* off the waiting lists.
LEMMA LastOut ==
  ASSUME NEW w \in [Task -> Seq(Task)], Unique(w),
         NEW l \in Task, w[l] # <<>>
  PROVE  LET f == w[l][Len(w[l])]
             v == [w EXCEPT ![l] = SubSeq(@, 1, Len(@) - 1)]
         IN  /\ f \in Task /\ EnqIn(w, f)
             /\ v \in [Task -> Seq(Task)]
             /\ Unique(v)
             /\ \A x : EnqIn(v, x) <=> EnqIn(w, x) /\ x # f
             /\ \A m \in Task : v[m] # <<>> => w[m] # <<>>
<1> DEFINE n == Len(w[l])
           f == w[l][n]
           v == [w EXCEPT ![l] = SubSeq(@, 1, Len(@) - 1)]
<1>1. n \in Nat \ {0} /\ n \in DOMAIN w[l] /\ DOMAIN w[l] = 1 .. n
  OBVIOUS
<1>2. f \in Task /\ EnqIn(w, f)
  <2>1. \E i \in DOMAIN w[l] : w[l][i] = f
    BY Zenon, <1>1
  <2>2. f \in Task
    BY <1>1
  <2> QED
    BY Zenon, <2>1, <2>2 DEF EnqIn
<1>3. /\ v \in [Task -> Seq(Task)]
      /\ Len(v[l]) = n - 1 /\ DOMAIN v[l] = 1 .. n - 1
      /\ \A i \in 1 .. n - 1 : v[l][i] = w[l][i]
      /\ \A m \in Task : m # l => v[m] = w[m]
  BY <1>1
<1>4. \A m \in Task : \A i \in DOMAIN v[m] : i \in DOMAIN w[m] /\ v[m][i] = w[m][i]
  BY <1>1, <1>3
<1>5. Unique(v)
  BY <1>4 DEF Unique
<1>6. \A x : EnqIn(v, x) => EnqIn(w, x) /\ x # f
  <2> SUFFICES ASSUME NEW x, NEW m \in Task, NEW i \in DOMAIN v[m], v[m][i] = x
               PROVE  EnqIn(w, x) /\ x # f
    BY Zenon DEF EnqIn
  <2>1. i \in DOMAIN w[m] /\ w[m][i] = x
    BY Zenon, <1>4
  <2>2. m = l => i # n
    BY <1>1, <1>3
  <2> QED
    BY <1>1, <2>1, <2>2 DEF EnqIn, Unique
<1>7. \A x : EnqIn(w, x) /\ x # f => EnqIn(v, x)
  <2> SUFFICES ASSUME NEW x, NEW m \in Task, NEW i \in DOMAIN w[m], w[m][i] = x, x # f
               PROVE  \E k \in Task : \E j \in DOMAIN v[k] : v[k][j] = x
    BY Zenon DEF EnqIn
  <2>1. CASE m = l
    <3>1. i \in 1 .. n - 1
      BY <1>1, <2>1
    <3> QED
      BY Zenon, <1>3, <2>1, <3>1
  <2>2. CASE m # l
    BY Zenon, <1>3, <2>2
  <2> QED
    BY Zenon, <2>1, <2>2
<1>8. \A m \in Task : v[m] # <<>> => w[m] # <<>>
  BY Zenon, <1>1, <1>3
<1> QED
  BY Zenon, <1>2, <1>3, <1>5, <1>6, <1>7, <1>8

\* array_push() to a waiting list in subreq_enqueue() puts exactly one task on
\* the waiting lists.
LEMMA OneMore ==
  ASSUME NEW w \in [Task -> Seq(Task)], Unique(w),
         NEW g \in Task, NEW t \in Task, ~EnqIn(w, t)
  PROVE  LET v == [w EXCEPT ![g] = Append(@, t)]
         IN  /\ v \in [Task -> Seq(Task)]
             /\ Unique(v)
             /\ \A x : EnqIn(v, x) <=> EnqIn(w, x) \/ x = t
             /\ \A m \in Task : v[m] # <<>> => w[m] # <<>> \/ m = g
<1> DEFINE n == Len(w[g])
           v == [w EXCEPT ![g] = Append(@, t)]
<1>1. n \in Nat /\ DOMAIN w[g] = 1 .. n
  OBVIOUS
<1>2. /\ v \in [Task -> Seq(Task)]
      /\ DOMAIN v[g] = 1 .. n + 1
      /\ v[g][n + 1] = t
      /\ \A i \in 1 .. n : v[g][i] = w[g][i]
      /\ \A m \in Task : m # g => v[m] = w[m]
  BY <1>1
<1>3. \A m \in Task : \A i \in DOMAIN v[m] :
        \/ i \in DOMAIN w[m] /\ v[m][i] = w[m][i]
        \/ m = g /\ i = n + 1 /\ v[m][i] = t
  BY <1>1, <1>2
<1>4. Unique(v)
  BY SMTT(30), <1>3 DEF Unique, EnqIn
<1>5. \A x : EnqIn(v, x) => EnqIn(w, x) \/ x = t
  BY Zenon, <1>3 DEF EnqIn
<1>6. \A x : EnqIn(w, x) => EnqIn(v, x)
  <2> SUFFICES ASSUME NEW x, NEW m \in Task, NEW i \in DOMAIN w[m], w[m][i] = x
               PROVE  \E k \in Task : \E j \in DOMAIN v[k] : v[k][j] = x
    BY Zenon DEF EnqIn
  <2>1. i \in DOMAIN v[m] /\ v[m][i] = x
    BY <1>1, <1>2
  <2> QED
    BY Zenon, <2>1
<1>7. EnqIn(v, t)
  <2>1. n + 1 \in DOMAIN v[g] /\ v[g][n + 1] = t
    BY <1>1, <1>2
  <2> QED
    BY Zenon, <2>1 DEF EnqIn
<1>8. \A m \in Task : v[m] # <<>> => w[m] # <<>> \/ m = g
  BY Zenon, <1>2
<1> QED
  BY Zenon, <1>2, <1>4, <1>5, <1>6, <1>7, <1>8

-----------------------------------------------------------------------------
(* The inductive invariant.                                                *)

\* What holds of one task at any time.
TaskInv(t) ==
  /\ refs[t] = Holders(t)
  \* its life
  /\ created[t] /\ ~finished[t] => primary[t]
  /\ answering[t] => finished[t]
  /\ finished[t] => created[t]
  /\ ~created[t] =>
       /\ ~primary[t] /\ ~answering[t] /\ ~registered[t] /\ ~leading[t]
       /\ ~parked[t] /\ ~Enqueued(t) /\ pending_count[t] = 0 /\ inflight[t] = 0
  \* its sockets
  /\ pending_count[t] > 0 => leading[t]
  /\ timer[t] # "off" => pending_count[t] > 0
  \* leaders and followers
  /\ leading[t] => /\ ~finished[t] /\ ~parked[t] /\ key[t] \in Key
                   /\ call.task # t => subreq_out[key[t]] = t
  /\ Enqueued(t) => ~leading[t] /\ ~parked[t]
  /\ waiting[t] # <<>> => leading[t]
  \* on the C stack, and off it
  /\ call.task = t =>
       /\ created[t] /\ ~finished[t] /\ pending_count[t] = 0
       /\ call.then = "step" => ~parked[t] /\ ~Enqueued(t)
       /\ call.then = "expire" => ~registered[t]
  /\ created[t] /\ ~finished[t] /\ call.task # t =>
       timer[t] # "off" \/ Enqueued(t) \/ parked[t]

\* subreq_out points to leaders of the query it maps, none on the C stack.
Table ==
  \A k \in Key : subreq_out[k] # NoTask =>
    /\ leading[subreq_out[k]] /\ key[subreq_out[k]] = k
    /\ call.task # subreq_out[k]

\* What is on the C stack.
Stack ==
  \/ call = NoCall
  \/ call.task \in Task /\ call.then \in {"step", "finalize", "expire"}

\* The inductive invariant.
IInv ==
  /\ TypeOK
  /\ \A t \in Task : TaskInv(t)
  /\ Table
  /\ Unique(waiting)
  /\ Stack

-----------------------------------------------------------------------------
(* A step that is about another task.                                      *)

\* Nothing that TaskInv says of x has changed.
Same(x) ==
  /\ created'[x] = created[x] /\ refs'[x] = refs[x]
  /\ primary'[x] = primary[x] /\ finished'[x] = finished[x]
  /\ leading'[x] = leading[x] /\ key'[x] = key[x]
  /\ pending_count'[x] = pending_count[x] /\ timer'[x] = timer[x]
  /\ inflight'[x] = inflight[x] /\ parked'[x] = parked[x]
  /\ registered'[x] = registered[x] /\ answering'[x] = answering[x]
  /\ Enqueued(x)' <=> Enqueued(x)
  /\ waiting'[x] # <<>> => leading[x]
  /\ leading[x] /\ subreq_out[key[x]] = x => subreq_out'[key[x]] = x
  /\ call'.task = x <=> call.task = x
  /\ call.task = x => call'.then = call.then

\* A step that changes nothing TaskInv reads of x preserves it.
LEMMA SameInv ==
  ASSUME NEW x \in Task, TaskInv(x), Same(x)
  PROVE  TaskInv(x)'
BY DEF TaskInv, Same, Holders, One

-----------------------------------------------------------------------------
(* The effect of the operators the callbacks share.                        *)

\* qr_task_ref() and qr_task_unref() change the count of one task.
LEMMA ReferenceEffect ==
  ASSUME TypeOK, NEW t \in Task, NEW n \in Int, NEW b \in BOOLEAN,
         Reference(t, n, b)
  PROVE  /\ refs' \in [Task -> Int] /\ primary' \in [Task -> BOOLEAN]
         /\ rconcurrent' \in Int
         /\ refs'[t] = refs[t] + n /\ primary'[t] = b
         /\ \A x \in Task : x # t => refs'[x] = refs[x] /\ primary'[x] = primary[x]
BY DEF TypeOK, Reference

\* qr_task_complete() drops the primary reference, and that of the client's
\* task list, of one task.
LEMMA CompleteEffect ==
  ASSUME TypeOK, NEW t \in Task, NEW n \in Int, NEW b \in BOOLEAN,
         Complete(t, n, b)
  PROVE  /\ refs' \in [Task -> Int] /\ primary' \in [Task -> BOOLEAN]
         /\ rconcurrent' \in Int
         /\ source' \in [Task -> {"none", "udp", "tcp"}]
         /\ registered' \in [Task -> BOOLEAN]
         /\ refs'[t] = refs[t] + n - One(b) - One(primary[t])
         /\ ~primary'[t] /\ ~registered'[t]
         /\ \A x \in Task : x # t =>
              /\ refs'[x] = refs[x] /\ primary'[x] = primary[x]
              /\ registered'[x] = registered[x]
<1> DEFINE m == n - One(b) - One(primary[t])
<1>1. m \in Int
  BY DEF One
<1>2. Reference(t, m, FALSE)
  BY Zenon DEF Complete
<1> HIDE DEF m
<1>3. /\ refs' \in [Task -> Int] /\ primary' \in [Task -> BOOLEAN]
      /\ rconcurrent' \in Int
      /\ refs'[t] = refs[t] + m /\ primary'[t] = FALSE
      /\ \A x \in Task : x # t => refs'[x] = refs[x] /\ primary'[x] = primary[x]
  BY Zenon, <1>1, <1>2, ReferenceEffect
<1>4. refs'[t] = refs[t] + n - One(b) - One(primary[t])
  BY Zenon, <1>1, <1>3 DEF m, TypeOK, One
<1>5. /\ source' \in [Task -> {"none", "udp", "tcp"}]
      /\ registered' \in [Task -> BOOLEAN] /\ ~registered'[t]
      /\ \A x \in Task : x # t => registered'[x] = registered[x]
  BY Zenon DEF Complete, TypeOK
<1> QED
  BY Zenon, <1>3, <1>4, <1>5

\* subreq_finalize() up to its loop: the sockets of the task are gone, the
\* table entry of a leader is gone, and the task is on the C stack.
LEMMA SubreqFinalizeEffect ==
  ASSUME NEW t \in Task, TypeOK, TaskInv(t), Table, call = NoCall,
         NEW reply \in BOOLEAN, NEW then \in {"step", "expire"},
         SubreqFinalize(t, reply, then)
  PROVE  /\ pending_count' \in [Task -> 0 .. MAX_PENDING]
         /\ timer' \in [Task -> {"off", "on_retransmit", "on_udp_timeout"}]
         /\ inflight' = inflight
         /\ subreq_out' \in [Key -> Task \cup {NoTask}]
         /\ pending_count'[t] = 0 /\ timer'[t] = "off"
         /\ \A x \in Task : x # t =>
              /\ pending_count'[x] = pending_count[x] /\ timer'[x] = timer[x]
         /\ \A k \in Key : subreq_out'[k] = IF subreq_out[k] = t THEN NoTask
                                                               ELSE subreq_out[k]
         /\ call' \in [task : Task \cup {NoTask}, reply : BOOLEAN,
                       encoded : BOOLEAN,
                       then : {"none", "step", "finalize", "expire"}]
         /\ call'.task = t /\ call'.then = then
<1>1. /\ pending_count' \in [Task -> 0 .. MAX_PENDING]
      /\ timer' \in [Task -> {"off", "on_retransmit", "on_udp_timeout"}]
      /\ pending_count'[t] = 0 /\ timer'[t] = "off" /\ inflight' = inflight
      /\ \A x \in Task : x # t =>
           /\ pending_count'[x] = pending_count[x] /\ timer'[x] = timer[x]
  BY SMTT(30), SubreqAssumption DEF SubreqFinalize, TypeOK
<1>2. call.task # t
  BY Zenon, SubreqAssumption DEF NoCall
<1>3. /\ subreq_out' \in [Key -> Task \cup {NoTask}]
      /\ \A k \in Key : subreq_out'[k] = IF subreq_out[k] = t THEN NoTask
                                                            ELSE subreq_out[k]
  <2>1. CASE leading[t]
    <3>1. key[t] \in Key /\ subreq_out[key[t]] = t
      BY Zenon, <1>2, <2>1 DEF TaskInv
    <3>2. \A k \in Key : subreq_out[k] = t => k = key[t]
      BY Zenon, SubreqAssumption DEF Table
    <3> QED
      BY Zenon, <2>1, <3>1, <3>2 DEF SubreqFinalize, TypeOK
  <2>2. CASE ~leading[t]
    BY <2>2, SubreqAssumption DEF SubreqFinalize, TypeOK, Table
  <2> QED
    BY Zenon, <2>1, <2>2
<1>4. (reply /\ secret[t]) \in BOOLEAN
  BY Zenon DEF TypeOK
<1>5. call' \in [task : Task \cup {NoTask}, reply : BOOLEAN,
                 encoded : BOOLEAN,
                 then : {"none", "step", "finalize", "expire"}]
      /\ call'.task = t /\ call'.then = then
  BY Zenon, <1>4 DEF SubreqFinalize
<1> QED
  BY Zenon, <1>1, <1>3, <1>5

\* qr_task_finalize() trades the references of the client's side for that of
\* the answer on its way, or for none.
LEMMA FinalizeEffect ==
  ASSUME NEW t \in Task, TypeOK, ~answering[t],
         NEW drop \in {0, 1}, NEW inList \in BOOLEAN, NEW open \in BOOLEAN,
         NEW high \in Int, NEW s \in [Task -> BOOLEAN],
         Finalize(t, drop, inList, open, high, s)
  PROVE  /\ refs' \in [Task -> Int] /\ primary' \in [Task -> BOOLEAN]
         /\ rconcurrent' \in Int /\ rconcurrent_highwatermark' \in Int
         /\ too_many_open' \in BOOLEAN
         /\ source' \in [Task -> {"none", "udp", "tcp"}]
         /\ registered' \in [Task -> BOOLEAN]
         /\ answering' \in [Task -> BOOLEAN]
         /\ refs'[t] = refs[t] - drop - One(primary[t]) - One(inList)
              + One(primary'[t]) + One(answering'[t]) + One(registered'[t])
         /\ \A x \in Task : x # t =>
              /\ refs'[x] = refs[x] /\ primary'[x] = primary[x]
              /\ registered'[x] = registered[x]
              /\ answering'[x] = answering[x]
<1>1. refs[t] \in Int /\ -drop \in Int /\ 1 - drop \in Int
      /\ primary[t] \in BOOLEAN
  BY DEF TypeOK
<1>2. /\ rconcurrent_highwatermark' \in Int
      /\ source \in [Task -> {"none", "udp", "tcp"}]
      /\ answering \in [Task -> BOOLEAN]
      /\ registered \in [Task -> BOOLEAN]
  BY Zenon DEF TypeOK, Finalize
<1>3. CASE /\ Complete(t, -drop, inList)
           /\ too_many_open' = open
           /\ UNCHANGED answering
  <2>1. /\ refs' \in [Task -> Int] /\ primary' \in [Task -> BOOLEAN]
        /\ rconcurrent' \in Int
        /\ source' \in [Task -> {"none", "udp", "tcp"}]
        /\ registered' \in [Task -> BOOLEAN]
        /\ refs'[t] = refs[t] + (-drop) - One(inList) - One(primary[t])
        /\ ~primary'[t] /\ ~registered'[t]
        /\ \A x \in Task : x # t =>
             /\ refs'[x] = refs[x] /\ primary'[x] = primary[x]
             /\ registered'[x] = registered[x]
    BY Zenon, <1>1, <1>3, CompleteEffect
  <2>2. refs'[t] = refs[t] - drop - One(primary[t]) - One(inList)
              + One(primary'[t]) + One(answering'[t]) + One(registered'[t])
    BY <1>1, <1>3, <2>1 DEF One
  <2> QED
    BY Zenon, <1>2, <1>3, <2>1, <2>2
<1>4. CASE /\ answering' = [answering EXCEPT ![t] = TRUE]
           /\ registered' = [registered EXCEPT ![t] = inList]
           /\ Reference(t, 1 - drop, primary[t])
           /\ too_many_open' = (open /\ ~BelowWatermark(high))
           /\ UNCHANGED source
  <2>1. /\ refs' \in [Task -> Int] /\ primary' \in [Task -> BOOLEAN]
        /\ rconcurrent' \in Int
        /\ refs'[t] = refs[t] + (1 - drop) /\ primary'[t] = primary[t]
        /\ \A x \in Task : x # t =>
             refs'[x] = refs[x] /\ primary'[x] = primary[x]
    BY Zenon, <1>1, <1>4, ReferenceEffect
  <2>2. /\ answering' \in [Task -> BOOLEAN] /\ answering'[t]
        /\ registered' \in [Task -> BOOLEAN] /\ registered'[t] = inList
        /\ \A x \in Task : x # t =>
             registered'[x] = registered[x] /\ answering'[x] = answering[x]
    BY Zenon, <1>2, <1>4
  <2>3. refs'[t] = refs[t] - drop - One(primary[t]) - One(inList)
              + One(primary'[t]) + One(answering'[t]) + One(registered'[t])
    BY <1>1, <2>1, <2>2 DEF One
  <2>4. too_many_open' \in BOOLEAN
    BY Zenon, <1>4 DEF BelowWatermark
  <2> QED
    BY Zenon, <1>2, <1>4, <2>1, <2>2, <2>3, <2>4
<1> QED
  BY Zenon, <1>3, <1>4 DEF Finalize

-----------------------------------------------------------------------------
(* The callbacks of the event loop, one lemma each.                        *)

\* A reply on a UDP socket preserves the invariant.
LEMMA UdpReplyInv ==
  ASSUME IInv, NEW t \in Task, UdpReply(t)
  PROVE  IInv'
<1>1. TypeOK /\ TaskInv(t) /\ Table /\ call = NoCall
  BY Zenon DEF IInv, UdpReply, Idle
<1>2. call.task = NoTask /\ \A x \in Task : x # NoTask
  BY Zenon, <1>1, SubreqAssumption DEF NoCall
<1>3. /\ refs' \in [Task -> Int] /\ primary' \in [Task -> BOOLEAN]
      /\ rconcurrent' \in Int
      /\ refs'[t] = refs[t] + (-pending_count[t]) /\ primary'[t] = primary[t]
      /\ \A x \in Task : x # t => refs'[x] = refs[x] /\ primary'[x] = primary[x]
  <2>1. primary[t] \in BOOLEAN /\ (-pending_count[t]) \in Int /\ Reference(t, (-pending_count[t]), primary[t])
    BY <1>1 DEF UdpReply, TypeOK
  <2> QED
    BY Zenon, <1>1, <2>1, ReferenceEffect
<1>4. /\ pending_count' \in [Task -> 0 .. MAX_PENDING]
      /\ timer' \in [Task -> {"off", "on_retransmit", "on_udp_timeout"}]
      /\ inflight' = inflight
      /\ subreq_out' \in [Key -> Task \cup {NoTask}]
      /\ pending_count'[t] = 0 /\ timer'[t] = "off"
      /\ \A x \in Task : x # t =>
           /\ pending_count'[x] = pending_count[x] /\ timer'[x] = timer[x]
      /\ \A k \in Key : subreq_out'[k] = IF subreq_out[k] = t THEN NoTask
                                                            ELSE subreq_out[k]
      /\ call' \in [task : Task \cup {NoTask}, reply : BOOLEAN,
                    encoded : BOOLEAN,
                    then : {"none", "step", "finalize", "expire"}]
      /\ call'.task = t /\ call'.then = "step"
  <2>1. SubreqFinalize(t, TRUE, "step")
    BY Zenon DEF UdpReply
  <2> QED
    BY Zenon, <1>1, <2>1, SubreqFinalizeEffect
<1>5. UNCHANGED <<created, finished, leading, waiting, key, secret, timeouts, iter_count,
      parked, garbled, source, registered, answering, old, too_many_open,
      rconcurrent_highwatermark>>
  BY Zenon DEF UdpReply, plan, client, io, load
<1>6. TypeOK'
  BY Zenon, <1>1, <1>3, <1>4, <1>5 DEF TypeOK
<1>7. \A x : Enqueued(x)' <=> Enqueued(x)
  BY Zenon, <1>5 DEF Enqueued
<1>8. ASSUME NEW x \in Task, x # t
      PROVE  TaskInv(x)'
  <2>1. TaskInv(x)
    BY Zenon DEF IInv
  <2>2. Same(x)
    BY ZenonT(30), <1>2, <1>3, <1>4, <1>5, <1>7, <1>8, <2>1 DEF Same, TaskInv
  <2> QED
    BY Zenon, <2>1, <2>2, SameInv
<1>9. TaskInv(t)'
  <2>1. refs[t] \in Int /\ pending_count[t] \in Nat /\ inflight[t] \in Nat
    BY <1>1 DEF TypeOK
  <2>2. /\ pending_count[t] > 0 /\ pending_count'[t] = 0
        /\ refs'[t] = refs[t] - pending_count[t]
        /\ timer'[t] = "off"
        /\ call'.task = t /\ call'.then = "step"
        /\ created'[t] = created[t] /\ primary'[t] = primary[t]
        /\ finished'[t] = finished[t] /\ leading'[t] = leading[t]
        /\ waiting'[t] = waiting[t] /\ key'[t] = key[t]
        /\ inflight'[t] = inflight[t] /\ parked'[t] = parked[t]
        /\ registered'[t] = registered[t] /\ answering'[t] = answering[t]
    BY Zenon, <1>2, <1>3, <1>4, <1>5, <1>7 DEF UdpReply
  <2>3. refs'[t] = Holders(t)'
    <3>1. refs[t] = Holders(t)
      BY Zenon, <1>1 DEF TaskInv
    <3> QED
      BY <1>2, <1>7, <2>1, <2>2, <3>1 DEF Holders, One
  <2> QED
    BY Zenon, <1>1, <1>2, <1>7, <2>1, <2>2, <2>3 DEF TaskInv
<1>10. Table'
  BY <1>1, <1>2, <1>3, <1>4, <1>5 DEF Table, TaskInv
<1>11. Unique(waiting)' /\ Stack'
  BY Zenon, <1>1, <1>3, <1>4, <1>5 DEF Stack, IInv, NoCall
<1> QED
  BY Zenon, <1>6, <1>8, <1>9, <1>10, <1>11 DEF IInv

\* on_udp_timeout() preserves the invariant.
LEMMA OnUdpTimeoutInv ==
  ASSUME IInv, NEW t \in Task, OnUdpTimeout(t)
  PROVE  IInv'
<1>1. TypeOK /\ TaskInv(t) /\ Table /\ call = NoCall
  BY Zenon DEF IInv, OnUdpTimeout, Idle
<1>2. call.task = NoTask /\ \A x \in Task : x # NoTask
  BY Zenon, <1>1, SubreqAssumption DEF NoCall
<1>3. /\ refs' \in [Task -> Int] /\ primary' \in [Task -> BOOLEAN]
      /\ rconcurrent' \in Int
      /\ refs'[t] = refs[t] + (-pending_count[t]) /\ primary'[t] = primary[t]
      /\ \A x \in Task : x # t => refs'[x] = refs[x] /\ primary'[x] = primary[x]
  <2>1. primary[t] \in BOOLEAN /\ (-pending_count[t]) \in Int /\ Reference(t, (-pending_count[t]), primary[t])
    BY <1>1 DEF OnUdpTimeout, TypeOK
  <2> QED
    BY Zenon, <1>1, <2>1, ReferenceEffect
<1>4. /\ pending_count' \in [Task -> 0 .. MAX_PENDING]
      /\ timer' \in [Task -> {"off", "on_retransmit", "on_udp_timeout"}]
      /\ inflight' = inflight
      /\ subreq_out' \in [Key -> Task \cup {NoTask}]
      /\ pending_count'[t] = 0 /\ timer'[t] = "off"
      /\ \A x \in Task : x # t =>
           /\ pending_count'[x] = pending_count[x] /\ timer'[x] = timer[x]
      /\ \A k \in Key : subreq_out'[k] = IF subreq_out[k] = t THEN NoTask
                                                            ELSE subreq_out[k]
      /\ call' \in [task : Task \cup {NoTask}, reply : BOOLEAN,
                    encoded : BOOLEAN,
                    then : {"none", "step", "finalize", "expire"}]
      /\ call'.task = t /\ call'.then = "step"
  <2>1. SubreqFinalize(t, FALSE, "step")
    BY Zenon DEF OnUdpTimeout
  <2> QED
    BY Zenon, <1>1, <2>1, SubreqFinalizeEffect
<1>5. UNCHANGED <<created, finished, leading, waiting, key, secret, iter_count,
      parked, garbled, source, registered, answering, old, too_many_open,
      rconcurrent_highwatermark>>
  BY Zenon DEF OnUdpTimeout, plan, client, io, load
<1>6. timeouts' \in [Task -> Nat]
  <2>1. timeouts \in [Task -> Nat] /\ timeouts' = [timeouts EXCEPT ![t] = @ + 1]
    BY Zenon, <1>1 DEF OnUdpTimeout, TypeOK
  <2> QED
    BY <2>1
<1>7. TypeOK'
  BY Zenon, <1>1, <1>3, <1>4, <1>5, <1>6 DEF TypeOK
<1>8. \A x : Enqueued(x)' <=> Enqueued(x)
  BY Zenon, <1>5 DEF Enqueued
<1>9. ASSUME NEW x \in Task, x # t
      PROVE  TaskInv(x)'
  <2>1. TaskInv(x)
    BY Zenon DEF IInv
  <2>2. Same(x)
    BY ZenonT(30), <1>2, <1>3, <1>4, <1>5, <1>6, <1>8, <1>9, <2>1 DEF Same, TaskInv
  <2> QED
    BY Zenon, <2>1, <2>2, SameInv
<1>10. TaskInv(t)'
  <2>1. refs[t] \in Int /\ pending_count[t] \in Nat /\ inflight[t] \in Nat
    BY <1>1 DEF TypeOK
  <2>2. /\ timer[t] = "on_udp_timeout" /\ pending_count'[t] = 0
        /\ refs'[t] = refs[t] - pending_count[t]
        /\ timer'[t] = "off"
        /\ call'.task = t /\ call'.then = "step"
        /\ created'[t] = created[t] /\ primary'[t] = primary[t]
        /\ finished'[t] = finished[t] /\ leading'[t] = leading[t]
        /\ waiting'[t] = waiting[t] /\ key'[t] = key[t]
        /\ inflight'[t] = inflight[t] /\ parked'[t] = parked[t]
        /\ registered'[t] = registered[t] /\ answering'[t] = answering[t]
    BY Zenon, <1>2, <1>3, <1>4, <1>5, <1>6, <1>8 DEF OnUdpTimeout
  <2>3. refs'[t] = Holders(t)'
    <3>1. refs[t] = Holders(t)
      BY Zenon, <1>1 DEF TaskInv
    <3> QED
      BY <1>2, <1>8, <2>1, <2>2, <3>1 DEF Holders, One
  <2> QED
    BY Zenon, <1>1, <1>2, <1>8, <2>1, <2>2, <2>3 DEF TaskInv
<1>11. Table'
  BY <1>1, <1>2, <1>4, <1>5 DEF Table, TaskInv
<1>12. Unique(waiting)' /\ Stack'
  BY Zenon, <1>1, <1>3, <1>4, <1>5, <1>6 DEF Stack, IInv, NoCall
<1> QED
  BY Zenon, <1>7, <1>9, <1>10, <1>11, <1>12 DEF IInv

\* The end of a client's TCP connection preserves the invariant.
LEMMA ClientEndsInv ==
  ASSUME IInv, NEW t \in Task, ClientEnds(t)
  PROVE  IInv'
<1>1. TypeOK /\ TaskInv(t) /\ Table /\ call = NoCall
  BY Zenon DEF IInv, ClientEnds, Idle
<1>2. call.task = NoTask /\ \A x \in Task : x # NoTask
  BY Zenon, <1>1, SubreqAssumption DEF NoCall
<1>3. /\ refs' \in [Task -> Int] /\ primary' \in [Task -> BOOLEAN]
      /\ rconcurrent' \in Int
      /\ refs'[t] = refs[t] + (-1) /\ primary'[t] = primary[t]
      /\ \A x \in Task : x # t => refs'[x] = refs[x] /\ primary'[x] = primary[x]
  <2>1. primary[t] \in BOOLEAN /\ (-1) \in Int /\ Reference(t, (-1), primary[t])
    BY <1>1 DEF ClientEnds, TypeOK
  <2> QED
    BY Zenon, <1>1, <2>1, ReferenceEffect
<1>4. /\ registered' \in [Task -> BOOLEAN] /\ registered[t] /\ ~registered'[t]
      /\ \A x \in Task : x # t => registered'[x] = registered[x]
      /\ source' \in [Task -> {"none", "udp", "tcp"}]
  BY Zenon, <1>1 DEF TypeOK, ClientEnds
<1>5. UNCHANGED <<created, finished, leading, waiting, key, secret, timeouts, iter_count,
      parked, garbled, answering, old, pending_count, timer, inflight,
      subreq_out, too_many_open, rconcurrent_highwatermark, call>>
  BY Zenon DEF ClientEnds, plan, client, io, load
<1>6. TypeOK'
  BY Zenon, <1>1, <1>3, <1>4, <1>5 DEF TypeOK
<1>7. \A x : Enqueued(x)' <=> Enqueued(x)
  BY Zenon, <1>5 DEF Enqueued
<1>8. ASSUME NEW x \in Task, x # t
      PROVE  TaskInv(x)'
  <2>1. TaskInv(x)
    BY Zenon DEF IInv
  <2>2. Same(x)
    BY Zenon, <1>2, <1>3, <1>4, <1>5, <1>7, <1>8, <2>1 DEF Same, TaskInv
  <2> QED
    BY Zenon, <2>1, <2>2, SameInv
<1>9. TaskInv(t)'
  <2>1. refs[t] \in Int /\ pending_count[t] \in Nat /\ inflight[t] \in Nat
    BY <1>1 DEF TypeOK
  <2>2. /\ registered[t] /\ ~registered'[t]
        /\ refs'[t] = refs[t] - 1
        /\ call' = call /\ subreq_out' = subreq_out
        /\ created'[t] = created[t] /\ primary'[t] = primary[t]
        /\ finished'[t] = finished[t] /\ leading'[t] = leading[t]
        /\ waiting'[t] = waiting[t] /\ key'[t] = key[t]
        /\ pending_count'[t] = pending_count[t] /\ timer'[t] = timer[t]
        /\ inflight'[t] = inflight[t] /\ parked'[t] = parked[t]
        /\ answering'[t] = answering[t]
    BY Zenon, <1>2, <1>3, <1>4, <1>5, <1>7 DEF ClientEnds
  <2>3. refs'[t] = Holders(t)'
    <3>1. refs[t] = Holders(t)
      BY Zenon, <1>1 DEF TaskInv
    <3> QED
      BY <1>2, <1>7, <2>1, <2>2, <3>1 DEF Holders, One
  <2> QED
    BY Zenon, <1>1, <1>2, <1>7, <2>1, <2>2, <2>3 DEF TaskInv
<1>10. Table'
  BY Zenon, <1>1, <1>2, <1>3, <1>4, <1>5 DEF Table, TaskInv
<1>11. Unique(waiting)' /\ Stack'
  BY Zenon, <1>1, <1>3, <1>4, <1>5 DEF Stack, IInv, NoCall
<1> QED
  BY Zenon, <1>6, <1>8, <1>9, <1>10, <1>11 DEF IInv

\* The passing of the time limit preserves the invariant.
LEMMA AgeInv ==
  ASSUME IInv, NEW t \in Task, Age(t)
  PROVE  IInv'
<1>1. TypeOK /\ TaskInv(t) /\ Table /\ call = NoCall
  BY Zenon DEF IInv, Age, Idle
<1>2. call.task = NoTask /\ \A x \in Task : x # NoTask
  BY Zenon, <1>1, SubreqAssumption DEF NoCall
<1>3. old' \in [Task -> BOOLEAN]
  BY Zenon, <1>1 DEF TypeOK, Age
<1>4. UNCHANGED <<created, refs, primary, finished, leading, waiting, key, secret, timeouts,
      iter_count, parked, garbled, source, registered, answering,
      pending_count, timer, inflight, subreq_out, too_many_open,
      rconcurrent_highwatermark, rconcurrent, call>>
  BY Zenon DEF Age, plan, client, io, load
<1>5. TypeOK'
  BY Zenon, <1>1, <1>3, <1>4 DEF TypeOK
<1>6. \A x : Enqueued(x)' <=> Enqueued(x)
  BY Zenon, <1>4 DEF Enqueued
<1>7. ASSUME NEW x \in Task, x # t
      PROVE  TaskInv(x)'
  <2>1. TaskInv(x)
    BY Zenon DEF IInv
  <2>2. Same(x)
    BY Zenon, <1>2, <1>3, <1>4, <1>6, <1>7, <2>1 DEF Same, TaskInv
  <2> QED
    BY Zenon, <2>1, <2>2, SameInv
<1>8. TaskInv(t)'
  <2>1. refs[t] \in Int /\ pending_count[t] \in Nat /\ inflight[t] \in Nat
    BY <1>1 DEF TypeOK
  <2>2. /\ call' = call /\ subreq_out' = subreq_out
        /\ created'[t] = created[t] /\ refs'[t] = refs[t]
        /\ primary'[t] = primary[t] /\ finished'[t] = finished[t]
        /\ leading'[t] = leading[t] /\ waiting'[t] = waiting[t]
        /\ key'[t] = key[t] /\ pending_count'[t] = pending_count[t]
        /\ timer'[t] = timer[t] /\ inflight'[t] = inflight[t]
        /\ parked'[t] = parked[t] /\ registered'[t] = registered[t]
        /\ answering'[t] = answering[t]
    BY Zenon, <1>2, <1>3, <1>4, <1>6 DEF Age
  <2>3. refs'[t] = Holders(t)'
    <3>1. refs[t] = Holders(t)
      BY Zenon, <1>1 DEF TaskInv
    <3> QED
      BY <1>2, <1>6, <2>1, <2>2, <3>1 DEF Holders, One
  <2> QED
    BY Zenon, <1>1, <1>2, <1>6, <2>1, <2>2, <2>3 DEF TaskInv
<1>9. Table'
  BY Zenon, <1>1, <1>2, <1>3, <1>4 DEF Table, TaskInv
<1>10. Unique(waiting)' /\ Stack'
  BY Zenon, <1>1, <1>3, <1>4 DEF Stack, IInv, NoCall
<1> QED
  BY Zenon, <1>5, <1>7, <1>8, <1>9, <1>10 DEF IInv

\* An upstream TCP session that lets a task go preserves the invariant.
LEMMA UnparkInv ==
  ASSUME IInv, NEW t \in Task, Unpark(t)
  PROVE  IInv'
<1>1. TypeOK /\ TaskInv(t) /\ Table /\ call = NoCall
  BY Zenon DEF IInv, Unpark, Idle
<1>2. call.task = NoTask /\ \A x \in Task : x # NoTask
  BY Zenon, <1>1, SubreqAssumption DEF NoCall
<1>3. /\ refs' \in [Task -> Int] /\ primary' \in [Task -> BOOLEAN]
      /\ rconcurrent' \in Int
      /\ refs'[t] = refs[t] + (-1) /\ primary'[t] = primary[t]
      /\ \A x \in Task : x # t => refs'[x] = refs[x] /\ primary'[x] = primary[x]
  <2>1. primary[t] \in BOOLEAN /\ (-1) \in Int /\ Reference(t, (-1), primary[t])
    BY <1>1 DEF Unpark, TypeOK
  <2> QED
    BY Zenon, <1>1, <2>1, ReferenceEffect
<1>4. /\ parked' \in [Task -> BOOLEAN] /\ parked[t] /\ ~parked'[t]
      /\ \A x \in Task : x # t => parked'[x] = parked[x]
  BY Zenon, <1>1 DEF TypeOK, Unpark
<1>5. /\ call' \in [task : Task \cup {NoTask}, reply : BOOLEAN,
                     encoded : BOOLEAN,
                     then : {"none", "step", "finalize", "expire"}]
       /\ \/ finished[t] /\ call' = call
          \/ ~finished[t] /\ call'.task = t /\ call'.then \in {"step", "finalize"}
  <2>1. CASE finished[t]
    BY Zenon, <1>1, <2>1 DEF Unpark, TypeOK
  <2>2. CASE ~finished[t]
    <3>1. PICK then \in {"step", "finalize"} :
             call' = [task |-> t, reply |-> FALSE, encoded |-> FALSE,
                      then |-> then]
      BY Zenon, <2>2 DEF Unpark
    <3> QED
      BY Zenon, <2>2, <3>1
  <2> QED
    BY Zenon, <2>1, <2>2
<1>6. UNCHANGED <<created, finished, leading, waiting, key, secret, timeouts, iter_count,
      garbled, source, registered, answering, old, pending_count, timer, inflight,
      subreq_out, too_many_open, rconcurrent_highwatermark>>
  BY Zenon DEF Unpark, plan, client, io, load
<1>7. TypeOK'
  BY Zenon, <1>1, <1>3, <1>4, <1>6, <1>5 DEF TypeOK
<1>8. \A x : Enqueued(x)' <=> Enqueued(x)
  BY Zenon, <1>6 DEF Enqueued
<1>9. ASSUME NEW x \in Task, x # t
      PROVE  TaskInv(x)'
  <2>1. TaskInv(x)
    BY Zenon DEF IInv
  <2>2. Same(x)
    BY <1>2, <1>3, <1>4, <1>6, <1>5, <1>8, <1>9, <2>1 DEF Same, TaskInv
  <2> QED
    BY Zenon, <2>1, <2>2, SameInv
<1>10. TaskInv(t)'
  <2>1. refs[t] \in Int /\ pending_count[t] \in Nat /\ inflight[t] \in Nat
    BY <1>1 DEF TypeOK
  <2>2. /\ parked[t] /\ ~parked'[t]
        /\ refs'[t] = refs[t] - 1
        /\ subreq_out' = subreq_out
        /\ \/ finished[t] /\ call' = call
           \/ ~finished[t] /\ call'.task = t /\ call'.then \in {"step", "finalize"}
        /\ created'[t] = created[t] /\ primary'[t] = primary[t]
        /\ finished'[t] = finished[t] /\ leading'[t] = leading[t]
        /\ waiting'[t] = waiting[t] /\ key'[t] = key[t]
        /\ pending_count'[t] = pending_count[t] /\ timer'[t] = timer[t]
        /\ inflight'[t] = inflight[t] /\ registered'[t] = registered[t]
        /\ answering'[t] = answering[t]
    BY Zenon, <1>2, <1>3, <1>4, <1>6, <1>5, <1>8 DEF Unpark
  <2>3. refs'[t] = Holders(t)'
    <3>1. refs[t] = Holders(t)
      BY Zenon, <1>1 DEF TaskInv
    <3>2. ~(call.task = t) /\ ~(call'.task = t /\ call'.then = "expire")
      BY Zenon, <1>2, <2>2
    <3> QED
      BY <1>8, <2>1, <2>2, <3>1, <3>2 DEF Holders, One
  <2>4. created[t] /\ ~leading[t] /\ ~Enqueued(t) /\ ~(pending_count[t] > 0)
    BY Zenon, <1>1, <2>2 DEF TaskInv
  <2>5. CASE finished[t]
    BY Zenon, <1>1, <1>2, <1>8, <2>1, <2>2, <2>3, <2>4, <2>5 DEF TaskInv
  <2>6. CASE ~finished[t]
    BY SMTT(30), <1>1, <1>2, <1>8, <2>1, <2>2, <2>3, <2>4, <2>6 DEF TaskInv
  <2> QED
    BY Zenon, <2>5, <2>6
<1>11. Table'
  BY <1>1, <1>2, <1>4, <1>6, <1>5 DEF Table, TaskInv
<1>12. Unique(waiting)' /\ Stack'
  BY Zenon, <1>1, <1>3, <1>4, <1>6, <1>5 DEF Stack, IInv, NoCall
<1> QED
  BY Zenon, <1>7, <1>9, <1>10, <1>11, <1>12 DEF IInv

\* The callback of the answer's send preserves the invariant.
LEMMA OnAnswerSentInv ==
  ASSUME IInv, NEW t \in Task, OnAnswerSent(t)
  PROVE  IInv'
<1>1. TypeOK /\ TaskInv(t) /\ Table /\ call = NoCall
  BY Zenon DEF IInv, OnAnswerSent, Idle
<1>2. call.task = NoTask /\ \A x \in Task : x # NoTask
  BY Zenon, <1>1, SubreqAssumption DEF NoCall
<1>3. /\ refs' \in [Task -> Int] /\ primary' \in [Task -> BOOLEAN]
      /\ rconcurrent' \in Int
      /\ source' \in [Task -> {"none", "udp", "tcp"}]
      /\ registered' \in [Task -> BOOLEAN]
      /\ refs'[t] = refs[t] + (-1) - One(registered[t]) - One(primary[t])
      /\ ~primary'[t] /\ ~registered'[t]
      /\ \A x \in Task : x # t =>
           /\ refs'[x] = refs[x] /\ primary'[x] = primary[x]
           /\ registered'[x] = registered[x]
  <2>1. registered[t] \in BOOLEAN /\ (-1) \in Int /\ Complete(t, (-1), registered[t])
    BY <1>1 DEF OnAnswerSent, TypeOK
  <2> QED
    BY Zenon, <1>1, <2>1, CompleteEffect
<1>4. /\ answering' \in [Task -> BOOLEAN] /\ answering[t] /\ ~answering'[t]
      /\ \A x \in Task : x # t => answering'[x] = answering[x]
  BY Zenon, <1>1 DEF TypeOK, OnAnswerSent
<1>5. UNCHANGED <<created, finished, leading, waiting, key, secret, timeouts, iter_count,
      parked, garbled, old, pending_count, timer, inflight,
      subreq_out, too_many_open, rconcurrent_highwatermark, call>>
  BY Zenon DEF OnAnswerSent, plan, client, io, load
<1>6. TypeOK'
  BY Zenon, <1>1, <1>3, <1>4, <1>5 DEF TypeOK
<1>7. \A x : Enqueued(x)' <=> Enqueued(x)
  BY Zenon, <1>5 DEF Enqueued
<1>8. ASSUME NEW x \in Task, x # t
      PROVE  TaskInv(x)'
  <2>1. TaskInv(x)
    BY Zenon DEF IInv
  <2>2. Same(x)
    BY Zenon, <1>2, <1>3, <1>4, <1>5, <1>7, <1>8, <2>1 DEF Same, TaskInv
  <2> QED
    BY Zenon, <2>1, <2>2, SameInv
<1>9. TaskInv(t)'
  <2>1. refs[t] \in Int /\ pending_count[t] \in Nat /\ inflight[t] \in Nat
    BY <1>1 DEF TypeOK
  <2>2. /\ answering[t] /\ ~answering'[t]
        /\ refs'[t] = refs[t] - 1 - One(registered[t]) - One(primary[t])
        /\ ~primary'[t] /\ ~registered'[t]
        /\ call' = call /\ subreq_out' = subreq_out
        /\ created'[t] = created[t] /\ finished'[t] = finished[t]
        /\ leading'[t] = leading[t] /\ waiting'[t] = waiting[t]
        /\ key'[t] = key[t] /\ pending_count'[t] = pending_count[t]
        /\ timer'[t] = timer[t] /\ inflight'[t] = inflight[t]
        /\ parked'[t] = parked[t]
    BY <1>3, <1>4, <1>5, <2>1 DEF One
  <2>3. refs'[t] = Holders(t)'
    <3>1. refs[t] = Holders(t)
      BY Zenon, <1>1 DEF TaskInv
    <3>2. ~(call.task = t) /\ ~(call'.task = t)
      BY Zenon, <1>2, <2>2
    <3> QED
      BY <1>7, <2>1, <2>2, <3>1, <3>2 DEF Holders, One
  <2> QED
    BY Zenon, <1>1, <1>2, <1>7, <2>1, <2>2, <2>3 DEF TaskInv
<1>10. Table'
  BY Zenon, <1>1, <1>2, <1>3, <1>4, <1>5 DEF Table, TaskInv
<1>11. Unique(waiting)' /\ Stack'
  BY Zenon, <1>1, <1>3, <1>4, <1>5 DEF Stack, IInv, NoCall
<1> QED
  BY Zenon, <1>6, <1>8, <1>9, <1>10, <1>11 DEF IInv

\* The callback of a query's send preserves the invariant.
LEMMA OnSendInv ==
  ASSUME IInv, NEW t \in Task, OnSend(t)
  PROVE  IInv'
<1>1. TypeOK /\ TaskInv(t) /\ Table /\ call = NoCall
  BY Zenon DEF IInv, OnSend, Idle
<1>2. call.task = NoTask /\ \A x \in Task : x # NoTask
  BY Zenon, <1>1, SubreqAssumption DEF NoCall
<1>3. /\ inflight' \in [Task -> Nat] /\ inflight[t] > 0
      /\ inflight'[t] = inflight[t] - 1
      /\ \A x \in Task : x # t => inflight'[x] = inflight[x]
  <2>1. inflight \in [Task -> Nat] /\ inflight[t] > 0
        /\ inflight' = [inflight EXCEPT ![t] = @ - 1]
    BY Zenon, <1>1 DEF OnSend, TypeOK
  <2> QED
    BY <2>1
<1>4. /\ refs' \in [Task -> Int] /\ primary' \in [Task -> BOOLEAN]
      /\ rconcurrent' \in Int
      /\ source' \in [Task -> {"none", "udp", "tcp"}]
      /\ registered' \in [Task -> BOOLEAN]
      /\ \/ /\ finished[t] /\ ~primary'[t] /\ ~registered'[t]
            /\ refs'[t] = refs[t] + (-1) - One(registered[t]) - One(primary[t])
         \/ /\ ~finished[t] /\ refs'[t] = refs[t] + (-1)
            /\ primary'[t] = primary[t] /\ registered'[t] = registered[t]
      /\ \A x \in Task : x # t =>
           /\ refs'[x] = refs[x] /\ primary'[x] = primary[x]
           /\ registered'[x] = registered[x]
  <2>1. /\ -1 \in Int /\ registered[t] \in BOOLEAN /\ primary[t] \in BOOLEAN
        /\ source \in [Task -> {"none", "udp", "tcp"}]
        /\ registered \in [Task -> BOOLEAN]
    BY <1>1 DEF TypeOK
  <2>2. CASE finished[t]
    <3>1. Complete(t, -1, registered[t])
      BY Zenon, <2>2 DEF OnSend
    <3> QED
      BY <1>1, <2>1, <2>2, <3>1, CompleteEffect
  <2>3. CASE ~finished[t]
    <3>1. Reference(t, -1, primary[t]) /\ UNCHANGED <<source, registered>>
      BY Zenon, <2>3 DEF OnSend
    <3> QED
      BY Zenon, <1>1, <2>1, <2>3, <3>1, ReferenceEffect
  <2> QED
    BY Zenon, <2>2, <2>3
<1>5. UNCHANGED <<created, finished, leading, waiting, key, secret, timeouts, iter_count,
      parked, garbled, answering, old, pending_count, timer, subreq_out,
      too_many_open, rconcurrent_highwatermark, call>>
  BY Zenon DEF OnSend, plan, client, io, load
<1>6. TypeOK'
  BY Zenon, <1>1, <1>3, <1>4, <1>5 DEF TypeOK
<1>7. \A x : Enqueued(x)' <=> Enqueued(x)
  BY Zenon, <1>5 DEF Enqueued
<1>8. ASSUME NEW x \in Task, x # t
      PROVE  TaskInv(x)'
  <2>1. TaskInv(x)
    BY Zenon DEF IInv
  <2>2. Same(x)
    BY Zenon, <1>2, <1>3, <1>4, <1>5, <1>7, <1>8, <2>1 DEF Same, TaskInv
  <2> QED
    BY Zenon, <2>1, <2>2, SameInv
<1>9. TaskInv(t)'
  <2>1. refs[t] \in Int /\ pending_count[t] \in Nat /\ inflight[t] \in Nat
    BY <1>1 DEF TypeOK
  <2>2. refs[t] = Holders(t)
    BY Zenon, <1>1 DEF TaskInv
  <2>3. /\ created'[t] = created[t] /\ finished'[t] = finished[t]
        /\ leading'[t] = leading[t] /\ waiting'[t] = waiting[t]
        /\ key'[t] = key[t] /\ pending_count'[t] = pending_count[t]
        /\ timer'[t] = timer[t] /\ parked'[t] = parked[t]
        /\ answering'[t] = answering[t] /\ inflight'[t] = inflight[t] - 1
        /\ call'.task # t /\ call.task # t /\ subreq_out' = subreq_out
    BY Zenon, <1>2, <1>3, <1>5
  <2>4. created[t]
    BY Zenon, <1>1, <1>3 DEF TaskInv
  <2>5. CASE finished[t]
    <3>1. /\ ~primary'[t] /\ ~registered'[t]
          /\ refs'[t] = refs[t] - 1 - One(registered[t]) - One(primary[t])
      BY <1>4, <2>1, <2>5 DEF One
    <3>2. refs'[t] = Holders(t)'
      BY <1>7, <2>1, <2>2, <2>3, <3>1 DEF Holders, One
    <3> QED
      BY Zenon, <1>1, <1>7, <2>3, <2>4, <2>5, <3>1, <3>2 DEF TaskInv
  <2>6. CASE ~finished[t]
    <3>1. /\ primary'[t] = primary[t] /\ registered'[t] = registered[t]
          /\ refs'[t] = refs[t] - 1
      BY Zenon, <1>4, <2>1, <2>6
    <3>2. refs'[t] = Holders(t)'
      BY <1>7, <2>1, <2>2, <2>3, <3>1 DEF Holders, One
    <3> QED
      BY Zenon, <1>1, <1>7, <2>3, <2>4, <2>6, <3>1, <3>2 DEF TaskInv
  <2> QED
    BY Zenon, <2>5, <2>6
<1>10. Table'
  BY Zenon, <1>1, <1>2, <1>3, <1>5 DEF Table
<1>11. Unique(waiting)' /\ Stack'
  BY Zenon, <1>1, <1>5 DEF Stack, IInv, NoCall
<1> QED
  BY Zenon, <1>6, <1>8, <1>9, <1>10, <1>11 DEF IInv

\* on_retransmit() preserves the invariant.
LEMMA OnRetransmitInv ==
  ASSUME IInv, NEW t \in Task, OnRetransmit(t)
  PROVE  IInv'
<1>1. TypeOK /\ TaskInv(t) /\ Table /\ call = NoCall
  BY Zenon DEF IInv, OnRetransmit, Idle
<1>2. call.task = NoTask /\ \A x \in Task : x # NoTask
  BY Zenon, <1>1, SubreqAssumption DEF NoCall
<1>3. /\ pending_count' \in [Task -> 0 .. MAX_PENDING]
      /\ timer' \in [Task -> {"off", "on_retransmit", "on_udp_timeout"}]
      /\ inflight' \in [Task -> Nat]
      /\ refs' \in [Task -> Int] /\ primary' \in [Task -> BOOLEAN]
      /\ rconcurrent' \in Int /\ rconcurrent_highwatermark' \in Int
      /\ too_many_open' \in BOOLEAN
      /\ primary'[t] = primary[t] /\ timer[t] # "off" /\ timer'[t] # "off"
      /\ \/ /\ pending_count'[t] = pending_count[t] + 1
            /\ inflight'[t] = inflight[t] + 1
            /\ refs'[t] = refs[t] + 2
         \/ /\ pending_count'[t] = pending_count[t]
            /\ inflight'[t] = inflight[t]
            /\ refs'[t] = refs[t]
      /\ \A x \in Task : x # t =>
           /\ refs'[x] = refs[x] /\ primary'[x] = primary[x]
           /\ pending_count'[x] = pending_count[x] /\ timer'[x] = timer[x]
           /\ inflight'[x] = inflight[x]
  <2>1. /\ pending_count \in [Task -> 0 .. MAX_PENDING]
        /\ timer \in [Task -> {"off", "on_retransmit", "on_udp_timeout"}]
        /\ inflight \in [Task -> Nat]
        /\ refs \in [Task -> Int] /\ primary \in [Task -> BOOLEAN]
        /\ rconcurrent \in Int /\ rconcurrent_highwatermark \in Int
        /\ too_many_open \in BOOLEAN /\ timer[t] = "on_retransmit"
    BY Zenon, <1>1 DEF TypeOK, OnRetransmit
  <2>2. CASE /\ CanRetransmit(t)
             /\ pending_count' = [pending_count EXCEPT ![t] = @ + 1]
             /\ inflight' = [inflight EXCEPT ![t] = @ + 1]
             /\ Reference(t, 2, primary[t])
             /\ too_many_open' =
                  (too_many_open /\ ~BelowWatermark(rconcurrent_highwatermark))
             /\ UNCHANGED <<timer, rconcurrent_highwatermark>>
    <3>1. /\ pending_count' \in [Task -> 0 .. MAX_PENDING]
          /\ inflight' \in [Task -> Nat]
          /\ pending_count'[t] = pending_count[t] + 1
          /\ inflight'[t] = inflight[t] + 1
          /\ \A x \in Task : x # t =>
               pending_count'[x] = pending_count[x] /\ inflight'[x] = inflight[x]
      BY <2>1, <2>2, SubreqAssumption DEF CanRetransmit
    <3>2. /\ refs' \in [Task -> Int] /\ primary' \in [Task -> BOOLEAN]
          /\ rconcurrent' \in Int
          /\ refs'[t] = refs[t] + 2 /\ primary'[t] = primary[t]
          /\ \A x \in Task : x # t => refs'[x] = refs[x] /\ primary'[x] = primary[x]
      <4>1. primary[t] \in BOOLEAN /\ 2 \in Int
        BY <2>1
      <4> QED
        BY Zenon, <1>1, <2>2, <4>1, ReferenceEffect
    <3>3. too_many_open' \in BOOLEAN
      BY Zenon, <2>2
    <3> QED
      BY Zenon, <2>1, <2>2, <3>1, <3>2, <3>3
  <2>3. CASE /\ LastWait(t)
             /\ \/ UNCHANGED load
                \/ /\ MayRunOut /\ CanRetransmit(t)
                   /\ too_many_open' = TRUE
                   /\ rconcurrent_highwatermark' = rconcurrent
             /\ UNCHANGED <<pending_count, inflight, refs, primary, rconcurrent>>
    <3>1. /\ timer' \in [Task -> {"off", "on_retransmit", "on_udp_timeout"}]
          /\ timer'[t] # "off"
          /\ \A x \in Task : x # t => timer'[x] = timer[x]
      BY Zenon, <2>1, <2>3 DEF LastWait
    <3>2. too_many_open' \in BOOLEAN /\ rconcurrent_highwatermark' \in Int
      BY Zenon, <2>1, <2>3 DEF load
    <3> QED
      BY Zenon, <2>1, <2>3, <3>1, <3>2
  <2> QED
    BY Zenon, <2>2, <2>3 DEF OnRetransmit
<1>4. UNCHANGED <<created, finished, leading, waiting, key, secret, timeouts, iter_count,
      parked, garbled, source, registered, answering, old, subreq_out, call>>
  BY Zenon DEF OnRetransmit, plan, client, io, load
<1>5. TypeOK'
  BY Zenon, <1>1, <1>3, <1>4 DEF TypeOK
<1>6. \A x : Enqueued(x)' <=> Enqueued(x)
  BY Zenon, <1>4 DEF Enqueued
<1>7. ASSUME NEW x \in Task, x # t
      PROVE  TaskInv(x)'
  <2>1. TaskInv(x)
    BY Zenon DEF IInv
  <2>2. Same(x)
    BY Zenon, <1>2, <1>3, <1>4, <1>6, <1>7, <2>1 DEF Same, TaskInv
  <2> QED
    BY Zenon, <2>1, <2>2, SameInv
<1>8. TaskInv(t)'
  <2>1. refs[t] \in Int /\ pending_count[t] \in Nat /\ inflight[t] \in Nat
    BY <1>1 DEF TypeOK
  <2>2. refs[t] = Holders(t)
    BY Zenon, <1>1 DEF TaskInv
  <2>3. /\ created'[t] = created[t] /\ finished'[t] = finished[t]
        /\ leading'[t] = leading[t] /\ waiting'[t] = waiting[t]
        /\ key'[t] = key[t] /\ registered'[t] = registered[t]
        /\ parked'[t] = parked[t] /\ answering'[t] = answering[t]
        /\ call'.task # t /\ call.task # t /\ subreq_out' = subreq_out
        /\ primary'[t] = primary[t] /\ timer[t] # "off" /\ timer'[t] # "off"
    BY Zenon, <1>2, <1>3, <1>4
  <2>4. \/ /\ pending_count'[t] = pending_count[t] + 1
           /\ inflight'[t] = inflight[t] + 1
           /\ refs'[t] = refs[t] + 2
        \/ /\ pending_count'[t] = pending_count[t]
           /\ inflight'[t] = inflight[t]
           /\ refs'[t] = refs[t]
    BY Zenon, <1>3
  <2>5. refs'[t] = Holders(t)'
    BY SMTT(30), <1>6, <2>1, <2>2, <2>3, <2>4 DEF Holders, One
  <2>6. pending_count[t] > 0 /\ pending_count'[t] > 0 /\ created[t] /\ leading[t]
    BY <1>1, <2>1, <2>3, <2>4 DEF TaskInv
  <2> QED
    BY Zenon, <1>1, <1>6, <2>3, <2>5, <2>6 DEF TaskInv
<1>9. Table'
  BY Zenon, <1>1, <1>2, <1>3, <1>4 DEF Table
<1>10. Unique(waiting)' /\ Stack'
  BY Zenon, <1>1, <1>4 DEF Stack, IInv, NoCall
<1> QED
  BY Zenon, <1>5, <1>7, <1>8, <1>9, <1>10 DEF IInv

\* session_tasklist_finalize_expired() of the client's connection preserves
\* the invariant.
LEMMA ClientExpireInv ==
  ASSUME IInv, NEW t \in Task, ClientExpire(t)
  PROVE  IInv'
<1>1. TypeOK /\ TaskInv(t) /\ Table /\ call = NoCall
  BY Zenon DEF IInv, ClientExpire, Idle
<1>2. call.task = NoTask /\ \A x \in Task : x # NoTask
  BY Zenon, <1>1, SubreqAssumption DEF NoCall
<1>3. /\ registered' \in [Task -> BOOLEAN] /\ registered[t] /\ ~registered'[t]
      /\ \A x \in Task : x # t => registered'[x] = registered[x]
  BY Zenon, <1>1 DEF TypeOK, ClientExpire
<1>4. /\ refs' \in [Task -> Int] /\ primary' \in [Task -> BOOLEAN]
      /\ rconcurrent' \in Int /\ primary'[t] = primary[t]
      /\ refs'[t] = refs[t] - (IF finished[t] THEN 1 ELSE pending_count[t])
      /\ \A x \in Task : x # t => refs'[x] = refs[x] /\ primary'[x] = primary[x]
  <2>1. /\ primary[t] \in BOOLEAN /\ -1 \in Int /\ (-pending_count[t]) \in Int
        /\ refs[t] \in Int /\ pending_count[t] \in Int
    BY <1>1 DEF TypeOK
  <2>2. CASE finished[t]
    <3>1. Reference(t, -1, primary[t])
      BY Zenon, <2>2 DEF ClientExpire
    <3>2. /\ refs' \in [Task -> Int] /\ primary' \in [Task -> BOOLEAN]
          /\ rconcurrent' \in Int /\ primary'[t] = primary[t]
          /\ refs'[t] = refs[t] + (-1)
          /\ \A x \in Task : x # t => refs'[x] = refs[x] /\ primary'[x] = primary[x]
      BY Zenon, <1>1, <2>1, <3>1, ReferenceEffect
    <3> QED
      BY Zenon, <2>1, <2>2, <3>2
  <2>3. CASE ~finished[t]
    <3>1. Reference(t, -pending_count[t], primary[t])
      BY Zenon, <2>3 DEF ClientExpire
    <3>2. /\ refs' \in [Task -> Int] /\ primary' \in [Task -> BOOLEAN]
          /\ rconcurrent' \in Int /\ primary'[t] = primary[t]
          /\ refs'[t] = refs[t] + (-pending_count[t])
          /\ \A x \in Task : x # t => refs'[x] = refs[x] /\ primary'[x] = primary[x]
      BY Zenon, <1>1, <2>1, <3>1, ReferenceEffect
    <3> QED
      BY Zenon, <2>1, <2>3, <3>2
  <2> QED
    BY Zenon, <2>2, <2>3
<1>5. /\ pending_count' \in [Task -> 0 .. MAX_PENDING]
      /\ timer' \in [Task -> {"off", "on_retransmit", "on_udp_timeout"}]
      /\ inflight' = inflight
      /\ subreq_out' \in [Key -> Task \cup {NoTask}]
      /\ call' \in [task : Task \cup {NoTask}, reply : BOOLEAN,
                    encoded : BOOLEAN,
                    then : {"none", "step", "finalize", "expire"}]
      /\ \A x \in Task : x # t =>
           /\ pending_count'[x] = pending_count[x] /\ timer'[x] = timer[x]
      /\ \/ /\ finished[t] /\ call' = call /\ subreq_out' = subreq_out
            /\ pending_count' = pending_count /\ timer' = timer
         \/ /\ ~finished[t] /\ call'.task = t /\ call'.then = "expire"
            /\ pending_count'[t] = 0 /\ timer'[t] = "off"
            /\ \A k \in Key : subreq_out'[k] = IF subreq_out[k] = t
                                                 THEN NoTask ELSE subreq_out[k]
  <2>1. CASE finished[t]
    BY Zenon, <1>1, <2>1 DEF ClientExpire, TypeOK
  <2>2. CASE ~finished[t]
    <3>1. SubreqFinalize(t, FALSE, "expire")
      BY Zenon, <2>2 DEF ClientExpire
    <3> QED
      BY Zenon, <1>1, <2>2, <3>1, SubreqFinalizeEffect
  <2> QED
    BY Zenon, <2>1, <2>2
<1>6. UNCHANGED <<created, finished, leading, waiting, key, secret, timeouts, iter_count,
      parked, garbled, source, answering, old, too_many_open,
      rconcurrent_highwatermark>>
  BY Zenon DEF ClientExpire, plan, client, io, load
<1>7. TypeOK'
  BY Zenon, <1>1, <1>3, <1>4, <1>5, <1>6 DEF TypeOK
<1>8. \A x : Enqueued(x)' <=> Enqueued(x)
  BY Zenon, <1>6 DEF Enqueued
<1>9. ASSUME NEW x \in Task, x # t
      PROVE  TaskInv(x)'
  <2>1. TaskInv(x)
    BY Zenon DEF IInv
  <2>2. Same(x)
    BY <1>2, <1>3, <1>4, <1>5, <1>6, <1>8, <1>9, <2>1 DEF Same, TaskInv
  <2> QED
    BY Zenon, <2>1, <2>2, SameInv
<1>10. TaskInv(t)'
  <2>1. refs[t] \in Int /\ pending_count[t] \in Nat /\ inflight[t] \in Nat
    BY <1>1 DEF TypeOK
  <2>2. refs[t] = Holders(t)
    BY Zenon, <1>1 DEF TaskInv
  <2>3. /\ created'[t] = created[t] /\ finished'[t] = finished[t]
        /\ leading'[t] = leading[t] /\ waiting'[t] = waiting[t]
        /\ key'[t] = key[t] /\ registered[t] /\ ~registered'[t]
        /\ parked'[t] = parked[t] /\ answering'[t] = answering[t]
        /\ call.task # t /\ primary'[t] = primary[t]
        /\ inflight'[t] = inflight[t]
    BY Zenon, <1>2, <1>3, <1>4, <1>5, <1>6
  <2>4. CASE finished[t]
    <3>1. /\ refs'[t] = refs[t] - 1 /\ call'.task # t /\ subreq_out' = subreq_out
          /\ pending_count'[t] = pending_count[t] /\ timer'[t] = timer[t]
      BY Zenon, <1>2, <1>4, <1>5, <2>4
    <3>2. refs'[t] = Holders(t)'
      BY SMTT(30), <1>8, <2>1, <2>2, <2>3, <3>1 DEF Holders, One
    <3> QED
      BY Zenon, <1>1, <1>8, <2>3, <2>4, <3>1, <3>2 DEF TaskInv
  <2>5. CASE ~finished[t]
    <3>1. /\ refs'[t] = refs[t] - pending_count[t]
          /\ call'.task = t /\ call'.then = "expire"
          /\ pending_count'[t] = 0 /\ timer'[t] = "off"
      BY Zenon, <1>4, <1>5, <2>5
    <3>2. refs'[t] = Holders(t)'
      BY <1>8, <2>1, <2>2, <2>3, <3>1 DEF Holders, One
    <3>3. created[t]
      BY Zenon, <1>1, <2>3 DEF TaskInv
    <3> QED
      BY <1>1, <1>8, <2>3, <2>5, <3>1, <3>2, <3>3 DEF TaskInv
  <2> QED
    BY Zenon, <2>4, <2>5
<1>11. Table'
  BY <1>1, <1>2, <1>5, <1>6 DEF Table
<1>12. Unique(waiting)' /\ Stack'
  BY Zenon, <1>1, <1>6, <1>5 DEF Stack, IInv, NoCall
<1> QED
  BY Zenon, <1>7, <1>9, <1>10, <1>11, <1>12 DEF IInv

\* A new request preserves the invariant.
LEMMA WorkerSubmitInv ==
  ASSUME IInv, NEW t \in Task, NEW src \in Sources, WorkerSubmit(t, src)
  PROVE  IInv'
<1>1. TypeOK /\ TaskInv(t) /\ Table /\ call = NoCall
  BY Zenon DEF IInv, WorkerSubmit, Idle
<1>2. call.task = NoTask /\ \A x \in Task : x # NoTask
  BY Zenon, <1>1, SubreqAssumption DEF NoCall
<1>3. /\ created' \in [Task -> BOOLEAN] /\ ~created[t] /\ created'[t]
      /\ primary' \in [Task -> BOOLEAN] /\ primary'[t]
      /\ registered' \in [Task -> BOOLEAN] /\ registered'[t] = (src = "tcp")
      /\ \A x \in Task : x # t => /\ created'[x] = created[x]
                                  /\ primary'[x] = primary[x]
                                  /\ registered'[x] = registered[x]
  BY Zenon, <1>1 DEF TypeOK, WorkerSubmit
<1>4. /\ refs' \in [Task -> Int] /\ refs'[t] = 1 + One(src = "tcp")
      /\ rconcurrent' \in Int
      /\ source' \in [Task -> {"none", "udp", "tcp"}]
      /\ \A x \in Task : x # t => refs'[x] = refs[x]
  <2>1. 1 + One(src = "tcp") \in Int /\ src \in {"none", "udp", "tcp"}
    BY SubreqAssumption DEF One
  <2> QED
    BY SMTT(30), <1>1, <2>1 DEF TypeOK, WorkerSubmit
<1>5. /\ call' \in [task : Task \cup {NoTask}, reply : BOOLEAN, encoded : BOOLEAN,
                    then : {"none", "step", "finalize", "expire"}]
      /\ call'.task = t /\ call'.then = "step"
  BY Zenon DEF WorkerSubmit
<1>6. UNCHANGED <<finished, leading, waiting, key, secret, timeouts, iter_count, parked,
      garbled, answering, old, pending_count, timer, inflight, subreq_out,
      too_many_open, rconcurrent_highwatermark>>
  BY Zenon DEF WorkerSubmit, plan, client, io, load
<1>7. TypeOK'
  BY Zenon, <1>1, <1>3, <1>4, <1>5, <1>6 DEF TypeOK
<1>8. \A x : Enqueued(x)' <=> Enqueued(x)
  BY Zenon, <1>6 DEF Enqueued
<1>9. ASSUME NEW x \in Task, x # t
      PROVE  TaskInv(x)'
  <2>1. TaskInv(x)
    BY Zenon DEF IInv
  <2>2. Same(x)
    BY ZenonT(30), <1>2, <1>3, <1>4, <1>5, <1>6, <1>8, <1>9, <2>1 DEF Same, TaskInv
  <2> QED
    BY Zenon, <2>1, <2>2, SameInv
<1>10. TaskInv(t)'
  <2>1. refs[t] \in Int /\ pending_count[t] \in Nat /\ inflight[t] \in Nat
    BY <1>1 DEF TypeOK
  <2>2. refs[t] = Holders(t)
    BY Zenon, <1>1 DEF TaskInv
  <2>3. /\ ~finished[t] /\ ~leading[t] /\ waiting[t] = <<>> /\ ~parked[t]
        /\ ~answering[t] /\ ~Enqueued(t) /\ timer[t] = "off"
        /\ pending_count[t] = 0 /\ inflight[t] = 0
    BY Zenon, <1>1, <1>3, <2>1 DEF TaskInv
  <2>4. /\ ~finished'[t] /\ ~leading'[t] /\ waiting'[t] = <<>> /\ ~parked'[t]
        /\ ~answering'[t] /\ ~Enqueued(t)' /\ timer'[t] = "off"
        /\ pending_count'[t] = 0 /\ inflight'[t] = 0
        /\ primary'[t] /\ created'[t]
        /\ call'.task = t /\ call'.then = "step"
    BY Zenon, <1>3, <1>4, <1>5, <1>6, <1>8, <2>3
  <2>5. refs'[t] = Holders(t)'
    <3>1. CASE src = "tcp"
      <4>1. registered'[t] /\ refs'[t] = 2
        BY <1>3, <1>4, <3>1 DEF One
      <4> QED
        BY <2>4, <4>1 DEF Holders, One
    <3>2. CASE src # "tcp"
      <4>1. ~registered'[t] /\ refs'[t] = 1
        BY <1>3, <1>4, <3>2 DEF One
      <4> QED
        BY <2>4, <4>1 DEF Holders, One
    <3> QED
      BY Zenon, <3>1, <3>2
  <2> QED
    BY <2>4, <2>5 DEF TaskInv
<1>11. Table'
  BY Zenon, <1>1, <1>3, <1>5, <1>6 DEF Table, TaskInv
<1>12. Unique(waiting)' /\ Stack'
  BY Zenon, <1>1, <1>6, <1>5 DEF Stack, IInv, NoCall
<1> QED
  BY Zenon, <1>7, <1>9, <1>10, <1>11, <1>12 DEF IInv

-----------------------------------------------------------------------------
(* One qr_task_step() of a follower, or of the task on the C stack.        *)

LEMMA FewAreInt ==
  /\ \A b : One(b) \in Int
  /\ \A d \in {0, 1} : d \in Int
  /\ ~(0 > 0) /\ 1 > 0
BY DEF One

\* Of c references d are dropped, leaving the primary one, i sockets and the
\* client's.  a are the references after the step, which adds one for a list
\* or two for the table and a socket; h are the holders then.
Counted(p, i, r, c, d, a, h) ==
  /\ p \in Int /\ i \in Nat /\ r \in Int /\ c \in Int /\ d \in Int
  /\ c - d = p + i + r + 0 + 0
  /\ \/ a = c + 1 - d /\ h = p + 0 + i + 0 + r + 0 + 1 + 0
     \/ a = c + 1 - d /\ h = p + 0 + i + 0 + r + 1 + 0 + 0
     \/ a = c + 2 - d /\ h = p + 1 + (i + 1) + 0 + r + 0 + 0 + 0

LEMMA SumsUp ==
  ASSUME NEW p, NEW i, NEW r, NEW c, NEW d, NEW a, NEW h, Counted(p, i, r, c, d, a, h)
  PROVE  a = h
BY DEF Counted

\* t is about to be stepped or finalized with the waiting lists w; `drop`
\* of its references go in the same step.
Ready(t, drop, w) ==
  /\ created[t] /\ ~finished[t] /\ pending_count[t] = 0
  /\ \A k \in Key : subreq_out[k] # t
  /\ w \in [Task -> Seq(Task)] /\ Unique(w)
  /\ \A x \in Task : x # t => (EnqIn(w, x) <=> Enqueued(x))
  /\ EnqIn(w, t) => Enqueued(t)
  /\ \A m \in Task : w[m] # <<>> => leading[m] /\ m # t
  /\ refs[t] - drop = One(primary[t]) + inflight[t] + One(registered[t])
                      + One(EnqIn(w, t)) + One(parked[t])

\* The C stack changes for no task but t, which leaves it if it was there.
StackStep(t) ==
  /\ call' \in [task : Task \cup {NoTask}, reply : BOOLEAN, encoded : BOOLEAN,
                then : {"none", "step", "finalize", "expire"}]
  /\ Stack'
  /\ call'.task # t
  /\ \A x \in Task : x # t => (call'.task = x <=> call.task = x)
  /\ call'.task # NoTask => call'.then = call.then

\* What else changes when a step ends in qr_task_finalize().
Leaves(t, w) ==
  /\ leading' = [leading EXCEPT ![t] = FALSE] /\ waiting' = w
  /\ garbled' \in [Task -> BOOLEAN]
  /\ UNCHANGED <<created, parked, old, io, subreq_out>>

\* A step that ends in qr_task_finalize() preserves the invariant.
LEMMA FinalizeInv ==
  ASSUME IInv, NEW t \in Task, NEW drop \in {0, 1}, NEW w,
         NEW open \in BOOLEAN, NEW high \in Int, NEW s \in [Task -> BOOLEAN],
         Ready(t, drop, w), StackStep(t),
         Finalize(t, drop, registered[t], open, high, s), Leaves(t, w)
  PROVE  IInv'
<1>1. TypeOK /\ TaskInv(t) /\ Table
  BY Zenon DEF IInv
<1>2. ~answering[t] /\ timer[t] = "off"
  BY SMTT(30), <1>1 DEF TaskInv, Ready
<1>3. /\ refs' \in [Task -> Int] /\ primary' \in [Task -> BOOLEAN]
      /\ rconcurrent' \in Int /\ rconcurrent_highwatermark' \in Int
      /\ too_many_open' \in BOOLEAN
      /\ source' \in [Task -> {"none", "udp", "tcp"}]
      /\ registered' \in [Task -> BOOLEAN]
      /\ answering' \in [Task -> BOOLEAN]
      /\ refs'[t] = refs[t] - drop - One(primary[t]) - One(registered[t])
           + One(primary'[t]) + One(answering'[t]) + One(registered'[t])
      /\ \A x \in Task : x # t =>
           /\ refs'[x] = refs[x] /\ primary'[x] = primary[x]
           /\ registered'[x] = registered[x]
           /\ answering'[x] = answering[x]
  <2>1. registered[t] \in BOOLEAN
    BY Zenon, <1>1 DEF TypeOK
  <2> QED
    BY <1>1, <1>2, <2>1, FinalizeEffect
<1>4. /\ finished' \in [Task -> BOOLEAN] /\ finished'[t]
      /\ leading' \in [Task -> BOOLEAN] /\ ~leading'[t]
      /\ key' \in [Task -> Key \cup {NoKey}]
      /\ \A x \in Task : x # t => /\ finished'[x] = finished[x]
                                  /\ leading'[x] = leading[x]
                                  /\ key'[x] = key[x]
  BY Zenon, <1>1 DEF Finalize, TypeOK, Leaves
<1>5. /\ secret' \in [Task -> BOOLEAN]
      /\ timeouts' \in [Task -> Nat]
      /\ iter_count' \in [Task -> 0 .. KR_ITER_LIMIT]
  BY <1>1, SubreqAssumption DEF Finalize, TypeOK
<1>6. TypeOK'
  BY Zenon, <1>1, <1>3, <1>4, <1>5 DEF TypeOK, Ready, StackStep, Leaves, io
<1>7. \A x \in Task : Enqueued(x)' <=> EnqIn(w, x)
  BY Zenon DEF Enqueued, Leaves
<1>8. ASSUME NEW x \in Task, x # t
      PROVE  TaskInv(x)'
  <2>1. TaskInv(x) /\ x # NoTask
    BY Zenon, SubreqAssumption DEF IInv
  <2>2. Same(x)
    BY Zenon, <1>3, <1>4, <1>7, <1>8, <2>1 DEF Same, Ready, StackStep, Leaves, io
  <2> QED
    BY Zenon, <2>1, <2>2, SameInv
<1>9. TaskInv(t)'
  <2>1. /\ refs[t] \in Int /\ inflight[t] \in Nat
        /\ primary[t] \in BOOLEAN /\ registered[t] \in BOOLEAN
    BY Zenon, <1>1 DEF TypeOK
  <2>2. /\ pending_count'[t] = 0 /\ inflight'[t] = inflight[t]
        /\ parked'[t] = parked[t] /\ timer'[t] = "off" /\ created'[t]
        /\ call'.task # t /\ waiting'[t] = <<>>
    BY Zenon, <1>2 DEF Ready, StackStep, Leaves, io
  <2>3. refs'[t] = Holders(t)'
    <3>1. refs[t] - drop = One(primary[t]) + inflight[t] + One(registered[t])
                           + One(EnqIn(w, t)) + One(parked[t])
      BY Zenon DEF Ready
    <3>2. Holders(t)' = One(primary'[t]) + 0 + inflight[t] + One(answering'[t])
                        + One(registered'[t]) + One(EnqIn(w, t)) + One(parked[t])
                        + 0
      BY Zenon, <1>7, <2>2 DEF Holders, One
    <3>3. /\ One(primary[t]) \in Int /\ One(registered[t]) \in Int
          /\ One(primary'[t]) \in Int /\ One(registered'[t]) \in Int
          /\ One(answering'[t]) \in Int /\ One(EnqIn(w, t)) \in Int
          /\ One(parked[t]) \in Int
      BY SMTT(30) DEF One
    <3>4. refs'[t] = inflight[t] + One(EnqIn(w, t)) + One(parked[t])
              + One(primary'[t]) + One(answering'[t]) + One(registered'[t])
      BY <1>3, <2>1, <3>1, <3>3
    <3> QED
      BY <2>1, <3>2, <3>3, <3>4
  <2>4. Enqueued(t)' => ~parked'[t]
    BY Zenon, <1>1, <1>7, <2>2 DEF Ready, TaskInv
  <2> QED
    BY <1>4, <2>2, <2>3, <2>4 DEF TaskInv
<1>10. Table'
  BY <1>1, <1>4 DEF Table, TypeOK, Ready, StackStep, Leaves
<1>11. Unique(waiting)' /\ Stack'
  BY Zenon DEF Ready, StackStep, Leaves
<1> QED
  BY Zenon, <1>6, <1>8, <1>9, <1>10, <1>11 DEF IInv

\* The rest of a step of t that does not finish it.
GoesOn(t) ==
  /\ iter_count' \in [Task -> 0 .. KR_ITER_LIMIT]
  /\ garbled' \in [Task -> BOOLEAN]
  /\ UNCHANGED <<created, timeouts>>

\* A step that ends in tcp_task_step() preserves the invariant.
LEMMA ParkInv ==
  ASSUME IInv, NEW t \in Task, NEW drop \in {0, 1}, NEW w,
         Ready(t, drop, w), ~EnqIn(w, t), ~parked[t], StackStep(t), GoesOn(t),
         NEW s \in [Task -> BOOLEAN], TcpTaskStep(t, drop, w, s)
  PROVE  IInv'
<1>1. TypeOK /\ TaskInv(t) /\ Table /\ \A x \in Task : x # NoTask
  BY Zenon, SubreqAssumption DEF IInv
<1>2. ~answering[t] /\ timer[t] = "off" /\ primary[t]
  <2>1. /\ created[t] /\ ~finished[t] /\ pending_count[t] = 0
        /\ created[t] /\ ~finished[t] => primary[t]
        /\ answering[t] => finished[t]
        /\ timer[t] # "off" => pending_count[t] > 0
    BY Zenon, <1>1 DEF TaskInv, Ready
  <2> QED
    BY Zenon, <2>1, FewAreInt
<1>3. /\ refs' \in [Task -> Int] /\ primary' \in [Task -> BOOLEAN]
      /\ rconcurrent' \in Int
      /\ refs'[t] = refs[t] + (1 - drop) /\ primary'[t] = primary[t]
      /\ \A x \in Task : x # t => refs'[x] = refs[x] /\ primary'[x] = primary[x]
  <2>1. primary[t] \in BOOLEAN /\ 1 - drop \in Int
    BY <1>1 DEF TypeOK
  <2> QED
    BY Zenon, <1>1, <2>1, ReferenceEffect DEF TcpTaskStep
<1>4. /\ parked' \in [Task -> BOOLEAN] /\ parked'[t]
      /\ leading' \in [Task -> BOOLEAN] /\ ~leading'[t]
      /\ \A x \in Task : x # t =>
           parked'[x] = parked[x] /\ leading'[x] = leading[x]
  BY Zenon, <1>1 DEF TypeOK, TcpTaskStep
<1>5. \A x \in Task : Enqueued(x)' <=> EnqIn(w, x)
  BY Zenon DEF Enqueued, TcpTaskStep
<1>6. /\ UNCHANGED <<created, finished, key, source, registered, answering, old, pending_count,
                    timer, inflight, subreq_out, rconcurrent_highwatermark, timeouts>>
      /\ waiting' = w
  BY Zenon DEF TcpTaskStep, GoesOn, io, client
<1>7. TypeOK'
  <2>1. /\ secret' \in [Task -> BOOLEAN] /\ too_many_open' = FALSE
        /\ iter_count' \in [Task -> 0 .. KR_ITER_LIMIT]
        /\ garbled' \in [Task -> BOOLEAN]
        /\ waiting' \in [Task -> Seq(Task)]
    BY Zenon DEF TcpTaskStep, GoesOn, Ready
  <2>2. call' \in [task : Task \cup {NoTask}, reply : BOOLEAN, encoded : BOOLEAN,
                   then : {"none", "step", "finalize", "expire"}]
    BY Zenon DEF StackStep
  <2> QED
    BY Zenon, <1>1, <1>3, <1>4, <1>5, <1>6, <2>1, <2>2 DEF TypeOK
<1>8. ASSUME NEW x \in Task, x # t
       PROVE  TaskInv(x)'
  <2>1. TaskInv(x)
    BY Zenon DEF IInv
  <2>2. /\ Enqueued(x)' <=> Enqueued(x)
        /\ waiting'[x] # <<>> => leading[x]
    BY Zenon, <1>5, <1>6, <1>8 DEF Ready
  <2>3. /\ call'.task = x <=> call.task = x
        /\ call.task = x => call'.then = call.then
    BY Zenon, <1>1, <1>8 DEF StackStep
  <2>4. leading[x] /\ subreq_out[key[x]] = x => subreq_out'[key[x]] = x
    BY Zenon, <1>1, <1>6, <2>1 DEF TaskInv
  <2>5. Same(x)
    BY Zenon, <1>3, <1>4, <1>5, <1>6, <1>8, <2>2, <2>3, <2>4 DEF Same
  <2> QED
    BY Zenon, <2>1, <2>5, SameInv
<1>9. TaskInv(t)'
  <2>1. refs[t] \in Int /\ inflight[t] \in Nat
    BY Zenon, <1>1 DEF TypeOK
  <2>2. /\ refs'[t] = refs[t] + 1 - drop /\ primary'[t] /\ primary[t]
        /\ ~leading'[t] /\ parked'[t] /\ ~Enqueued(t)' /\ waiting'[t] = <<>>
        /\ pending_count'[t] = 0 /\ inflight'[t] = inflight[t]
        /\ registered'[t] = registered[t] /\ ~answering'[t]
        /\ timer'[t] = "off" /\ created'[t] /\ ~finished'[t]
        /\ call'.task # t
    BY Zenon, <1>2, <1>3, <1>4, <1>5, <1>6, <2>1 DEF Ready, StackStep
  <2>3. refs'[t] = Holders(t)'
    <3>1. refs[t] - drop = One(primary[t]) + inflight[t] + One(registered[t])
                           + 0 + 0
      BY Zenon DEF Ready, One
    <3>2. Holders(t)' = One(primary[t]) + 0 + inflight[t] + 0
                        + One(registered[t]) + 0 + 1 + 0
      BY Zenon, <2>2 DEF Holders, One
    <3>3. One(primary[t]) \in Int /\ One(registered[t]) \in Int /\ drop \in Int
      BY Zenon, FewAreInt
    <3>4. PICK p \in Int, i \in Nat, r \in Int, c \in Int, d \in Int :
            /\ p = One(primary[t]) /\ i = inflight[t] /\ r = One(registered[t])
            /\ c = refs[t] /\ d = drop
      BY Zenon, <2>1, <3>3
    <3>5. /\ c - d = p + i + r + 0 + 0
          /\ refs'[t] = c + 1 - d
          /\ Holders(t)' = p + 0 + i + 0 + r + 0 + 1 + 0
      BY Zenon, <2>2, <3>1, <3>2, <3>4
    <3>6. Counted(p, i, r, c, d, refs'[t], Holders(t)')
      BY Zenon, <3>5 DEF Counted
    <3> QED
      BY Zenon, <3>6, SumsUp
  <2>4. ~(pending_count'[t] > 0)
    <3>1. pending_count'[t] = 0
      BY Zenon, <2>2
    <3> QED
      BY Zenon, <3>1, FewAreInt
  <2> QED
    BY Zenon, <2>2, <2>3, <2>4 DEF TaskInv
<1>10. Table'
  <2> SUFFICES ASSUME NEW j \in Key, subreq_out'[j] # NoTask
               PROVE  /\ leading'[subreq_out'[j]] /\ key'[subreq_out'[j]] = j
                      /\ call'.task # subreq_out'[j]
    BY Zenon DEF Table
  <2>1. subreq_out'[j] = subreq_out[j] /\ subreq_out[j] \in Task
    BY Zenon, <1>1, <1>6 DEF TypeOK
  <2>2. /\ subreq_out[j] # t /\ leading[subreq_out[j]]
        /\ key[subreq_out[j]] = j /\ call.task # subreq_out[j]
    BY Zenon, <1>1, <2>1 DEF Table, Ready
  <2> QED
    BY Zenon, <1>4, <1>6, <2>1, <2>2 DEF StackStep
<1>11. Unique(waiting)' /\ Stack'
  BY Zenon, <1>6 DEF Ready, StackStep
<1> QED
  BY Zenon, <1>7, <1>8, <1>9, <1>10, <1>11 DEF IInv

\* A step that ends in subreq_enqueue() preserves the invariant.
LEMMA EnqueueInv ==
  ASSUME IInv, NEW t \in Task, NEW drop \in {0, 1}, NEW w,
         Ready(t, drop, w), ~EnqIn(w, t), ~parked[t], StackStep(t), GoesOn(t),
         NEW s \in [Task -> BOOLEAN], NEW k \in Key,
         UdpTaskStep(t, k, drop, w, s), SubreqEnqueue(t, k, drop, w, s)
  PROVE  IInv'
<1>1. TypeOK /\ TaskInv(t) /\ Table /\ \A x \in Task : x # NoTask
  BY Zenon, SubreqAssumption DEF IInv
<1>2. ~answering[t] /\ timer[t] = "off" /\ primary[t]
  <2>1. /\ created[t] /\ ~finished[t] /\ pending_count[t] = 0
        /\ created[t] /\ ~finished[t] => primary[t]
        /\ answering[t] => finished[t]
        /\ timer[t] # "off" => pending_count[t] > 0
    BY Zenon, <1>1 DEF TaskInv, Ready
  <2> QED
    BY Zenon, <2>1, FewAreInt
<1>3. /\ refs' \in [Task -> Int] /\ primary' \in [Task -> BOOLEAN]
      /\ rconcurrent' \in Int
      /\ refs'[t] = refs[t] + (1 - drop) /\ primary'[t] = primary[t]
      /\ \A x \in Task : x # t => refs'[x] = refs[x] /\ primary'[x] = primary[x]
  <2>1. primary[t] \in BOOLEAN /\ 1 - drop \in Int
    BY <1>1 DEF TypeOK
  <2> QED
    BY Zenon, <1>1, <2>1, ReferenceEffect DEF SubreqEnqueue
<1>4. /\ key' \in [Task -> Key \cup {NoKey}] /\ key'[t] = k
      /\ leading' \in [Task -> BOOLEAN] /\ ~leading'[t]
      /\ \A x \in Task : x # t => key'[x] = key[x] /\ leading'[x] = leading[x]
  BY Zenon, <1>1 DEF TypeOK, UdpTaskStep, SubreqEnqueue
<1>5. /\ waiting' \in [Task -> Seq(Task)]
      /\ Unique(waiting')
      /\ \A x : Enqueued(x)' <=> EnqIn(w, x) \/ x = t
      /\ \A m \in Task : waiting'[m] # <<>> => leading[m] /\ m # t
  <2>1. subreq_out[k] \in Task /\ leading[subreq_out[k]] /\ subreq_out[k] # t
    BY Zenon, <1>1 DEF TypeOK, Table, Ready, SubreqEnqueue
  <2>2. w \in [Task -> Seq(Task)] /\ Unique(w)
    BY Zenon DEF Ready
  <2>3. /\ waiting' \in [Task -> Seq(Task)]
        /\ Unique(waiting')
        /\ \A x : EnqIn(waiting', x) <=> EnqIn(w, x) \/ x = t
        /\ \A m \in Task : waiting'[m] # <<>> => w[m] # <<>> \/ m = subreq_out[k]
    BY Zenon, <2>1, <2>2, OneMore DEF SubreqEnqueue
  <2> QED
    BY Zenon, <2>1, <2>3 DEF Enqueued, Ready
<1>6. /\ UNCHANGED <<created, finished, parked, source, registered, answering, old, pending_count,
                    timer, inflight, subreq_out, rconcurrent_highwatermark, timeouts>>
  BY Zenon DEF UdpTaskStep, SubreqEnqueue, GoesOn, io, client
<1>7. TypeOK'
  <2>1. /\ secret' \in [Task -> BOOLEAN] /\ too_many_open' = FALSE
        /\ iter_count' \in [Task -> 0 .. KR_ITER_LIMIT]
        /\ garbled' \in [Task -> BOOLEAN]
        /\ waiting' \in [Task -> Seq(Task)]
    BY Zenon, <1>5 DEF UdpTaskStep, SubreqEnqueue, GoesOn, Ready
  <2>2. call' \in [task : Task \cup {NoTask}, reply : BOOLEAN, encoded : BOOLEAN,
                   then : {"none", "step", "finalize", "expire"}]
    BY Zenon DEF StackStep
  <2> QED
    BY Zenon, <1>1, <1>3, <1>4, <1>5, <1>6, <2>1, <2>2 DEF TypeOK
<1>8. ASSUME NEW x \in Task, x # t
       PROVE  TaskInv(x)'
  <2>1. TaskInv(x)
    BY Zenon DEF IInv
  <2>2. /\ Enqueued(x)' <=> Enqueued(x)
        /\ waiting'[x] # <<>> => leading[x]
    BY Zenon, <1>5, <1>6, <1>8 DEF Ready
  <2>3. /\ call'.task = x <=> call.task = x
        /\ call.task = x => call'.then = call.then
    BY Zenon, <1>1, <1>8 DEF StackStep
  <2>4. leading[x] /\ subreq_out[key[x]] = x => subreq_out'[key[x]] = x
    BY Zenon, <1>1, <1>6, <2>1 DEF TaskInv
  <2>5. Same(x)
    BY Zenon, <1>3, <1>4, <1>5, <1>6, <1>8, <2>2, <2>3, <2>4 DEF Same
  <2> QED
    BY Zenon, <2>1, <2>5, SameInv
<1>9. TaskInv(t)'
  <2>1. refs[t] \in Int /\ inflight[t] \in Nat
    BY Zenon, <1>1 DEF TypeOK
  <2>2. /\ refs'[t] = refs[t] + 1 - drop /\ primary'[t] /\ primary[t]
        /\ ~leading'[t] /\ ~parked'[t] /\ Enqueued(t)' /\ waiting'[t] = <<>>
        /\ pending_count'[t] = 0 /\ inflight'[t] = inflight[t]
        /\ registered'[t] = registered[t] /\ ~answering'[t]
        /\ timer'[t] = "off" /\ created'[t] /\ ~finished'[t]
        /\ call'.task # t
    BY Zenon, <1>2, <1>3, <1>4, <1>5, <1>6, <2>1 DEF Ready, StackStep
  <2>3. refs'[t] = Holders(t)'
    <3>1. refs[t] - drop = One(primary[t]) + inflight[t] + One(registered[t])
                           + 0 + 0
      BY Zenon DEF Ready, One
    <3>2. Holders(t)' = One(primary[t]) + 0 + inflight[t] + 0
                        + One(registered[t]) + 1 + 0 + 0
      BY Zenon, <2>2 DEF Holders, One
    <3>3. One(primary[t]) \in Int /\ One(registered[t]) \in Int /\ drop \in Int
      BY Zenon, FewAreInt
    <3>4. PICK p \in Int, i \in Nat, r \in Int, c \in Int, d \in Int :
            /\ p = One(primary[t]) /\ i = inflight[t] /\ r = One(registered[t])
            /\ c = refs[t] /\ d = drop
      BY Zenon, <2>1, <3>3
    <3>5. /\ c - d = p + i + r + 0 + 0
          /\ refs'[t] = c + 1 - d
          /\ Holders(t)' = p + 0 + i + 0 + r + 1 + 0 + 0
      BY Zenon, <2>2, <3>1, <3>2, <3>4
    <3>6. Counted(p, i, r, c, d, refs'[t], Holders(t)')
      BY Zenon, <3>5 DEF Counted
    <3> QED
      BY Zenon, <3>6, SumsUp
  <2>4. ~(pending_count'[t] > 0)
    <3>1. pending_count'[t] = 0
      BY Zenon, <2>2
    <3> QED
      BY Zenon, <3>1, FewAreInt
  <2> QED
    BY Zenon, <2>2, <2>3, <2>4 DEF TaskInv
<1>10. Table'
  <2> SUFFICES ASSUME NEW j \in Key, subreq_out'[j] # NoTask
               PROVE  /\ leading'[subreq_out'[j]] /\ key'[subreq_out'[j]] = j
                      /\ call'.task # subreq_out'[j]
    BY Zenon DEF Table
  <2>1. subreq_out'[j] = subreq_out[j] /\ subreq_out[j] \in Task
    BY Zenon, <1>1, <1>6 DEF TypeOK
  <2>2. /\ subreq_out[j] # t /\ leading[subreq_out[j]]
        /\ key[subreq_out[j]] = j /\ call.task # subreq_out[j]
    BY Zenon, <1>1, <2>1 DEF Table, Ready
  <2> QED
    BY Zenon, <1>4, <1>6, <2>1, <2>2 DEF StackStep
<1>11. Unique(waiting)' /\ Stack'
  BY Zenon, <1>5 DEF Ready, StackStep
<1> QED
  BY Zenon, <1>7, <1>8, <1>9, <1>10, <1>11 DEF IInv

\* A step that ends in retransmit() and subreq_lead() preserves the invariant.
LEMMA LeadInv ==
  ASSUME IInv, NEW t \in Task, NEW drop \in {0, 1}, NEW w,
         Ready(t, drop, w), ~EnqIn(w, t), ~parked[t], StackStep(t), GoesOn(t),
         NEW s \in [Task -> BOOLEAN], NEW k \in Key,
         UdpTaskStep(t, k, drop, w, s), SubreqLead(t, k, drop, w, s)
  PROVE  IInv'
<1>1. TypeOK /\ TaskInv(t) /\ Table /\ \A x \in Task : x # NoTask
  BY Zenon, SubreqAssumption DEF IInv
<1>2. ~answering[t] /\ timer[t] = "off" /\ primary[t]
  <2>1. /\ created[t] /\ ~finished[t] /\ pending_count[t] = 0
        /\ created[t] /\ ~finished[t] => primary[t]
        /\ answering[t] => finished[t]
        /\ timer[t] # "off" => pending_count[t] > 0
    BY Zenon, <1>1 DEF TaskInv, Ready
  <2> QED
    BY Zenon, <2>1, FewAreInt
<1>3. /\ refs' \in [Task -> Int] /\ primary' \in [Task -> BOOLEAN]
      /\ rconcurrent' \in Int
      /\ refs'[t] = refs[t] + (2 - drop) /\ primary'[t] = primary[t]
      /\ \A x \in Task : x # t => refs'[x] = refs[x] /\ primary'[x] = primary[x]
  <2>1. primary[t] \in BOOLEAN /\ 2 - drop \in Int
    BY <1>1 DEF TypeOK
  <2> QED
    BY <1>1, <2>1, ReferenceEffect DEF SubreqLead
<1>4. /\ key' \in [Task -> Key \cup {NoKey}] /\ key'[t] = k
      /\ leading' \in [Task -> BOOLEAN] /\ leading'[t]
      /\ \A x \in Task : x # t => key'[x] = key[x] /\ leading'[x] = leading[x]
  BY Zenon, <1>1 DEF TypeOK, UdpTaskStep, SubreqLead
<1>5. \A x \in Task : Enqueued(x)' <=> EnqIn(w, x)
  BY Zenon DEF Enqueued, SubreqLead
<1>6. /\ pending_count'[t] = 1 /\ inflight'[t] = inflight[t] + 1
      /\ timer'[t] = "on_retransmit" /\ subreq_out'[k] = t
      /\ \A x \in Task : x # t =>
           /\ pending_count'[x] = pending_count[x] /\ timer'[x] = timer[x]
           /\ inflight'[x] = inflight[x]
      /\ \A j \in Key : j # k => subreq_out'[j] = subreq_out[j]
  BY <1>1 DEF TypeOK, SubreqLead
<1>7. /\ pending_count' \in [Task -> 0 .. MAX_PENDING]
      /\ inflight' \in [Task -> Nat]
      /\ timer' \in [Task -> {"off", "on_retransmit", "on_udp_timeout"}]
      /\ subreq_out' \in [Key -> Task \cup {NoTask}]
  BY SMTT(30), <1>1, SubreqAssumption DEF TypeOK, SubreqLead
<1>8. /\ UNCHANGED <<created, finished, parked, source, registered, answering, old,
                    rconcurrent_highwatermark, timeouts>>
      /\ waiting' = w
  BY Zenon DEF UdpTaskStep, SubreqLead, GoesOn, io, client
<1>9. TypeOK'
  <2>1. /\ secret' \in [Task -> BOOLEAN] /\ too_many_open' = FALSE
        /\ iter_count' \in [Task -> 0 .. KR_ITER_LIMIT]
        /\ garbled' \in [Task -> BOOLEAN]
        /\ waiting' \in [Task -> Seq(Task)]
    BY Zenon DEF UdpTaskStep, SubreqLead, GoesOn, Ready
  <2>2. call' \in [task : Task \cup {NoTask}, reply : BOOLEAN, encoded : BOOLEAN,
                   then : {"none", "step", "finalize", "expire"}]
    BY Zenon DEF StackStep
  <2> QED
    BY Zenon, <1>1, <1>3, <1>4, <1>8, <1>7, <2>1, <2>2 DEF TypeOK
<1>10. ASSUME NEW x \in Task, x # t
       PROVE  TaskInv(x)'
  <2>1. TaskInv(x)
    BY Zenon DEF IInv
  <2>2. /\ Enqueued(x)' <=> Enqueued(x)
        /\ waiting'[x] # <<>> => leading[x]
    BY Zenon, <1>5, <1>8, <1>10 DEF Ready
  <2>3. /\ call'.task = x <=> call.task = x
        /\ call.task = x => call'.then = call.then
    BY Zenon, <1>1, <1>10 DEF StackStep
  <2>4. leading[x] /\ subreq_out[key[x]] = x => subreq_out'[key[x]] = x
    <3>1. leading[x] => key[x] \in Key
      BY Zenon, <2>1 DEF TaskInv
    <3>2. subreq_out[k] = NoTask
      BY Zenon DEF SubreqLead
    <3> QED
      BY Zenon, <1>1, <1>6, <3>1, <3>2
  <2>5. Same(x)
    BY Zenon, <1>3, <1>4, <1>5, <1>6, <1>8, <1>10, <2>2, <2>3, <2>4 DEF Same
  <2> QED
    BY Zenon, <2>1, <2>5, SameInv
<1>11. TaskInv(t)'
  <2>1. refs[t] \in Int /\ inflight[t] \in Nat
    BY Zenon, <1>1 DEF TypeOK
  <2>2. /\ refs'[t] = refs[t] + 2 - drop /\ primary'[t] /\ primary[t]
        /\ leading'[t] /\ ~parked'[t] /\ ~Enqueued(t)' /\ waiting'[t] = <<>>
        /\ pending_count'[t] = 1 /\ inflight'[t] = inflight[t] + 1
        /\ registered'[t] = registered[t] /\ ~answering'[t]
        /\ timer'[t] # "off" /\ created'[t] /\ ~finished'[t]
        /\ call'.task # t /\ key'[t] \in Key /\ subreq_out'[key'[t]] = t
    BY Zenon, <1>2, <1>3, <1>4, <1>5, <1>6, <1>8, <2>1 DEF Ready, StackStep
  <2>3. refs'[t] = Holders(t)'
    <3>1. refs[t] - drop = One(primary[t]) + inflight[t] + One(registered[t])
                           + 0 + 0
      BY Zenon DEF Ready, One
    <3>2. Holders(t)' = One(primary[t]) + 1 + (inflight[t] + 1) + 0
                        + One(registered[t]) + 0 + 0 + 0
      BY Zenon, <2>2 DEF Holders, One
    <3>3. One(primary[t]) \in Int /\ One(registered[t]) \in Int /\ drop \in Int
      BY Zenon, FewAreInt
    <3>4. PICK p \in Int, i \in Nat, r \in Int, c \in Int, d \in Int :
            /\ p = One(primary[t]) /\ i = inflight[t] /\ r = One(registered[t])
            /\ c = refs[t] /\ d = drop
      BY Zenon, <2>1, <3>3
    <3>5. /\ c - d = p + i + r + 0 + 0
          /\ refs'[t] = c + 2 - d
          /\ Holders(t)' = p + 1 + (i + 1) + 0 + r + 0 + 0 + 0
      BY Zenon, <2>2, <3>1, <3>2, <3>4
    <3>6. Counted(p, i, r, c, d, refs'[t], Holders(t)')
      BY Zenon, <3>5 DEF Counted
    <3> QED
      BY Zenon, <3>6, SumsUp
  <2>4. pending_count'[t] > 0
    <3>1. pending_count'[t] = 1
      BY Zenon, <2>2
    <3> QED
      BY Zenon, <3>1, FewAreInt
  <2> QED
    BY Zenon, <2>2, <2>3, <2>4 DEF TaskInv
<1>12. Table'
  <2> SUFFICES ASSUME NEW j \in Key, subreq_out'[j] # NoTask
               PROVE  /\ leading'[subreq_out'[j]] /\ key'[subreq_out'[j]] = j
                      /\ call'.task # subreq_out'[j]
    BY Zenon DEF Table
  <2>1. CASE j = k
    BY Zenon, <1>4, <1>6, <2>1 DEF StackStep
  <2>2. CASE j # k
    <3>1. subreq_out'[j] = subreq_out[j] /\ subreq_out[j] \in Task
      BY Zenon, <1>1, <1>6, <2>2 DEF TypeOK
    <3>2. /\ subreq_out[j] # t /\ leading[subreq_out[j]]
          /\ key[subreq_out[j]] = j /\ call.task # subreq_out[j]
      BY Zenon, <1>1, <3>1 DEF Table, Ready
    <3> QED
      BY Zenon, <1>4, <3>1, <3>2 DEF StackStep
  <2> QED
    BY Zenon, <2>1, <2>2
<1>13. Unique(waiting)' /\ Stack'
  BY Zenon, <1>8 DEF Ready, StackStep
<1> QED
  BY Zenon, <1>9, <1>10, <1>11, <1>12, <1>13 DEF IInv

\* Whatever a step of a ready task ends in, it preserves the invariant.
LEMMA WorkInv ==
  ASSUME IInv, NEW t \in Task, NEW drop \in {0, 1}, NEW w,
         NEW s \in [Task -> BOOLEAN],
         Ready(t, drop, w), ~EnqIn(w, t), ~parked[t], StackStep(t),
         Work(t, drop, registered[t], w, s),
         garbled' \in [Task -> BOOLEAN], UNCHANGED created
  PROVE  IInv'
<1>1. TypeOK
  BY Zenon DEF IInv
<1> DEFINE Finalizes(open, high) ==
      /\ Finalize(t, drop, registered[t], open, high, s)
      /\ leading' = [leading EXCEPT ![t] = FALSE]
      /\ waiting' = w
      /\ UNCHANGED <<parked, old, io, subreq_out>>
<1>2. ASSUME NEW open \in BOOLEAN, NEW high \in Int, Finalizes(open, high)
      PROVE  IInv'
  BY Zenon, <1>2, FinalizeInv DEF Leaves
<1>3. ASSUME NEW n \in (iter_count[t] + 1) .. KR_ITER_LIMIT,
             iter_count' = [iter_count EXCEPT ![t] = n],
             UNCHANGED timeouts
      PROVE  GoesOn(t)
  BY <1>1, <1>3, SubreqAssumption DEF TypeOK, GoesOn
<1>4. ASSUME NEW k \in Key, UdpTaskStep(t, k, drop, w, s), GoesOn(t)
      PROVE  IInv'
  BY Zenon, <1>4, EnqueueInv, LeadInv DEF UdpTaskStep
<1>5. ASSUME TcpTaskStep(t, drop, w, s), GoesOn(t)
      PROVE  IInv'
  BY Zenon, <1>5, ParkInv
<1>6. rconcurrent \in Int /\ rconcurrent_highwatermark \in Int
      /\ too_many_open \in BOOLEAN
  BY Zenon, <1>1 DEF TypeOK
<1>7. CASE Finalizes(too_many_open /\ (old[t] \/ Refused(t)),
                     rconcurrent_highwatermark)
  <2>1. (too_many_open /\ (old[t] \/ Refused(t))) \in BOOLEAN
    OBVIOUS
  <2> QED
    BY Zenon, <1>2, <1>6, <1>7, <2>1
<1>8. CASE \E k \in Key : UdpTaskFails(t, k, drop, registered[t], w, s)
  <2>1. Finalizes(TRUE, rconcurrent) \/ Finalizes(FALSE, rconcurrent_highwatermark)
    BY Zenon, <1>8 DEF UdpTaskFails
  <2> QED
    BY Zenon, <1>2, <1>6, <2>1
<1>9. CASE TcpTaskFails(t, drop, registered[t], w, s)
  <2>1. Finalizes(TRUE, rconcurrent)
    BY Zenon, <1>9 DEF TcpTaskFails
  <2> QED
    BY Zenon, <1>2, <1>6, <2>1
<1>10. CASE /\ \E n \in (iter_count[t] + 1) .. KR_ITER_LIMIT :
                 iter_count' = [iter_count EXCEPT ![t] = n]
            /\ \/ \E k \in Key : UdpTaskStep(t, k, drop, w, s)
               \/ TcpTaskStep(t, drop, w, s)
            /\ UNCHANGED timeouts
  <2>1. GoesOn(t)
    BY Zenon, <1>3, <1>10
  <2> QED
    BY Zenon, <1>4, <1>5, <1>10, <2>1
<1> QED
  BY Zenon, <1>7, <1>8, <1>9, <1>10 DEF Work

\* One turn of the loop of subreq_finalize() preserves the invariant.
LEMMA NotifyInv ==
  ASSUME IInv, Notify
  PROVE  IInv'
<1>1. TypeOK /\ Table /\ Unique(waiting)
  BY Zenon DEF IInv
<1>2. PICK lead \in Task :
        /\ call.task = lead /\ waiting[lead] # <<>> /\ TaskInv(lead)
        /\ call.then \in {"step", "finalize", "expire"}
  BY Zenon DEF IInv, Notify, Stack, Idle
<1>3. waiting \in [Task -> Seq(Task)]
  BY Zenon, <1>1 DEF TypeOK
<1>4. /\ waiting[lead][Len(waiting[lead])] \in Task
      /\ LET f == waiting[lead][Len(waiting[lead])]
             v == [waiting EXCEPT ![lead] = SubSeq(@, 1, Len(@) - 1)]
         IN  /\ Enqueued(f)
             /\ v \in [Task -> Seq(Task)]
             /\ Unique(v)
             /\ \A x : EnqIn(v, x) <=> Enqueued(x) /\ x # f
             /\ \A m \in Task : v[m] # <<>> => waiting[m] # <<>>
  BY <1>1, <1>2, <1>3, LastOut, Zenon DEF Enqueued
<1>5. PICK f \in Task : f = waiting[lead][Len(waiting[lead])]
  BY Zenon, <1>4
<1> DEFINE w == [waiting EXCEPT ![lead] = SubSeq(@, 1, Len(@) - 1)]
           s == HandOver(lead, f)
<1>6. /\ Enqueued(f)
      /\ w \in [Task -> Seq(Task)]
      /\ Unique(w)
      /\ \A x : EnqIn(w, x) <=> Enqueued(x) /\ x # f
      /\ \A m \in Task : w[m] # <<>> => waiting[m] # <<>>
  BY Zenon, <1>4, <1>5
<1>7. TaskInv(f)
  BY Zenon, <1>6 DEF IInv
<1>8. f # lead /\ ~leading[f] /\ ~parked[f] /\ created[f]
  BY Zenon, <1>2, <1>6, <1>7 DEF TaskInv
<1>9. s \in [Task -> BOOLEAN]
  BY Zenon, <1>1 DEF TypeOK, HandOver
<1>10. garbled' \in [Task -> BOOLEAN] /\ UNCHANGED created
  BY Zenon, <1>1 DEF TypeOK, Notify
<1>11. StackStep(f)
  <2>1. PICK b \in BOOLEAN : call' = [call EXCEPT !.encoded = b]
    BY Zenon DEF Notify
  <2>2. /\ call' \in [task : Task \cup {NoTask}, reply : BOOLEAN, encoded : BOOLEAN,
                      then : {"none", "step", "finalize", "expire"}]
        /\ call'.task = call.task /\ call'.then = call.then
    BY Zenon, <1>1, <2>1 DEF TypeOK
  <2> QED
    BY Zenon, <1>2, <1>8, <2>2 DEF StackStep, Stack
<1> HIDE DEF w, s
<1>12. CASE ~finished[f] /\ Work(f, 1, registered[f], w, s)
  <2>1. /\ refs[f] \in Int /\ inflight[f] \in Nat /\ pending_count[f] \in Nat
        /\ primary[f] \in BOOLEAN /\ registered[f] \in BOOLEAN
    <3>1. /\ refs[f] \in Int /\ inflight[f] \in Nat
          /\ pending_count[f] \in 0 .. MAX_PENDING
          /\ primary[f] \in BOOLEAN /\ registered[f] \in BOOLEAN
      BY Zenon, <1>1 DEF TypeOK
    <3>2. pending_count[f] \in Nat
      BY <3>1
    <3> QED
      BY Zenon, <3>1, <3>2
  <2>2. ~answering[f] /\ ~parked[f] /\ pending_count[f] = 0 /\ ~EnqIn(w, f)
    <3>1. ~answering[f] /\ ~EnqIn(w, f) /\ ~(pending_count[f] > 0)
      BY Zenon, <1>6, <1>7, <1>8, <1>12 DEF TaskInv
    <3>2. pending_count[f] = 0
      BY <2>1, <3>1
    <3> QED
      BY Zenon, <1>8, <3>1, <3>2
  <2>3. refs[f] - 1 = One(primary[f]) + inflight[f] + One(registered[f])
                      + One(EnqIn(w, f)) + One(parked[f])
    <3>1. refs[f] = Holders(f) /\ call.task # f
      BY Zenon, <1>2, <1>7, <1>8 DEF TaskInv
    <3>2. Holders(f) = One(primary[f]) + 0 + inflight[f] + 0
                       + One(registered[f]) + 1 + 0 + 0
      BY Zenon, <1>6, <2>2, <3>1 DEF Holders, One
    <3>3. One(EnqIn(w, f)) = 0 /\ One(parked[f]) = 0
      BY Zenon, <2>2 DEF One
    <3>4. One(primary[f]) \in Int /\ One(registered[f]) \in Int
      BY DEF One
    <3> QED
      BY <2>1, <3>1, <3>2, <3>3, <3>4
  <2>4. \A k \in Key : subreq_out[k] # f
    BY <1>1, <1>6, <1>8, SubreqAssumption DEF Table
  <2>5. \A m \in Task : w[m] # <<>> => leading[m] /\ m # f
    <3> SUFFICES ASSUME NEW m \in Task, w[m] # <<>>
                 PROVE  leading[m] /\ m # f
      OBVIOUS
    <3>1. TaskInv(m) /\ waiting[m] # <<>>
      BY Zenon, <1>6 DEF IInv
    <3> QED
      BY Zenon, <1>8, <3>1 DEF TaskInv
  <2>6. Ready(f, 1, w)
    BY Zenon, <1>6, <1>8, <1>12, <2>2, <2>3, <2>4, <2>5 DEF Ready
  <2> QED
    BY Zenon, <1>6, <1>8, <1>9, <1>10, <1>11, <1>12, <2>6, WorkInv
<1>13. CASE /\ finished[f]
            /\ Reference(f, -1, primary[f])
            /\ waiting' = w
            /\ secret' = s
            /\ UNCHANGED <<finished, leading, key, timeouts, iter_count,
                           parked, client, io, subreq_out, load>>
  <2>1. /\ refs' \in [Task -> Int] /\ primary' \in [Task -> BOOLEAN]
        /\ rconcurrent' \in Int
        /\ refs'[f] = refs[f] + (-1) /\ primary'[f] = primary[f]
        /\ \A x \in Task : x # f => refs'[x] = refs[x] /\ primary'[x] = primary[x]
    <3>1. primary[f] \in BOOLEAN /\ -1 \in Int
      BY <1>1, <1>6 DEF TypeOK
    <3> QED
      BY Zenon, <1>1, <1>6, <1>13, <3>1, ReferenceEffect
  <2>2. UNCHANGED <<finished, leading, key, timeouts, iter_count, parked, source,
          registered, answering, old, pending_count, timer, inflight, subreq_out,
          too_many_open, rconcurrent_highwatermark>>
    BY Zenon, <1>13 DEF client, io, load
  <2>3. call' \in [task : Task \cup {NoTask}, reply : BOOLEAN, encoded : BOOLEAN,
                   then : {"none", "step", "finalize", "expire"}]
    BY Zenon, <1>11 DEF StackStep
  <2>4. TypeOK'
    <3>1. waiting' \in [Task -> Seq(Task)] /\ secret' \in [Task -> BOOLEAN]
      BY Zenon, <1>6, <1>9, <1>13
    <3> QED
      BY Zenon, <1>1, <1>10, <2>1, <2>2, <2>3, <3>1 DEF TypeOK
  <2>5. \A x : Enqueued(x)' <=> Enqueued(x) /\ x # f
    BY Zenon, <1>6, <1>13 DEF Enqueued
  <2>6. \A m \in Task : waiting'[m] # <<>> => leading[m] /\ waiting[m] # <<>>
    <3> SUFFICES ASSUME NEW m \in Task, waiting'[m] # <<>>
                 PROVE  leading[m] /\ waiting[m] # <<>>
      OBVIOUS
    <3>1. TaskInv(m) /\ waiting[m] # <<>>
      BY Zenon, <1>6, <1>13 DEF IInv
    <3> QED
      BY Zenon, <3>1 DEF TaskInv
  <2>7. ASSUME NEW x \in Task, x # f
        PROVE  TaskInv(x)'
    <3>1. TaskInv(x)
      BY Zenon DEF IInv
    <3>2. /\ call'.task = x <=> call.task = x
          /\ call.task = x => call'.then = call.then
      BY Zenon, <2>7, <1>11, SubreqAssumption DEF StackStep
    <3>3. Same(x)
      BY Zenon, <1>10, <2>1, <2>2, <2>5, <2>6, <2>7, <3>2 DEF Same
    <3> QED
      BY Zenon, <3>1, <3>3, SameInv
  <2>8. TaskInv(f)'
    <3>1. /\ refs[f] \in Int /\ inflight[f] \in Nat /\ pending_count[f] \in Nat
      BY <1>1, <1>6 DEF TypeOK
    <3>2. call.task # f /\ call'.task # f /\ refs'[f] = refs[f] - 1
      BY Zenon, <1>2, <1>8, <1>11, <2>1, <3>1 DEF StackStep
    <3>3. ~Enqueued(f)' /\ waiting'[f] = <<>>
      BY Zenon, <1>6, <1>8, <2>5, <2>6
    <3>4. refs'[f] = Holders(f)'
      <4>1. refs[f] = Holders(f)
        BY Zenon, <1>7 DEF TaskInv
      <4>2. /\ primary'[f] = primary[f] /\ registered'[f] = registered[f]
            /\ answering'[f] = answering[f] /\ parked'[f] = parked[f]
            /\ pending_count'[f] = pending_count[f] /\ inflight'[f] = inflight[f]
            /\ Enqueued(f)
        BY Zenon, <1>6, <2>1, <2>2
      <4> QED
        BY SMTT(30), <3>1, <3>2, <3>3, <4>1, <4>2 DEF Holders, One
    <3> QED
      BY Zenon, <1>7, <1>8, <1>10, <1>13, <2>1, <2>2, <3>1, <3>2, <3>3, <3>4 DEF TaskInv
  <2>9. Table'
    <3> SUFFICES ASSUME NEW k \in Key, subreq_out'[k] # NoTask
                 PROVE  /\ leading'[subreq_out'[k]] /\ key'[subreq_out'[k]] = k
                        /\ call'.task # subreq_out'[k]
      BY Zenon DEF Table
    <3>1. /\ subreq_out[k] \in Task /\ leading[subreq_out[k]]
          /\ key[subreq_out[k]] = k /\ call.task # subreq_out[k]
      BY <1>1, <2>2 DEF Table, TypeOK
    <3> QED
      BY Zenon, <1>8, <1>11, <2>2, <3>1 DEF StackStep
  <2>10. Unique(waiting)' /\ Stack'
    BY Zenon, <1>6, <1>11, <1>13 DEF StackStep
  <2> QED
    BY Zenon, <2>4, <2>7, <2>8, <2>9, <2>10 DEF IInv
<1> QED
  BY Zenon, <1>2, <1>5, <1>12, <1>13 DEF Notify, w, s

\* The end of the loop of subreq_finalize(), and the rest of the leader's step,
\* preserve the invariant.
LEMMA ReturnInv ==
  ASSUME IInv, Return
  PROVE  IInv'
<1>1. TypeOK /\ Table /\ Unique(waiting)
  BY Zenon DEF IInv
<1>2. PICK t \in Task :
        /\ call.task = t /\ waiting[t] = <<>> /\ TaskInv(t)
        /\ call.then \in {"step", "finalize", "expire"}
  BY Zenon DEF IInv, Return, Stack, Idle
<1>3. garbled' \in [Task -> BOOLEAN] /\ UNCHANGED created
  BY Zenon, <1>1 DEF TypeOK, Return
<1>4. StackStep(t)
  BY Zenon, <1>2, SubreqAssumption DEF StackStep, Stack, NoCall, Return
<1>5. /\ refs[t] \in Int /\ inflight[t] \in Nat /\ pending_count[t] \in Nat
      /\ primary[t] \in BOOLEAN /\ registered[t] \in BOOLEAN
      /\ secret \in [Task -> BOOLEAN] /\ too_many_open \in BOOLEAN
      /\ rconcurrent_highwatermark \in Int /\ waiting \in [Task -> Seq(Task)]
  BY <1>1, <1>2 DEF TypeOK
<1>6. /\ created[t] /\ ~finished[t] /\ ~answering[t] /\ pending_count[t] = 0
      /\ call.then = "step" => ~parked[t] /\ ~Enqueued(t)
      /\ call.then = "expire" => ~registered[t]
  BY Zenon, <1>2 DEF TaskInv
<1>7. Ready(t, One(call.then = "expire"), waiting)
  <2>1. refs[t] - One(call.then = "expire")
          = One(primary[t]) + inflight[t] + One(registered[t])
            + One(EnqIn(waiting, t)) + One(parked[t])
    <3>1. refs[t] = Holders(t)
      BY Zenon, <1>2 DEF TaskInv
    <3>2. Holders(t) = One(primary[t]) + 0 + inflight[t] + 0
                       + One(registered[t]) + One(EnqIn(waiting, t))
                       + One(parked[t]) + One(call.then = "expire")
      BY Zenon, <1>2, <1>6 DEF Holders, One, Enqueued
    <3>3. /\ One(primary[t]) \in Int /\ One(registered[t]) \in Int
          /\ One(EnqIn(waiting, t)) \in Int /\ One(parked[t]) \in Int
          /\ One(call.then = "expire") \in Int
      BY DEF One
    <3> QED
      BY SMTT(30), <1>5, <3>1, <3>2, <3>3
  <2>2. \A k \in Key : subreq_out[k] # t
    BY <1>1, <1>2, SubreqAssumption DEF Table
  <2>3. \A m \in Task : waiting[m] # <<>> => leading[m] /\ m # t
    <3> SUFFICES ASSUME NEW m \in Task, waiting[m] # <<>>
                 PROVE  leading[m] /\ m # t
      OBVIOUS
    <3>1. TaskInv(m)
      BY Zenon DEF IInv
    <3> QED
      BY Zenon, <1>2, <3>1 DEF TaskInv
  <2> QED
    BY Zenon, <1>1, <1>5, <1>6, <2>1, <2>2, <2>3 DEF Ready, Enqueued
<1>8. CASE call.then = "step"
  <2>1. Work(t, 0, registered[t], waiting, secret)
    BY Zenon, <1>2, <1>8 DEF Return
  <2>2. Ready(t, 0, waiting) /\ ~EnqIn(waiting, t) /\ ~parked[t]
    BY Zenon, <1>6, <1>7, <1>8 DEF One, Enqueued
  <2> QED
    BY Zenon, <1>2, <1>3, <1>4, <1>5, <2>1, <2>2, WorkInv
<1>9. CASE call.then \in {"finalize", "expire"}
  <2>1. /\ Finalize(t, One(call.then = "expire"), registered[t],
                    too_many_open, rconcurrent_highwatermark, secret)
        /\ leading' = [leading EXCEPT ![t] = FALSE]
        /\ UNCHANGED <<waiting, parked, old, io, subreq_out>>
    BY Zenon, <1>2, <1>9 DEF Return
  <2>2. One(call.then = "expire") \in {0, 1}
    BY Zenon DEF One
  <2>3. Leaves(t, waiting)
    BY Zenon, <1>3, <2>1 DEF Leaves
  <2> HIDE DEF Leaves
  <2>4. /\ Ready(t, One(call.then = "expire"), waiting) /\ StackStep(t)
        /\ Finalize(t, One(call.then = "expire"), registered[t],
                    too_many_open, rconcurrent_highwatermark, secret)
        /\ secret \in [Task -> BOOLEAN] /\ too_many_open \in BOOLEAN
        /\ rconcurrent_highwatermark \in Int
    BY Zenon, <1>4, <1>5, <1>7, <2>1
  <2> QED
    BY <2>2, <2>3, <2>4, FinalizeInv
<1> QED
  BY Zenon, <1>2, <1>8, <1>9

-----------------------------------------------------------------------------
(* The theorems.                                                           *)

\* The invariant holds when the worker starts.
LEMMA InitInv == Init => IInv
<1> SUFFICES ASSUME Init PROVE IInv
  OBVIOUS
<1>1. TypeOK
  <2>1. waiting \in [Task -> Seq(Task)]
    <3>1. <<>> \in Seq(Task)
      OBVIOUS
    <3> QED
      BY Zenon, <3>1 DEF Init
  <2>2. 0 \in 0 .. MAX_PENDING /\ 0 \in 0 .. KR_ITER_LIMIT
    BY SubreqAssumption
  <2>3. call \in [task : Task \cup {NoTask}, reply : BOOLEAN, encoded : BOOLEAN,
                  then : {"none", "step", "finalize", "expire"}]
    BY Zenon DEF Init, NoCall
  <2>4. /\ created \in [Task -> BOOLEAN] /\ primary \in [Task -> BOOLEAN]
        /\ finished \in [Task -> BOOLEAN] /\ leading \in [Task -> BOOLEAN]
        /\ secret \in [Task -> BOOLEAN] /\ parked \in [Task -> BOOLEAN]
        /\ registered \in [Task -> BOOLEAN] /\ answering \in [Task -> BOOLEAN]
        /\ old \in [Task -> BOOLEAN] /\ garbled \in [Task -> BOOLEAN]
        /\ too_many_open \in BOOLEAN
    BY Zenon DEF Init
  <2>5. /\ refs \in [Task -> Int] /\ inflight \in [Task -> Nat]
        /\ timeouts \in [Task -> Nat]
        /\ pending_count \in [Task -> 0 .. MAX_PENDING]
        /\ iter_count \in [Task -> 0 .. KR_ITER_LIMIT]
        /\ rconcurrent \in Int /\ rconcurrent_highwatermark \in Int
    BY <2>2 DEF Init
  <2>6. /\ key \in [Task -> Key \cup {NoKey}]
        /\ timer \in [Task -> {"off", "on_retransmit", "on_udp_timeout"}]
        /\ source \in [Task -> {"none", "udp", "tcp"}]
        /\ subreq_out \in [Key -> Task \cup {NoTask}]
    BY Zenon DEF Init
  <2> QED
    BY Zenon, <2>1, <2>3, <2>4, <2>5, <2>6 DEF TypeOK
<1>2. Unique(waiting) /\ \A x : ~Enqueued(x)
  BY DEF Init, Unique, Enqueued, EnqIn
<1>3. ASSUME NEW t \in Task
      PROVE  TaskInv(t)
  <2>1. call.task # t
    BY Zenon, SubreqAssumption DEF Init, NoCall
  <2>2. refs[t] = Holders(t)
    BY <1>2, <2>1 DEF Init, Holders, One
  <2> QED
    BY <1>2, <2>1, <2>2 DEF Init, TaskInv
<1>4. Table /\ Stack
  BY Zenon DEF Init, Table, Stack
<1> QED
  BY Zenon, <1>1, <1>2, <1>3, <1>4 DEF IInv

\* A step that changes nothing preserves the invariant.
LEMMA StutterInv ==
  ASSUME IInv, UNCHANGED vars
  PROVE  IInv'
<1>1. UNCHANGED <<created, refs, primary, finished, leading, waiting, key, secret,
        timeouts, iter_count, parked, garbled, source, registered, answering,
        old, pending_count, timer, inflight, subreq_out, too_many_open,
        rconcurrent_highwatermark, rconcurrent, call>>
  BY Zenon DEF vars, plan, client, io, load
<1>2. TypeOK' /\ Table' /\ Unique(waiting)' /\ Stack'
  BY Zenon, <1>1 DEF IInv, TypeOK, Table, Stack
<1>3. ASSUME NEW x \in Task
      PROVE  TaskInv(x)'
  <2>1. TaskInv(x)
    BY Zenon DEF IInv
  <2>2. Same(x)
    BY Zenon, <1>1, <2>1 DEF Same, Enqueued, TaskInv
  <2> QED
    BY Zenon, <2>1, <2>2, SameInv
<1> QED
  BY Zenon, <1>2, <1>3 DEF IInv

\* Every step preserves the invariant.
LEMMA NextInv == IInv /\ [Next]_vars => IInv'
<1> SUFFICES ASSUME IInv, [Next]_vars PROVE IInv'
  OBVIOUS
<1>1. CASE Notify
  BY Zenon, <1>1, NotifyInv
<1>2. CASE Return
  BY Zenon, <1>2, ReturnInv
<1>3. ASSUME NEW t \in Task, Progress(t)
      PROVE  IInv'
  BY Zenon, <1>3, OnUdpTimeoutInv, OnRetransmitInv, OnSendInv, OnAnswerSentInv, UnparkInv
     DEF Progress
<1>4. ASSUME NEW t \in Task, Environment(t)
      PROVE  IInv'
  BY Zenon, <1>4, WorkerSubmitInv, UdpReplyInv, ClientExpireInv, ClientEndsInv, AgeInv
     DEF Environment
<1>5. CASE UNCHANGED vars
  BY Zenon, <1>5, StutterInv
<1> QED
  BY Zenon, <1>1, <1>2, <1>3, <1>4, <1>5 DEF Next, Done

\* The inductive invariant holds of every reachable state.
THEOREM Inductive == Spec => []IInv
<1>1. Init => IInv
  BY Zenon, InitInv
<1>2. IInv /\ [Next]_vars => IInv'
  BY Zenon, NextInv
<1> QED
  BY <1>1, <1>2, PTL DEF Spec

\* Types; among them that a query never has more than MAX_PENDING sockets and
\* a task never passes KR_ITER_LIMIT rounds (qr_task_step(), retransmit()).
THEOREM TypeCorrect == Spec => []TypeOK
<1>1. IInv => TypeOK
  BY Zenon DEF IInv
<1> QED
  BY <1>1, Inductive, PTL

\* task->refs is the number of holders of the task: no qr_task_ref() or
\* qr_task_unref() is missing or doubled on any path.
THEOREM RefCountExact == Spec => []RefCount
<1>1. IInv => RefCount
  BY Zenon DEF IInv, TaskInv, RefCount
<1> QED
  BY <1>1, Inductive, PTL

\* subreq_out and the leading flags agree, and a leader's memory is live: the
\* asserts of subreq_finalize() and subreq_lead() hold.
THEOREM TableSound == Spec => []SubreqTable
<1>1. IInv => SubreqTable
  BY Zenon DEF IInv, TaskInv, Table, SubreqTable
<1> QED
  BY <1>1, Inductive, PTL

\* A follower leads nothing and has no socket open, so that the recursion of
\* qr_task_step() through subreq_finalize() is one level deep.
THEOREM FollowersAreIdle == Spec => []FollowersIdle
<1>1. IInv => FollowersIdle
  <2> SUFFICES ASSUME IInv, NEW l \in Task, NEW i \in DOMAIN waiting[l]
               PROVE  LET f == waiting[l][i] IN
                        /\ leading[l]
                        /\ ~leading[f] /\ pending_count[f] = 0 /\ ~parked[f]
                        /\ \A m \in Task : \A j \in DOMAIN waiting[m] :
                             waiting[m][j] = f => m = l /\ j = i
    BY Zenon DEF FollowersIdle
  <2> DEFINE f == waiting[l][i]
  <2>1. waiting \in [Task -> Seq(Task)]
    BY Zenon DEF IInv, TypeOK
  <2>2. f \in Task /\ waiting[l] # <<>>
    BY <2>1
  <2>3. Enqueued(f)
    BY Zenon DEF Enqueued, EnqIn
  <2>4. TaskInv(f) /\ TaskInv(l) /\ pending_count[f] \in Nat
    BY <2>2 DEF IInv, TypeOK
  <2>5. leading[l]
    BY Zenon, <2>2, <2>4 DEF TaskInv
  <2>6. ~leading[f] /\ ~parked[f]
    BY Zenon, <2>3, <2>4 DEF TaskInv
  <2>7. pending_count[f] = 0
    <3> HIDE DEF f
    <3> QED  BY <2>4, <2>6 DEF TaskInv
  <2>8. \A m \in Task : \A j \in DOMAIN waiting[m] :
          waiting[m][j] = f => m = l /\ j = i
    BY Zenon DEF IInv, Unique
  <2> QED
    BY Zenon, <2>5, <2>6, <2>7, <2>8
<1> QED
  BY <1>1, Inductive, PTL

\* Between callbacks, a timer, a leader or an upstream TCP session is bound to
\* step every unfinished task.
THEOREM AllAreStepped == Spec => []SomeoneSteps
<1>1. IInv => SomeoneSteps
  <2> SUFFICES ASSUME IInv, Idle, NEW t \in Task, created[t], ~finished[t]
               PROVE  \/ leading[t] /\ pending_count[t] > 0 /\ timer[t] # "off"
                      \/ Enqueued(t)
                      \/ parked[t]
    BY Zenon DEF SomeoneSteps
  <2>1. TaskInv(t) /\ call.task # t
    BY Zenon, SubreqAssumption DEF IInv, Idle, NoCall
  <2> QED
    BY Zenon, <2>1 DEF TaskInv
<1> QED
  BY <1>1, Inductive, PTL

\* request_free() runs only after qr_task_finalize().
THEOREM FreedAfterFinish == Spec => []FreedIsFinished
<1>1. IInv => FreedIsFinished
  <2> SUFFICES ASSUME IInv, NEW t \in Task, created[t], refs[t] = 0
               PROVE  finished[t] /\ ~primary[t]
    BY Zenon DEF FreedIsFinished
  <2>1. TaskInv(t) /\ pending_count[t] \in Nat /\ inflight[t] \in Nat
    BY DEF IInv, TypeOK
  <2>2. ~primary[t]
    <3> SUFFICES ASSUME primary[t] PROVE FALSE
      OBVIOUS
    <3>1. Holders(t) = 0
      BY Zenon, <2>1 DEF TaskInv
    <3>2. One(primary[t]) = 1
      BY Zenon DEF One
    <3>3. PICK a, b, c, d, e \in Nat :
            Holders(t) = 1 + pending_count[t] + inflight[t] + a + b + c + d + e
      BY <3>2 DEF Holders, One
    <3> QED
      BY <2>1, <3>1, <3>3
  <2> QED
    BY Zenon, <2>1, <2>2 DEF TaskInv
<1> QED
  BY <1>1, Inductive, PTL
=============================================================================
