-------------------------- MODULE SubreqRefinement --------------------------
(***************************************************************************)
(* Module Subreq implements the safety part of module Request, the count   *)
(* of live requests is exact, and followers read a decoded packet, for any *)
(* number of tasks and keys and any value of the limits.                   *)
(*                                                                         *)
(* All three rest on what one step can do to the life of a task (lemma     *)
(* NextShape): it accepts one request, or it changes the references of one *)
(* task, which it may finish, or it touches no life at all.                *)
(***************************************************************************)
EXTENDS SubreqProofs, FiniteSetTheorems

-----------------------------------------------------------------------------
(* What a step does to the life of a task.                                 *)

\* worker_submit(): a request is accepted and holds references.
Accepts(t) ==
  /\ ~created[t] /\ ~finished[t]
  /\ created' = [created EXCEPT ![t] = TRUE]
  /\ refs' \in [Task -> Int] /\ refs'[t] > 0
  /\ \A x \in Task : x # t => refs'[x] = refs[x]
  /\ rconcurrent' = rconcurrent + 1
  /\ finished' = finished

\* A callback takes or drops references of a live task, and may finish it.
Touches(t) ==
  /\ created[t] /\ created' = created /\ refs[t] > 0
  /\ \E n \in Int, b \in BOOLEAN : Reference(t, n, b)
  /\ \/ finished' = finished
     \/ ~finished[t] /\ finished' = [finished EXCEPT ![t] = TRUE]

\* A step that is about no task's life.
Leave == UNCHANGED <<created, refs, finished, rconcurrent>>

\* A task is held as long as qr_task_ref() counts one holder of it.
LEMMA HoldersSum ==
  ASSUME NEW t \in Task, pending_count[t] \in Nat, inflight[t] \in Nat
  PROVE  /\ Holders(t) \in Nat
         /\ \/ primary[t] \/ pending_count[t] > 0 \/ inflight[t] > 0
            \/ answering[t] \/ registered[t] \/ Enqueued(t) \/ parked[t]
            => Holders(t) > 0
<1> DEFINE p == One(primary[t])
           a == One(answering[t])
           r == One(registered[t])
           e == One(Enqueued(t))
           k == One(parked[t])
           c == One(call.task = t /\ call.then = "expire")
<1>1. p \in {0, 1} /\ (primary[t] => p = 1)
  BY DEF One
<1>2. a \in {0, 1} /\ (answering[t] => a = 1)
  BY DEF One
<1>3. r \in {0, 1} /\ (registered[t] => r = 1)
  BY DEF One
<1>4. e \in {0, 1} /\ (Enqueued(t) => e = 1)
  BY DEF One
<1>5. k \in {0, 1} /\ (parked[t] => k = 1)
  BY DEF One
<1>6. c \in {0, 1}
  BY DEF One
<1>7. Holders(t) = p + pending_count[t] + inflight[t] + a + r + e + k + c
  BY Zenon DEF Holders
<1> HIDE DEF p, a, r, e, k, c
<1>8. /\ Holders(t) \in Nat
      /\ \/ p = 1 \/ pending_count[t] > 0 \/ inflight[t] > 0
         \/ a = 1 \/ r = 1 \/ e = 1 \/ k = 1
         => Holders(t) > 0
  BY SMTT(30), <1>1, <1>2, <1>3, <1>4, <1>5, <1>6, <1>7
<1> QED
  BY Zenon, <1>1, <1>2, <1>3, <1>4, <1>5, <1>8

\* A task that anything holds was accepted, and its count is positive.
LEMMA HeldIsLive ==
  ASSUME IInv, NEW t \in Task,
         \/ primary[t] \/ pending_count[t] > 0 \/ inflight[t] > 0
         \/ answering[t] \/ registered[t] \/ Enqueued(t) \/ parked[t]
  PROVE  created[t] /\ refs[t] > 0
<1>1. TaskInv(t) /\ pending_count[t] \in Nat /\ inflight[t] \in Nat
  BY DEF IInv, TypeOK
<1>2. created[t]
  BY <1>1 DEF TaskInv
<1>3. Holders(t) > 0
  BY Zenon, <1>1, HoldersSum
<1>4. refs[t] = Holders(t)
  BY Zenon, <1>1 DEF TaskInv
<1> QED
  BY Zenon, <1>2, <1>3, <1>4

\* qr_task_finalize() takes or drops references of its task and finishes it.
LEMMA FinalizeShape ==
  ASSUME TypeOK, NEW t \in Task, NEW drop \in {0, 1}, NEW inList \in BOOLEAN,
         NEW open, NEW high, NEW s, ~finished[t],
         Finalize(t, drop, inList, open, high, s)
  PROVE  /\ \E n \in Int, b \in BOOLEAN : Reference(t, n, b)
         /\ ~finished[t] /\ finished' = [finished EXCEPT ![t] = TRUE]
<1>1. finished' = [finished EXCEPT ![t] = TRUE]
  BY Zenon DEF Finalize
<1>2. CASE Complete(t, -drop, inList)
  <2>1. -drop - One(inList) - One(primary[t]) \in Int
    BY DEF One
  <2> QED
    BY Zenon, <1>1, <1>2, <2>1 DEF Complete
<1>3. CASE Reference(t, 1 - drop, primary[t])
  <2>1. 1 - drop \in Int /\ primary[t] \in BOOLEAN
    BY DEF TypeOK
  <2> QED
    BY Zenon, <1>1, <1>3, <2>1
<1> QED
  BY Zenon, <1>2, <1>3 DEF Finalize

\* One qr_task_step() takes or drops references of its task, and finishes it
\* or not.
LEMMA WorkShape ==
  ASSUME TypeOK, NEW t \in Task, NEW drop \in {0, 1}, NEW w, NEW s,
         ~finished[t], Work(t, drop, registered[t], w, s)
  PROVE  /\ \E n \in Int, b \in BOOLEAN : Reference(t, n, b)
         /\ \/ finished' = finished
            \/ ~finished[t] /\ finished' = [finished EXCEPT ![t] = TRUE]
<1>1. /\ 1 - drop \in Int /\ 2 - drop \in Int
      /\ primary[t] \in BOOLEAN /\ registered[t] \in BOOLEAN
  BY DEF TypeOK
<1>2. CASE \E open, high : Finalize(t, drop, registered[t], open, high, s)
  BY Zenon, <1>1, <1>2, FinalizeShape
<1>3. CASE \/ \E k \in Key : UdpTaskStep(t, k, drop, w, s)
           \/ TcpTaskStep(t, drop, w, s)
  BY Zenon, <1>1, <1>3 DEF UdpTaskStep, SubreqEnqueue, SubreqLead, TcpTaskStep
<1> QED
  BY Zenon, <1>2, <1>3 DEF Work, UdpTaskFails, TcpTaskFails

\* Every step accepts one request, touches one live task, or leaves the lives
\* of all tasks alone.
LEMMA NextShape ==
  ASSUME IInv, [Next]_vars
  PROVE  (\E t \in Task : Accepts(t) \/ Touches(t)) \/ Leave
<1>1. TypeOK
  BY Zenon DEF IInv
<1>2. \A t \in Task : /\ primary[t] \in BOOLEAN /\ registered[t] \in BOOLEAN
                      /\ -pending_count[t] \in Int /\ -1 \in Int /\ 2 \in Int
                      /\ -1 - One(registered[t]) - One(primary[t]) \in Int
  BY <1>1 DEF TypeOK, One
<1>3. ASSUME NEW t \in Task, created[t], refs[t] > 0, UNCHANGED <<created, finished>>,
             \E n \in Int, b \in BOOLEAN : Reference(t, n, b)
      PROVE  Touches(t)
  BY Zenon, <1>3 DEF Touches
<1>4. CASE Notify
  <2>1. PICK lead \in Task : call.task = lead /\ waiting[lead] # <<>>
    BY Zenon, <1>4 DEF IInv, Notify, Stack, Idle
  <2>2. waiting \in [Task -> Seq(Task)] /\ Unique(waiting)
    BY Zenon, <1>1 DEF IInv, TypeOK
  <2>3. PICK f \in Task : f = waiting[lead][Len(waiting[lead])] /\ Enqueued(f)
    BY Zenon, <2>1, <2>2, LastOut DEF Enqueued
  <2>4. created[f] /\ refs[f] > 0
    BY Zenon, <2>3, HeldIsLive
  <2>5. UNCHANGED created
    BY Zenon, <1>4 DEF Notify
  <2>6. CASE finished[f]
    <3>1. Reference(f, -1, primary[f]) /\ UNCHANGED finished
      BY Zenon, <1>4, <2>1, <2>3, <2>6 DEF Notify
    <3> QED
      BY Zenon, <1>2, <1>3, <2>4, <2>5, <3>1
  <2>7. CASE ~finished[f]
    <3>1. \E w, s : Work(f, 1, registered[f], w, s)
      BY Zenon, <1>4, <2>1, <2>3, <2>7 DEF Notify
    <3>2. 1 \in {0, 1}
      OBVIOUS
    <3> QED
      BY Zenon, <1>1, <2>4, <2>5, <2>7, <3>1, <3>2, WorkShape DEF Touches
  <2> QED
    BY Zenon, <2>6, <2>7
<1>5. CASE Return
  <2>1. PICK t \in Task : call.task = t /\ TaskInv(t)
    BY Zenon, <1>5 DEF IInv, Return, Stack, Idle
  <2>2. ~finished[t] /\ primary[t]
    BY Zenon, <2>1 DEF TaskInv
  <2>3. created[t] /\ refs[t] > 0
    BY Zenon, <2>2, HeldIsLive
  <2>4. UNCHANGED created
    BY Zenon, <1>5 DEF Return
  <2>5. CASE Work(t, 0, registered[t], waiting, secret)
    <3>1. 0 \in {0, 1}
      OBVIOUS
    <3> QED
      BY Zenon, <1>1, <2>2, <2>3, <2>4, <2>5, <3>1, WorkShape DEF Touches
  <2>6. CASE Finalize(t, One(call.then = "expire"), registered[t],
                      too_many_open, rconcurrent_highwatermark, secret)
    <3>1. One(call.then = "expire") \in {0, 1}
      BY DEF One
    <3>2. registered[t] \in BOOLEAN
      BY Zenon, <1>2
    <3>3. /\ \E n \in Int, b \in BOOLEAN : Reference(t, n, b)
          /\ ~finished[t] /\ finished' = [finished EXCEPT ![t] = TRUE]
      BY ZenonT(30), <1>1, <2>2, <2>6, <3>1, <3>2, FinalizeShape
    <3> QED
      BY Zenon, <2>3, <2>4, <3>3 DEF Touches
  <2> QED
    BY Zenon, <1>5, <2>1, <2>5, <2>6 DEF Return
<1>6. ASSUME NEW t \in Task, Progress(t)
      PROVE  Touches(t) \/ Leave
  <2>1. CASE OnUdpTimeout(t)
    <3>1. pending_count[t] > 0
      BY Zenon, <2>1 DEF OnUdpTimeout, IInv, TaskInv
    <3> QED
      BY Zenon, <1>2, <1>3, <2>1, <3>1, HeldIsLive DEF OnUdpTimeout
  <2>2. CASE OnRetransmit(t)
    <3>1. pending_count[t] > 0
      BY Zenon, <2>2 DEF OnRetransmit, IInv, TaskInv
    <3> QED
      BY Zenon, <1>2, <1>3, <2>2, <3>1, HeldIsLive DEF OnRetransmit, Leave
  <2>3. CASE OnSend(t)
    BY Zenon, <1>2, <1>3, <2>3, HeldIsLive DEF OnSend, Complete
  <2>4. CASE OnAnswerSent(t)
    BY Zenon, <1>2, <1>3, <2>4, HeldIsLive DEF OnAnswerSent, Complete
  <2>5. CASE Unpark(t)
    BY Zenon, <1>2, <1>3, <2>5, HeldIsLive DEF Unpark
  <2> QED
    BY Zenon, <1>6, <2>1, <2>2, <2>3, <2>4, <2>5 DEF Progress
<1>7. ASSUME NEW t \in Task, Environment(t)
      PROVE  Accepts(t) \/ Touches(t) \/ Leave
  <2>1. ASSUME NEW src \in Sources, WorkerSubmit(t, src)
        PROVE  Accepts(t)
    <3>1. TaskInv(t)
      BY Zenon DEF IInv
    <3>2. ~created[t] /\ ~finished[t]
      BY Zenon, <2>1, <3>1 DEF WorkerSubmit, TaskInv
    <3>3. One(src = "tcp") \in Nat
      BY DEF One
    <3>4. /\ refs' \in [Task -> Int] /\ refs'[t] > 0
          /\ \A x \in Task : x # t => refs'[x] = refs[x]
      BY <1>1, <2>1, <3>3 DEF WorkerSubmit, TypeOK
    <3> QED
      BY Zenon, <2>1, <3>2, <3>4 DEF WorkerSubmit, Accepts
  <2>2. CASE UdpReply(t)
    BY Zenon, <1>2, <1>3, <2>2, HeldIsLive DEF UdpReply
  <2>3. CASE ClientExpire(t)
    BY Zenon, <1>2, <1>3, <2>3, HeldIsLive DEF ClientExpire
  <2>4. CASE ClientEnds(t)
    BY Zenon, <1>2, <1>3, <2>4, HeldIsLive DEF ClientEnds
  <2>5. CASE Age(t)
    BY Zenon, <2>5 DEF Age, Leave
  <2> QED
    BY Zenon, <1>7, <2>1, <2>2, <2>3, <2>4, <2>5 DEF Environment
<1>8. CASE UNCHANGED vars
  BY Zenon, <1>8 DEF vars, Leave
<1> QED
  BY Zenon, <1>4, <1>5, <1>6, <1>7, <1>8 DEF Next, Done

-----------------------------------------------------------------------------
(* The count of live requests.                                             *)

\* The requests whose memory is not yet released.
Live == {t \in Task : created[t] /\ refs[t] > 0}

\* worker->stats.rconcurrent is their number, and there are finitely many.
LiveCounted == IsFiniteSet(Live) /\ rconcurrent = Cardinality(Live)

\* With the last reference the primary one goes too.
LastIsPrimary ==
  \A t \in Task : refs[t] > 0 \/ (refs[t] = 0 /\ ~primary[t])

\* qr_task_unref() never frees a task that has its primary reference.
LEMMA ReleasedIsLast == IInv => LastIsPrimary
<1> SUFFICES ASSUME IInv, NEW t \in Task
             PROVE  refs[t] > 0 \/ (refs[t] = 0 /\ ~primary[t])
  BY Zenon DEF LastIsPrimary
<1>1. TaskInv(t) /\ pending_count[t] \in Nat /\ inflight[t] \in Nat
  BY DEF IInv, TypeOK
<1>2. Holders(t) \in Nat /\ (primary[t] => Holders(t) > 0)
  BY Zenon, <1>1, HoldersSum
<1>3. refs[t] = Holders(t)
  BY Zenon, <1>1 DEF TaskInv
<1>4. refs[t] > 0 \/ refs[t] = 0
  BY <1>2, <1>3
<1> QED
  BY Zenon, <1>2, <1>3, <1>4

\* The same of the next state.
LEMMA ReleasedIsLastNext == IInv' => LastIsPrimary'
BY ReleasedIsLast, PTL

\* Every step keeps the count.
LEMMA CountedStep ==
  ASSUME IInv, IInv', LiveCounted, [Next]_vars
  PROVE  LiveCounted'
<1>1. TypeOK /\ TypeOK'
  BY Zenon DEF IInv
<1>2. ASSUME NEW t \in Task, Accepts(t)
      PROVE  LiveCounted'
  <2>1. t \notin Live /\ Live' = Live \cup {t}
    <3>1. /\ created'[t] /\ refs'[t] > 0 /\ ~created[t]
          /\ \A x \in Task : x # t => created'[x] = created[x] /\ refs'[x] = refs[x]
      BY ZenonT(30), <1>1, <1>2 DEF Accepts, TypeOK
    <3> QED
      BY Zenon, <3>1 DEF Live
  <2>2. IsFiniteSet(Live') /\ Cardinality(Live') = Cardinality(Live) + 1
    BY Zenon, <2>1, FS_AddElement DEF LiveCounted
  <2> QED
    BY Zenon, <1>2, <2>2 DEF LiveCounted, Accepts
<1>3. ASSUME NEW t \in Task, Touches(t)
      PROVE  LiveCounted'
  <2>1. PICK n \in Int, b \in BOOLEAN : Reference(t, n, b)
    BY Zenon, <1>3 DEF Touches
  <2>2. /\ refs[t] \in Int /\ refs'[t] = refs[t] + n /\ primary'[t] = b
        /\ \A x \in Task : x # t => refs'[x] = refs[x]
    BY <1>1, <2>1 DEF Reference, TypeOK
  <2>3. created' = created /\ t \in Live
    BY Zenon, <1>3 DEF Touches, Live
  <2>4. CASE refs'[t] = 0 /\ ~primary'[t]
    <3>2. rconcurrent' = rconcurrent - 1
      <4>1. refs[t] + n = 0 /\ ~b
        BY Zenon, <2>2, <2>4
      <4> QED
        BY <2>1, <4>1 DEF Reference
    <3>3. Live' = Live \ {t}
      <4>1. ~(refs'[t] > 0)
        BY <2>4
      <4> QED
        BY Zenon, <2>2, <2>3, <4>1 DEF Live
    <3>4. IsFiniteSet(Live') /\ Cardinality(Live') = Cardinality(Live) - 1
      BY Zenon, <2>3, <3>3, FS_RemoveElement DEF LiveCounted
    <3> QED
      BY Zenon, <3>2, <3>4 DEF LiveCounted
  <2>5. CASE refs'[t] > 0
    <3>1. rconcurrent' = rconcurrent
      BY <2>1, <2>2, <2>5 DEF Reference
    <3>2. Live' = Live
      BY Zenon, <2>2, <2>3, <2>5 DEF Live
    <3> QED
      BY Zenon, <3>1, <3>2 DEF LiveCounted
  <2> QED
    BY Zenon, <2>4, <2>5, ReleasedIsLastNext DEF LastIsPrimary
<1>4. CASE Leave
  BY Zenon, <1>4 DEF Leave, LiveCounted, Live
<1> QED
  BY Zenon, <1>2, <1>3, <1>4, NextShape

\* The count is kept from the start.
LEMMA CountedAlways == Spec => []LiveCounted
<1>1. Init => LiveCounted
  <2> SUFFICES ASSUME Init PROVE LiveCounted
    OBVIOUS
  <2>1. Live = {} /\ rconcurrent = 0
    BY DEF Init, Live
  <2> QED
    BY Zenon, <2>1, FS_EmptySet DEF LiveCounted
<1>2. IInv /\ IInv' /\ LiveCounted /\ [Next]_vars => LiveCounted'
  BY Zenon, CountedStep
<1> QED
  BY <1>1, <1>2, Inductive, PTL DEF Spec

\* worker->stats.rconcurrent is the number of requests whose memory is not yet
\* released: request_create() and request_free() are paired on every path.
THEOREM RConcurrentIsExact == Spec => []RConcurrentExact
<1>1. LiveCounted => RConcurrentExact
  BY Zenon DEF LiveCounted, RConcurrentExact, Live
<1> QED
  BY <1>1, CountedAlways, PTL

-----------------------------------------------------------------------------
(* The refinement of module Request.                                       *)

\* What Request sees of a task, one phase at a time.
Phases ==
  \A t \in Task :
    /\ ~created[t] => Phase(t) = "new"
    /\ created[t] /\ ~finished[t] => Phase(t) = "resolving"
    /\ finished[t] /\ refs[t] > 0 => Phase(t) = "finished"
    /\ finished[t] /\ refs[t] = 0 => Phase(t) = "released"

\* The cases of Phase exclude each other.
LEMMA PhaseOf == IInv => Phases
<1> SUFFICES ASSUME IInv, NEW t \in Task
             PROVE  /\ ~created[t] => Phase(t) = "new"
                    /\ created[t] /\ ~finished[t] => Phase(t) = "resolving"
                    /\ finished[t] /\ refs[t] > 0 => Phase(t) = "finished"
                    /\ finished[t] /\ refs[t] = 0 => Phase(t) = "released"
  BY Zenon DEF Phases
<1>1. finished[t] => created[t]
  BY Zenon DEF IInv, TaskInv
<1>2. ~(refs[t] = 0 /\ refs[t] > 0)
  OBVIOUS
<1> QED
  BY Zenon, <1>1, <1>2 DEF Phase

\* The same of the next state.
LEMMA PhaseOfNext == IInv' => Phases'
BY PhaseOf, PTL

\* The initial states of Subreq are initial states of Request.
LEMMA InitRefines ==
  ASSUME Init
  PROVE  R!Init
BY Zenon DEF Init, R!Init, Phase

\* Every step of Subreq is a step of Request, or none.
LEMMA NextRefines ==
  ASSUME IInv, IInv', [Next]_vars
  PROVE  [R!Next]_[t \in Task |-> Phase(t)]
<1> DEFINE p == [t \in Task |-> Phase(t)]
<1>1. p' = [t \in Task |-> Phase(t)']
  BY Zenon
<1>2. TypeOK /\ TypeOK'
  BY Zenon DEF IInv
<1>3. ASSUME NEW x \in Task, created'[x] = created[x], refs'[x] = refs[x],
             finished'[x] = finished[x]
      PROVE  Phase(x)' = Phase(x)
  BY Zenon, <1>3 DEF Phase
<1>4. Phases /\ Phases'
  BY Zenon, PhaseOf, PhaseOfNext
<1>5. ASSUME NEW t \in Task, Accepts(t)
      PROVE  R!Receive(t)
  <2>1. ~created[t] /\ created'[t] /\ ~finished'[t]
    BY Zenon, <1>2, <1>5 DEF Accepts, TypeOK
  <2>2. Phase(t) = "new" /\ Phase(t)' = "resolving"
    BY Zenon, <2>1, <1>4 DEF Phases
  <2>3. \A x \in Task : x # t => Phase(x)' = Phase(x)
    BY Zenon, <1>2, <1>3, <1>5 DEF Accepts, TypeOK
  <2> QED
    BY Zenon, <1>1, <2>2, <2>3 DEF R!Receive
<1>6. ASSUME NEW t \in Task, Touches(t)
      PROVE  R!Next \/ p' = p
  <2>1. PICK n \in Int, b \in BOOLEAN : Reference(t, n, b)
    BY Zenon, <1>6 DEF Touches
  <2>2. /\ refs'[t] \in Int /\ refs[t] > 0 /\ created'[t] /\ created[t]
        /\ created' = created
        /\ \A x \in Task : x # t => refs'[x] = refs[x]
    <3>1. refs \in [Task -> Int] /\ refs' \in [Task -> Int]
      BY Zenon, <1>2 DEF TypeOK
    <3>2. refs[t] > 0 /\ created[t] /\ created' = created
      BY Zenon, <1>6 DEF Touches
    <3>3. refs' = [refs EXCEPT ![t] = @ + n]
      BY Zenon, <2>1 DEF Reference
    <3>4. \A x \in Task : x # t => refs'[x] = refs[x]
      BY <3>1, <3>3
    <3> QED
      BY Zenon, <3>1, <3>2, <3>4
  <2>3. \A x \in Task : x # t => finished'[x] = finished[x]
    <3>1. finished \in [Task -> BOOLEAN]
      BY Zenon, <1>2 DEF TypeOK
    <3>2. finished' = finished \/ finished' = [finished EXCEPT ![t] = TRUE]
      BY Zenon, <1>6 DEF Touches
    <3> QED
      BY <3>1, <3>2
  <2>4. \A x \in Task : x # t => Phase(x)' = Phase(x)
    BY Zenon, <1>3, <2>2, <2>3
  <2>5. refs'[t] = 0 \/ refs'[t] > 0
    BY Zenon, ReleasedIsLastNext DEF LastIsPrimary
  <2>6. CASE ~finished[t] /\ finished'[t]
    <3>1. Phase(t) = "resolving" /\ Phase(t)' \in {"finished", "released"}
      BY Zenon, <2>2, <2>5, <2>6, <1>4 DEF Phases
    <3>2. PICK F \in SUBSET {t} : Phase(t)' = IF t \in F THEN "released" ELSE "finished"
      <4>1. CASE Phase(t)' = "finished"
        <5> WITNESS {} \in SUBSET {t}
        <5> QED  BY Zenon, <4>1
      <4>2. CASE Phase(t)' = "released"
        <5> WITNESS {t} \in SUBSET {t}
        <5> QED  BY Zenon, <4>2
      <4> QED
        BY Zenon, <3>1, <4>1, <4>2
    <3>3. R!Finish({t}, F)
      BY Zenon, <1>1, <2>4, <3>1, <3>2 DEF R!Finish
    <3> QED
      BY Zenon, <3>3 DEF R!Next
  <2>7. CASE finished'[t] = finished[t] /\ finished[t] /\ refs'[t] = 0
    <3>1. Phase(t) = "finished" /\ Phase(t)' = "released"
      BY Zenon, <2>2, <2>7, <1>4 DEF Phases
    <3>2. R!Release(t)
      BY Zenon, <1>1, <2>4, <3>1 DEF R!Release
    <3> QED
      BY Zenon, <3>2 DEF R!Next
  <2>8. CASE finished'[t] = finished[t] /\ finished[t] /\ refs'[t] > 0
    <3>1. Phase(t) = "finished" /\ Phase(t)' = "finished"
      BY Zenon, <2>2, <2>8, <1>4 DEF Phases
    <3> QED
      BY Zenon, <1>1, <2>4, <3>1
  <2>9. CASE finished'[t] = finished[t] /\ ~finished[t]
    <3>1. Phase(t) = "resolving" /\ Phase(t)' = "resolving"
      BY Zenon, <2>2, <2>9, <1>4 DEF Phases
    <3> QED
      BY Zenon, <1>1, <2>4, <3>1
  <2>10. finished'[t] = finished[t] \/ (~finished[t] /\ finished'[t])
    <3>1. finished \in [Task -> BOOLEAN]
      BY Zenon, <1>2 DEF TypeOK
    <3>2. CASE finished' = finished
      BY Zenon, <3>2
    <3>3. CASE ~finished[t] /\ finished' = [finished EXCEPT ![t] = TRUE]
      BY Zenon, <3>1, <3>3
    <3> QED
      BY Zenon, <1>6, <3>2, <3>3 DEF Touches
  <2>11. CASE finished'[t] = finished[t]
    <3>1. CASE finished[t]
      BY Zenon, <2>5, <2>7, <2>8, <2>11, <3>1
    <3>2. CASE ~finished[t]
      BY Zenon, <2>9, <2>11, <3>2
    <3> QED
      BY Zenon, <3>1, <3>2
  <2> QED
    BY Zenon, <2>6, <2>10, <2>11
<1>7. CASE Leave
  BY Zenon, <1>1, <1>3, <1>7 DEF Leave
<1> QED
  BY Zenon, <1>5, <1>6, <1>7, NextShape DEF R!Next

\* Subreq implements Request: qr_task_finalize() finishes a request once, and
\* request_free() runs only after it and once.
THEOREM Refines == Spec => RequestSpec
<1>1. Init => R!Init
  BY Zenon, InitRefines
<1>2. IInv /\ IInv' /\ [Next]_vars => [R!Next]_[t \in Task |-> Phase(t)]
  BY Zenon, NextRefines
<1> QED
  BY <1>1, <1>2, Inductive, PTL DEF Spec, RequestSpec, R!Spec

-----------------------------------------------------------------------------
(* The packet that a leader and its followers share.                       *)

\* No task is past its time limit and the worker never ran out of descriptors.
Undisturbed == rconcurrent_highwatermark = 0 /\ \A t \in Task : ~old[t]

\* Then whoever is on the C stack has the secret for as long as the packet is
\* encoded, and the first follower takes it: none has finished meanwhile.
Calm ==
  /\ \A t \in Task : ~garbled[t]
  /\ \A t \in Task : Enqueued(t) => ~finished[t]
  /\ \A t \in Task : call.task = t =>
       ~Enqueued(t) /\ (call.encoded => call.reply /\ secret[t])

\* Running out of descriptors leaves a watermark above zero.
Marked == too_many_open => rconcurrent_highwatermark # 0

Decoding == Marked /\ (Undisturbed => Calm)

\* While a task is live the count of live requests is not zero.
LEMMA SomeLive ==
  ASSUME LiveCounted, NEW t \in Task, created[t], refs[t] > 0
  PROVE  rconcurrent # 0
<1>1. t \in Live
  BY Zenon DEF Live
<1> QED
  BY Zenon, <1>1, FS_EmptySet DEF LiveCounted

\* What a step does to the open-files state.
LoadStep ==
  \/ rconcurrent_highwatermark' = rconcurrent_highwatermark
     /\ (too_many_open' => too_many_open)
  \/ rconcurrent_highwatermark' # 0

\* qr_task_step() keeps the watermark, or sets it to a count that is not zero.
LEMMA WorkLoad ==
  ASSUME NEW t \in Task, NEW drop, NEW inList, NEW w, NEW s,
         rconcurrent # 0, Work(t, drop, inList, w, s)
  PROVE  LoadStep
<1>1. ASSUME NEW open, NEW high, Finalize(t, drop, inList, open, high, s)
      PROVE  rconcurrent_highwatermark' = high /\ (too_many_open' => open)
  <2>1. CASE too_many_open' = open
    BY Zenon, <1>1, <2>1 DEF Finalize
  <2>2. CASE too_many_open' = (open /\ ~BelowWatermark(high))
    BY <1>1, <2>2 DEF Finalize
  <2> QED
    BY Zenon, <1>1, <2>1, <2>2 DEF Finalize
<1>2. ASSUME NEW k \in Key, UdpTaskFails(t, k, drop, inList, w, s)
      PROVE  LoadStep
  BY Zenon, <1>1, <1>2 DEF UdpTaskFails, LoadStep
<1>3. CASE TcpTaskFails(t, drop, inList, w, s)
  BY Zenon, <1>1, <1>3 DEF TcpTaskFails, LoadStep
<1>4. CASE Finalize(t, drop, inList, too_many_open /\ (old[t] \/ Refused(t)),
                    rconcurrent_highwatermark, s)
  BY Zenon, <1>1, <1>4 DEF LoadStep
<1>5. CASE \/ \E k \in Key : UdpTaskStep(t, k, drop, w, s)
           \/ TcpTaskStep(t, drop, w, s)
  BY Zenon, <1>5 DEF UdpTaskStep, TcpTaskStep, LoadStep
<1> QED
  BY Zenon, <1>2, <1>3, <1>4, <1>5 DEF Work

\* One qr_task_step() of a task that is not finished and on no waiting list:
\* tasks on the lists are not finished, and at most that task joins them.
LEMMA WorkFollowers ==
  ASSUME TypeOK, NEW t \in Task, NEW drop, NEW inList,
         NEW w \in [Task -> Seq(Task)], NEW s, Unique(w), ~finished[t],
         ~EnqIn(w, t), \A x \in Task : EnqIn(w, x) => ~finished[x],
         Work(t, drop, inList, w, s)
  PROVE  /\ \A x \in Task : Enqueued(x)' => ~finished'[x] /\ (x = t \/ EnqIn(w, x))
         /\ old' = old
<1>1. ASSUME NEW open, NEW high, Finalize(t, drop, inList, open, high, s), waiting' = w
      PROVE  \A x \in Task : Enqueued(x)' => ~finished'[x] /\ (x = t \/ EnqIn(w, x))
  <2>1. finished' = [finished EXCEPT ![t] = TRUE]
    BY Zenon, <1>1 DEF Finalize
  <2> QED
    BY Zenon, <1>1, <2>1 DEF TypeOK, Enqueued
<1>2. ASSUME NEW k \in Key, UdpTaskStep(t, k, drop, w, s)
      PROVE  \A x \in Task : Enqueued(x)' => ~finished'[x] /\ (x = t \/ EnqIn(w, x))
  <2>1. finished' = finished
    BY Zenon, <1>2 DEF UdpTaskStep
  <2>2. CASE SubreqEnqueue(t, k, drop, w, s)
    <3>1. PICK g \in Task : waiting' = [w EXCEPT ![g] = Append(@, t)]
      BY Zenon, <2>2 DEF SubreqEnqueue, TypeOK
    <3>2. \A x : EnqIn(waiting', x) <=> EnqIn(w, x) \/ x = t
      BY Zenon, <3>1, OneMore
    <3> QED
      BY Zenon, <2>1, <3>2 DEF Enqueued
  <2>3. CASE SubreqLead(t, k, drop, w, s)
    BY Zenon, <2>1, <2>3 DEF SubreqLead, Enqueued
  <2> QED
    BY Zenon, <1>2, <2>2, <2>3 DEF UdpTaskStep
<1>3. CASE TcpTaskStep(t, drop, w, s)
  BY Zenon, <1>3 DEF TcpTaskStep, Enqueued, client
<1> QED
  BY Zenon, <1>1, <1>2, <1>3 DEF Work, UdpTaskFails, TcpTaskFails, UdpTaskStep, client

\* No step clears the watermark or makes a task younger; none sets
\* too_many_open without a watermark.
LEMMA LoadKept ==
  ASSUME IInv, LiveCounted, [Next]_vars
  PROVE  LoadStep /\ \A t \in Task : old[t] => old'[t]
<1>1. TypeOK /\ waiting \in [Task -> Seq(Task)] /\ Unique(waiting)
  BY Zenon DEF IInv, TypeOK
<1>2. ASSUME UNCHANGED load
      PROVE  LoadStep
  BY Zenon, <1>2 DEF load, LoadStep
<1>3. ASSUME NEW t \in Task, NEW drop, NEW inList, NEW w, NEW s,
             Work(t, drop, inList, w, s)
      PROVE  old' = old
  BY Zenon, <1>3 DEF Work, UdpTaskFails, TcpTaskFails, UdpTaskStep, TcpTaskStep, client
<1>4. CASE Notify
  <2>1. PICK lead \in Task : call.task = lead /\ waiting[lead] # <<>>
    BY Zenon, <1>4 DEF IInv, Notify, Stack, Idle
  <2>2. PICK f \in Task : f = waiting[lead][Len(waiting[lead])] /\ Enqueued(f)
    BY Zenon, <1>1, <2>1, LastOut DEF Enqueued
  <2>3. rconcurrent # 0
    BY Zenon, <2>2, HeldIsLive, SomeLive
  <2>4. CASE UNCHANGED <<client, load>>
    BY Zenon, <1>2, <2>4 DEF client
  <2>5. CASE \E w, s : Work(f, 1, registered[f], w, s)
    BY Zenon, <1>3, <2>3, <2>5, WorkLoad
  <2> QED
    BY Zenon, <1>4, <2>1, <2>2, <2>4, <2>5 DEF Notify
<1>5. CASE Return
  <2>1. PICK t \in Task : call.task = t /\ TaskInv(t)
    BY Zenon, <1>5 DEF IInv, Return, Stack, Idle
  <2>2. rconcurrent # 0
    BY Zenon, <2>1, HeldIsLive, SomeLive DEF TaskInv
  <2>3. CASE Work(t, 0, registered[t], waiting, secret)
    BY Zenon, <1>3, <2>2, <2>3, WorkLoad
  <2>4. CASE /\ Finalize(t, One(call.then = "expire"), registered[t],
                         too_many_open, rconcurrent_highwatermark, secret)
             /\ UNCHANGED old
    <3>1. too_many_open' => too_many_open
      BY <2>4 DEF Finalize
    <3> QED
      BY Zenon, <2>4, <3>1 DEF Finalize, LoadStep
  <2> QED
    BY Zenon, <1>5, <2>1, <2>3, <2>4 DEF Return
<1>6. ASSUME NEW t \in Task, Progress(t)
      PROVE  LoadStep /\ UNCHANGED old
  <2>1. CASE OnRetransmit(t)
    <3>1. rconcurrent # 0
      BY Zenon, <2>1, HeldIsLive, SomeLive DEF OnRetransmit, IInv, TaskInv
    <3>2. ASSUME too_many_open' =
                   (too_many_open /\ ~BelowWatermark(rconcurrent_highwatermark)),
                 UNCHANGED rconcurrent_highwatermark
          PROVE  LoadStep
      BY <3>2 DEF LoadStep
    <3> QED
      BY Zenon, <1>2, <2>1, <3>1, <3>2 DEF OnRetransmit, client, LoadStep
  <2>2. CASE OnUdpTimeout(t) \/ OnSend(t) \/ OnAnswerSent(t) \/ Unpark(t)
    BY Zenon, <1>2, <2>2 DEF OnUdpTimeout, OnSend, OnAnswerSent, Unpark, client
  <2> QED
    BY Zenon, <1>6, <2>1, <2>2 DEF Progress
<1>7. ASSUME NEW t \in Task, Environment(t)
      PROVE  LoadStep /\ \A x \in Task : old[x] => old'[x]
  <2>1. CASE Age(t)
    BY Zenon, <1>1, <1>2, <2>1 DEF Age, TypeOK
  <2>2. CASE \/ \E src \in Sources : WorkerSubmit(t, src)
             \/ UdpReply(t) \/ ClientExpire(t) \/ ClientEnds(t)
    BY Zenon, <1>2, <2>2 DEF WorkerSubmit, UdpReply, ClientExpire, ClientEnds, client
  <2> QED
    BY Zenon, <1>7, <2>1, <2>2 DEF Environment
<1>8. CASE UNCHANGED vars
  BY Zenon, <1>2, <1>8 DEF vars, client
<1> QED
  BY Zenon, <1>4, <1>5, <1>6, <1>7, <1>8 DEF Next, Done

\* A callback leaves the waiting lists and the packet alone; one that puts a
\* task on the C stack puts one there that follows nobody and has the secret.
LEMMA CallbackCalm ==
  ASSUME Calm, UNCHANGED <<garbled, waiting, finished, secret>>,
         \/ UNCHANGED call
         \/ \E t \in Task : /\ call'.task = t /\ ~Enqueued(t)
                            /\ call'.encoded => call'.reply /\ secret[t]
  PROVE  Calm'
BY Zenon DEF Calm, Enqueued

\* array_pop() takes the last follower, and no other task, off the lists.
LEMMA LastWaits ==
  ASSUME waiting \in [Task -> Seq(Task)], Unique(waiting),
         NEW lead \in Task, waiting[lead] # <<>>
  PROVE  LET f == waiting[lead][Len(waiting[lead])]
             v == [waiting EXCEPT ![lead] = SubSeq(@, 1, Len(@) - 1)]
         IN  /\ f \in Task /\ Enqueued(f)
             /\ v \in [Task -> Seq(Task)]
             /\ Unique(v)
             /\ \A x : EnqIn(v, x) <=> Enqueued(x) /\ x # f
BY Zenon, LastOut DEF Enqueued

\* One turn of the loop of subreq_finalize(): the follower reads the packet
\* with the secret, or after the one that had it.
LEMMA NotifyCalm ==
  ASSUME IInv, Marked, Undisturbed, Calm, Notify
  PROVE  Calm'
<1>1. TypeOK /\ waiting \in [Task -> Seq(Task)] /\ Unique(waiting)
  BY Zenon DEF IInv, TypeOK
<1>2. PICK lead \in Task : call.task = lead /\ waiting[lead] # <<>>
  BY Zenon DEF IInv, Notify, Stack, Idle
<1>3. LET f == waiting[lead][Len(waiting[lead])]
          v == [waiting EXCEPT ![lead] = SubSeq(@, 1, Len(@) - 1)]
      IN  /\ f \in Task /\ Enqueued(f)
          /\ v \in [Task -> Seq(Task)]
          /\ Unique(v)
          /\ \A x : EnqIn(v, x) <=> Enqueued(x) /\ x # f
  BY Zenon, <1>1, <1>2, LastWaits
<1> DEFINE w == [waiting EXCEPT ![lead] = SubSeq(@, 1, Len(@) - 1)]
<1>4. PICK f \in Task : f = waiting[lead][Len(waiting[lead])]
  BY Zenon, <1>3
<1>5. /\ Enqueued(f) /\ w \in [Task -> Seq(Task)] /\ Unique(w)
      /\ \A x : EnqIn(w, x) <=> Enqueued(x) /\ x # f
  BY Zenon, <1>3, <1>4
<1>6. ~finished[f] /\ ~Enqueued(lead) /\ f # lead
  BY Zenon, <1>2, <1>5 DEF Calm
<1>7. ~Refused(f)
  BY Zenon DEF Marked, Undisturbed, Refused
<1> DEFINE s == HandOver(lead, f)
           reads == call.reply /\ ~finished[f] /\ ~Refused(f)
<1>8. call.encoded => call.reply /\ s[f]
  BY Zenon, <1>1, <1>2, <1>6 DEF HandOver, TypeOK, Calm
<1>9. /\ call' = [call EXCEPT !.encoded = @ /\ ~(reads /\ s[f])]
      /\ garbled' = [garbled EXCEPT ![f] = @ \/ (reads /\ call.encoded /\ ~s[f])]
      /\ Work(f, 1, registered[f], w, s)
  BY Zenon, <1>2, <1>4, <1>6 DEF Notify
<1>10. call'.task = lead /\ ~call'.encoded
  <2>1. ~(call.encoded /\ ~(reads /\ s[f]))
    BY Zenon, <1>6, <1>7, <1>8
  <2> HIDE DEF reads, s
  <2> QED
    BY <1>1, <1>2, <1>9, <2>1 DEF TypeOK
<1>11. \A x \in Task : ~garbled'[x]
  <2>1. ~(garbled[f] \/ (reads /\ call.encoded /\ ~s[f]))
    BY Zenon, <1>8 DEF Calm
  <2> HIDE DEF reads, s
  <2> QED
    BY Zenon, <1>1, <1>9, <2>1 DEF TypeOK, Calm
<1>12. \A x \in Task : Enqueued(x)' => ~finished'[x] /\ (x = f \/ EnqIn(w, x))
  <2>1. ~EnqIn(w, f) /\ \A x \in Task : EnqIn(w, x) => ~finished[x]
    BY Zenon, <1>5 DEF Calm
  <2> HIDE DEF w, s
  <2> QED
    BY Zenon, <1>1, <1>5, <1>6, <1>9, <2>1, WorkFollowers
<1>13. ~Enqueued(lead)'
  BY Zenon, <1>5, <1>6, <1>12
<1> QED
  BY Zenon, <1>10, <1>11, <1>12, <1>13 DEF Calm

\* The rest of the leader's step: nobody has the secret but the leader.
LEMMA ReturnCalm ==
  ASSUME IInv, Calm, Return
  PROVE  Calm'
<1>1. TypeOK /\ waiting \in [Task -> Seq(Task)] /\ Unique(waiting)
  BY Zenon DEF IInv, TypeOK
<1>2. PICK t \in Task : call.task = t /\ TaskInv(t)
  BY Zenon DEF IInv, Return, Stack, Idle
<1>3. /\ ~finished[t] /\ ~Enqueued(t) /\ (call.encoded => secret[t])
      /\ \A x \in Task : Enqueued(x) => ~finished[x]
  BY Zenon, <1>2 DEF Calm, TaskInv
<1>4. \A x \in Task : call'.task # x
  BY Zenon, SubreqAssumption DEF Return, NoCall
<1> DEFINE reads == call.reply /\ call.then = "step" /\ ~Refused(t)
<1>5. \A x \in Task : ~garbled'[x]
  <2>1. ~(garbled[t] \/ (reads /\ call.encoded /\ ~secret[t]))
    BY Zenon, <1>3 DEF Calm
  <2>2. garbled' = [garbled EXCEPT ![t] = @ \/ (reads /\ call.encoded /\ ~secret[t])]
    BY Zenon, <1>2 DEF Return
  <2> HIDE DEF reads
  <2> QED
    BY Zenon, <1>1, <2>1, <2>2 DEF TypeOK, Calm
<1>6. \A x \in Task : Enqueued(x)' => ~finished'[x]
  <2>1. CASE Work(t, 0, registered[t], waiting, secret)
    BY Zenon, <1>1, <1>3, <2>1, WorkFollowers DEF Enqueued
  <2>2. CASE /\ finished' = [finished EXCEPT ![t] = TRUE]
             /\ UNCHANGED waiting
    BY Zenon, <1>1, <1>3, <2>2 DEF Enqueued, TypeOK
  <2> QED
    BY Zenon, <1>2, <2>1, <2>2 DEF Return, Finalize
<1> QED
  BY Zenon, <1>4, <1>5, <1>6 DEF Calm

\* Every step keeps the invariant.
LEMMA DecodingStep ==
  ASSUME IInv, LiveCounted, Decoding, [Next]_vars
  PROVE  Decoding'
<1>1. LoadStep /\ \A t \in Task : old[t] => old'[t]
  BY Zenon, LoadKept
<1>2. Marked' /\ (Undisturbed' => Undisturbed)
  BY Zenon, <1>1 DEF LoadStep, Marked, Undisturbed, Decoding
<1>3. TypeOK /\ \A t \in Task : TaskInv(t)
  BY Zenon DEF IInv
<1> SUFFICES ASSUME Undisturbed, Calm, Marked
             PROVE  Calm'
  BY Zenon, <1>2 DEF Decoding
<1>4. ASSUME NEW t \in Task, NEW reply \in BOOLEAN, NEW then,
             SubreqFinalize(t, reply, then)
      PROVE  call'.task = t /\ (call'.encoded => call'.reply /\ secret[t])
  BY <1>4 DEF SubreqFinalize
<1>5. ASSUME NEW t \in Task, pending_count[t] > 0
      PROVE  ~Enqueued(t)
  BY Zenon, <1>3, <1>5 DEF TaskInv
<1>6. ASSUME NEW t \in Task, Progress(t)
      PROVE  Calm'
  <2>1. CASE OnUdpTimeout(t)
    <3>1. ~Enqueued(t)
      BY Zenon, <1>3, <1>5, <2>1 DEF OnUdpTimeout, TaskInv
    <3>2. call'.task = t /\ (call'.encoded => call'.reply /\ secret[t])
      BY Zenon, <1>4, <2>1 DEF OnUdpTimeout
    <3> QED
      BY Zenon, <2>1, <3>1, <3>2, CallbackCalm DEF OnUdpTimeout
  <2>2. CASE Unpark(t)
    <3>1. ~Enqueued(t)
      BY Zenon, <1>3, <2>2 DEF Unpark, TaskInv
    <3>2. \/ UNCHANGED call
          \/ call'.task = t /\ ~call'.encoded
      BY <2>2 DEF Unpark
    <3> QED
      BY Zenon, <2>2, <3>1, <3>2, CallbackCalm DEF Unpark
  <2>3. CASE OnRetransmit(t) \/ OnSend(t) \/ OnAnswerSent(t)
    BY Zenon, <2>3, CallbackCalm DEF OnRetransmit, OnSend, OnAnswerSent, plan
  <2> QED
    BY Zenon, <1>6, <2>1, <2>2, <2>3 DEF Progress
<1>7. ASSUME NEW t \in Task, Environment(t)
      PROVE  Calm'
  <2>1. ASSUME NEW src \in Sources, WorkerSubmit(t, src)
        PROVE  Calm'
    <3>1. ~Enqueued(t) /\ UNCHANGED <<garbled, waiting, finished, secret>>
      BY Zenon, <1>3, <2>1 DEF WorkerSubmit, TaskInv, plan
    <3>2. call'.task = t /\ ~call'.encoded
      BY <2>1 DEF WorkerSubmit
    <3> QED
      BY Zenon, <3>1, <3>2, CallbackCalm
  <2>2. CASE UdpReply(t)
    <3>1. ~Enqueued(t) /\ UNCHANGED <<garbled, waiting, finished, secret>>
      BY Zenon, <1>5, <2>2 DEF UdpReply, plan
    <3>2. call'.task = t /\ (call'.encoded => call'.reply /\ secret[t])
      BY Zenon, <1>4, <2>2 DEF UdpReply
    <3> QED
      BY Zenon, <3>1, <3>2, CallbackCalm
  <2>3. CASE ClientExpire(t)
    BY Zenon, <2>3 DEF ClientExpire, Undisturbed
  <2>4. CASE ClientEnds(t) \/ Age(t)
    BY Zenon, <2>4, CallbackCalm DEF ClientEnds, Age, plan
  <2> QED
    BY Zenon, <1>7, <2>1, <2>2, <2>3, <2>4 DEF Environment
<1>8. CASE UNCHANGED vars
  BY Zenon, <1>8, CallbackCalm DEF vars, plan
<1> QED
  BY Zenon, <1>6, <1>7, <1>8, NotifyCalm, ReturnCalm DEF Next, Done

\* The comment "Next will be already decoded" of subreq_finalize(): while no
\* task is past its time limit and the worker never ran out of descriptors,
\* every follower, and the leader, reads a packet whose 0x20 bits are decoded.
THEOREM NextIsDecoded == Spec => []AlreadyDecoded
<1>1. Init => Decoding
  <2> SUFFICES ASSUME Init PROVE Decoding
    OBVIOUS
  <2>1. /\ \A t \in Task : ~garbled[t] /\ ~finished[t] /\ call.task # t
        /\ ~too_many_open
    BY Zenon, SubreqAssumption DEF Init, NoCall
  <2> QED
    BY Zenon, <2>1 DEF Decoding, Marked, Calm
<1>2. IInv /\ LiveCounted /\ Decoding /\ [Next]_vars => Decoding'
  BY Zenon, DecodingStep
<1>3. Decoding => AlreadyDecoded
  BY Zenon DEF Decoding, Undisturbed, Calm, AlreadyDecoded
<1> QED
  BY <1>1, <1>2, <1>3, Inductive, CountedAlways, PTL DEF Spec
=============================================================================
