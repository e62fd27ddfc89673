---------------------------- MODULE ClientProofs ----------------------------
(***************************************************************************)
(* What module Client promises of the pointers between tasks and sessions, *)
(* for any number of both and any net.tcp_pipeline().                      *)
(***************************************************************************)
EXTENDS Client, TLAPS

-----------------------------------------------------------------------------
(* The invariant                                                           *)

TypeInv ==
  /\ state \in [Session -> {"free", "open", "closing"}]
  /\ tasklist \in [Session -> SUBSET Task]
  /\ recv \in Session \cup {NoSession} /\ buffered \in Int
  /\ created \in [Task -> BOOLEAN] /\ finished \in [Task -> BOOLEAN]
  /\ primary \in [Task -> BOOLEAN] /\ busy \in [Task -> BOOLEAN]
  /\ source \in [Task -> Session \cup {NoSession}]
  /\ answering \in [Task -> Session \cup {NoSession}]
  /\ overrun \in BOOLEAN

\* A task that does not exist yet is nowhere, one being resolved is not
\* finished, and one whose answer is written has no other client.
TaskInv(t) ==
  /\ ~created[t] => /\ ~finished[t] /\ ~busy[t]
                    /\ source[t] = NoSession /\ answering[t] = NoSession
  /\ busy[t] => ~finished[t]
  /\ answering[t] # NoSession =>
       finished[t] /\ source[t] \in {NoSession, answering[t]}

\* A task on a list is alive and points back, and is finished there only
\* while its answer is written.
ListInv(s, t) ==
  t \in tasklist[s] =>
    primary[t] /\ source[t] = s /\ (finished[t] => answering[t] = s)

\* What holds unless messages were submitted after their session was closed:
\* a client is there, and a session that is not open has no tasks.
SourceInv(t) ==
  source[t] # NoSession =>
    /\ state[source[t]] # "free"
    /\ t \in tasklist[source[t]] \/ answering[t] = source[t]

Clean ==
  /\ \A t \in Task : SourceInv(t)
  /\ \A s \in Session : state[s] # "open" => tasklist[s] = {}
  /\ aborted = "no"

\* A session whose buffer is gone through has not been freed, and if it was
\* closed meanwhile then nothing is left, or the loop has gone too far.
RecvInv ==
  recv # NoSession =>
    /\ state[recv] # "free"
    /\ state[recv] = "closing" /\ buffered > 0 => overrun

IInv ==
  /\ TypeInv
  /\ \A t \in Task : TaskInv(t)
  /\ \A s \in Session : \A t \in Task : ListInv(s, t)
  /\ ~overrun => Clean
  /\ RecvInv

-----------------------------------------------------------------------------
(* The end of a task: qr_task_finalize()                                   *)

\* What of the invariant is about tasks and lists alone.
ListsInv ==
  /\ state \in [Session -> {"free", "open", "closing"}]
  /\ tasklist \in [Session -> SUBSET Task]
  /\ created \in [Task -> BOOLEAN] /\ finished \in [Task -> BOOLEAN]
  /\ primary \in [Task -> BOOLEAN] /\ busy \in [Task -> BOOLEAN]
  /\ source \in [Task -> Session \cup {NoSession}]
  /\ answering \in [Task -> Session \cup {NoSession}]
  /\ \A t \in Task : TaskInv(t)
  /\ \A s \in Session : \A t \in Task : ListInv(s, t)

Placed ==
  /\ \A t \in Task : SourceInv(t)
  /\ \A s \in Session : state[s] # "open" => tasklist[s] = {}

\* t, which may be new, is to be answered to s, on whose list l it is.
Before(t, s, l) ==
  /\ l \in {tasklist[s], tasklist[s] \cup {t}}
  /\ ~finished[t] /\ answering[t] = NoSession /\ source[t] \in {NoSession, s}
  /\ ~overrun => state[s] = "open" /\ t \in l
  /\ created' = [created EXCEPT ![t] = TRUE]

\* The answer is handed over.
LEMMA SentKeeps ==
  ASSUME ListsInv, NEW t \in Task, NEW s \in Session, NEW l, NEW stop, Before(t, s, l),
         AnswerSent(t, s, l, stop)
  PROVE  ListsInv' /\ (Placed /\ ~overrun => Placed')
<1> USE ClientAssumption
<1> DEFINE left == IF s \in Tls THEN l \ {t} ELSE l
<1>1. /\ left \subseteq tasklist[s] \cup {t} /\ tasklist[s] \subseteq left \cup {t}
      /\ s \in Tls => t \notin left
      /\ ~overrun /\ s \notin Tls => t \in left
  BY DEF Before
<1>2. /\ finished' = [finished EXCEPT ![t] = TRUE] /\ busy' = [busy EXCEPT ![t] = FALSE]
      /\ tasklist' = [tasklist EXCEPT ![s] = left] /\ state' = state
      /\ created' = [created EXCEPT ![t] = TRUE]
      /\ \/ /\ s \in Tls /\ primary' = [primary EXCEPT ![t] = FALSE]
            /\ source' = [source EXCEPT ![t] = NoSession] /\ answering' = answering
         \/ /\ s \notin Tls /\ primary' = [primary EXCEPT ![t] = TRUE]
            /\ source' = [source EXCEPT ![t] = s] /\ answering' = [answering EXCEPT ![t] = s]
  BY DEF AnswerSent, Before
<1> HIDE DEF left
<1>3. /\ state' \in [Session -> {"free", "open", "closing"}]
      /\ tasklist' \in [Session -> SUBSET Task]
      /\ created' \in [Task -> BOOLEAN] /\ finished' \in [Task -> BOOLEAN]
      /\ primary' \in [Task -> BOOLEAN] /\ busy' \in [Task -> BOOLEAN]
      /\ source' \in [Task -> Session \cup {NoSession}]
      /\ answering' \in [Task -> Session \cup {NoSession}]
  <2>1. left \in SUBSET Task
    BY <1>1 DEF ListsInv
  <2>2. /\ state' \in [Session -> {"free", "open", "closing"}]
        /\ tasklist' \in [Session -> SUBSET Task]
        /\ created' \in [Task -> BOOLEAN] /\ finished' \in [Task -> BOOLEAN]
        /\ busy' \in [Task -> BOOLEAN]
    BY <1>2, <2>1 DEF ListsInv
  <2>3. primary' \in [Task -> BOOLEAN]
    BY <1>2 DEF ListsInv
  <2>4. /\ source' \in [Task -> Session \cup {NoSession}]
        /\ answering' \in [Task -> Session \cup {NoSession}]
    BY <1>2 DEF ListsInv
  <2> QED
    BY <2>2, <2>3, <2>4
<1>4. ASSUME NEW u \in Task
      PROVE  TaskInv(u)'
  BY <1>2 DEF ListsInv, TaskInv, Before
<1>5. ASSUME NEW z \in Session, NEW u \in Task
      PROVE  ListInv(z, u)'
  <2>1. ListInv(z, u) /\ TaskInv(u)
    BY Zenon DEF ListsInv
  <2>2. CASE u # t
    BY <1>1, <1>2, <2>1, <2>2 DEF ListsInv, ListInv
  <2>3. CASE u = t
    BY <1>1, <1>2, <2>1, <2>3 DEF ListsInv, ListInv, Before
  <2> QED
    BY Zenon, <2>2, <2>3
<1>6. ASSUME Placed, ~overrun
      PROVE  Placed'
  <2>1. ASSUME NEW u \in Task
        PROVE  SourceInv(u)'
    BY <1>1, <1>2, <1>6, <2>1 DEF ListsInv, SourceInv, Placed, Before
  <2>2. ASSUME NEW z \in Session
        PROVE  state'[z] # "open" => tasklist'[z] = {}
    BY <1>2, <1>6 DEF ListsInv, Placed, Before
  <2> QED
    BY Zenon, <2>1, <2>2 DEF Placed
<1> QED
  BY Zenon, <1>3, <1>4, <1>5, <1>6 DEF ListsInv

\* The send fails and the session is closed.
LEMMA FailsKeeps ==
  ASSUME ListsInv, NEW t \in Task, NEW s \in Session, NEW l, Before(t, s, l),
         AnswerFails(t, s, l)
  PROVE  ListsInv' /\ (Placed /\ ~overrun => Placed')
<1> USE ClientAssumption
<1>1. /\ finished' = [finished EXCEPT ![t] = TRUE] /\ busy' = [busy EXCEPT ![t] = FALSE]
      /\ primary' = [primary EXCEPT ![t] = FALSE]
      /\ source' = [u \in Task |-> IF u \in l \cup {t} THEN NoSession ELSE source[u]]
      /\ tasklist' = [tasklist EXCEPT ![s] = {}] /\ state' = [state EXCEPT ![s] = "closing"]
      /\ created' = [created EXCEPT ![t] = TRUE] /\ answering' = answering
  BY DEF AnswerFails, Before, Close
<1>2. /\ state' \in [Session -> {"free", "open", "closing"}]
      /\ tasklist' \in [Session -> SUBSET Task]
      /\ created' \in [Task -> BOOLEAN] /\ finished' \in [Task -> BOOLEAN]
      /\ primary' \in [Task -> BOOLEAN] /\ busy' \in [Task -> BOOLEAN]
      /\ source' \in [Task -> Session \cup {NoSession}]
      /\ answering' \in [Task -> Session \cup {NoSession}]
  BY <1>1 DEF ListsInv
<1>3. \A u \in Task : u \in l \cup {t} <=> u \in tasklist[s] \cup {t}
  BY DEF Before
<1>4. ASSUME NEW u \in Task
      PROVE  TaskInv(u)'
  BY <1>1 DEF ListsInv, TaskInv, Before
<1>5. ASSUME NEW z \in Session, NEW u \in Task
      PROVE  ListInv(z, u)'
  <2>1. ListInv(z, u) /\ TaskInv(u) /\ ListInv(s, u)
    BY Zenon DEF ListsInv
  <2> QED
    BY <1>1, <1>3, <2>1 DEF ListsInv, ListInv, Before
<1>6. ASSUME Placed, ~overrun
      PROVE  Placed'
  <2>1. ASSUME NEW u \in Task
        PROVE  SourceInv(u)'
    BY <1>1, <1>3, <1>6, <2>1 DEF ListsInv, SourceInv, Placed, Before
  <2>2. ASSUME NEW z \in Session
        PROVE  state'[z] # "open" => tasklist'[z] = {}
    BY <1>1, <1>6 DEF ListsInv, Placed, Before
  <2> QED
    BY Zenon, <2>1, <2>2 DEF Placed
<1> QED
  BY Zenon, <1>2, <1>4, <1>5, <1>6 DEF ListsInv

-----------------------------------------------------------------------------
(* Every step keeps the invariant                                          *)

Rest ==
  /\ ~overrun => Placed /\ aborted = "no"
  /\ recv \in Session \cup {NoSession} /\ buffered \in Int /\ overrun \in BOOLEAN

\* The invariant in the parts of the lemmas.
LEMMA Parts == IInv <=> ListsInv /\ RecvInv /\ Rest
BY Zenon DEF IInv, TypeInv, ListsInv, Clean, Placed, Rest

\* The same of the next state.
LEMMA PartsNext == IInv' <=> ListsInv' /\ RecvInv' /\ Rest'
BY Parts, PTL

\* worker_submit() of a message.
LEMMA SubmitKeeps ==
  ASSUME IInv, NEW t \in Task, WorkerSubmit(t)
  PROVE  IInv'
<1> USE ClientAssumption
<1>1. /\ ListsInv /\ RecvInv /\ (~overrun => Placed /\ aborted = "no")
      /\ recv \in Session /\ buffered \in Int /\ overrun \in BOOLEAN
  BY Parts DEF Rest, WorkerSubmit
<1> DEFINE l == tasklist[recv] \cup {t}
           stop == Throttles(recv, Cardinality(l))
<1>2. /\ recv # NoSession /\ buffered > 0 /\ aborted = "no" /\ ~created[t]
      /\ created' = [created EXCEPT ![t] = TRUE] /\ buffered' = buffered - 1 /\ recv' = recv
      /\ overrun' = (overrun \/ (state'[recv] = "closing" /\ buffered > 1))
  BY DEF WorkerSubmit
<1>3. PICK s \in Session : s = recv
  BY Zenon, <1>1
<1>4. ~overrun => state[s] = "open"
  BY <1>1, <1>2, <1>3 DEF RecvInv, ListsInv
<1>5. Before(t, s, l)
  <2>1. TaskInv(t)
    BY Zenon, <1>1 DEF ListsInv
  <2> QED
    BY <1>1, <1>2, <1>3, <1>4, <2>1 DEF Before, TaskInv, ListsInv
<1>6. ListsInv' /\ (~overrun => Placed' /\ aborted' = "no") /\ state'[s] \in {state[s], "closing"}
  <2>1. CASE /\ busy' = [busy EXCEPT ![t] = TRUE] /\ primary' = [primary EXCEPT ![t] = TRUE]
             /\ source' = [source EXCEPT ![t] = recv]
             /\ tasklist' = [tasklist EXCEPT ![recv] = l]
             /\ UNCHANGED <<state, finished, answering, aborted>>
    <3>1. /\ state' \in [Session -> {"free", "open", "closing"}]
          /\ tasklist' \in [Session -> SUBSET Task]
          /\ created' \in [Task -> BOOLEAN] /\ finished' \in [Task -> BOOLEAN]
          /\ primary' \in [Task -> BOOLEAN] /\ busy' \in [Task -> BOOLEAN]
          /\ source' \in [Task -> Session \cup {NoSession}]
          /\ answering' \in [Task -> Session \cup {NoSession}]
      BY <1>1, <1>2, <2>1 DEF ListsInv
    <3>2. ASSUME NEW u \in Task
          PROVE  TaskInv(u)'
      BY <1>1, <1>2, <2>1 DEF ListsInv, TaskInv
    <3>3. ASSUME NEW z \in Session, NEW u \in Task
          PROVE  ListInv(z, u)'
      <4>1. ListInv(z, u) /\ TaskInv(u)
        BY Zenon, <1>1 DEF ListsInv
      <4> QED
        BY <1>1, <1>2, <1>3, <2>1, <4>1 DEF ListsInv, ListInv, TaskInv
    <3>4. ASSUME ~overrun
          PROVE  Placed'
      <4>1. Placed
        BY Zenon, <1>1, <3>4
      <4>2. ASSUME NEW u \in Task
            PROVE  SourceInv(u)'
        BY <1>1, <1>3, <1>4, <2>1, <3>4, <4>1, <4>2 DEF ListsInv, SourceInv, Placed
      <4>3. ASSUME NEW z \in Session
            PROVE  state'[z] # "open" => tasklist'[z] = {}
        BY <1>1, <1>3, <1>4, <2>1, <3>4, <4>1 DEF ListsInv, Placed
      <4> QED
        BY Zenon, <4>2, <4>3 DEF Placed
    <3> QED
      BY <1>1, <2>1, <3>1, <3>2, <3>3, <3>4 DEF ListsInv
  <2>2. CASE Finalize(t, recv, l, stop)
    <3>1. CASE state[recv] = "closing" /\ aborted' = "source" /\ UNCHANGED <<task, sess>>
      <4>1. overrun
        BY <1>1, <1>2, <3>1 DEF RecvInv
      <4>2. /\ UNCHANGED <<state, tasklist, finished, primary, busy, source, answering>>
        BY <3>1 DEF task, sess
      <4>3. created' \in [Task -> BOOLEAN] /\ created \in [Task -> BOOLEAN]
        BY <1>1, <1>2 DEF ListsInv
      <4>4. \A u \in Task : created[u] => created'[u]
        BY <1>2, <4>3
      <4>5. ASSUME NEW u \in Task PROVE TaskInv(u)'
        BY <1>1, <4>2, <4>4 DEF ListsInv, TaskInv
      <4>6. ASSUME NEW z \in Session, NEW u \in Task PROVE ListInv(z, u)'
        BY Zenon, <1>1, <4>2 DEF ListsInv, ListInv
      <4>7. ListsInv'
        BY <1>1, <4>2, <4>3, <4>5, <4>6 DEF ListsInv
      <4> QED
        BY <1>3, <4>1, <4>2, <4>7
    <3>2. CASE AnswerSent(t, recv, l, stop) /\ UNCHANGED aborted
      <4>1. AnswerSent(t, s, l, stop) /\ state' = state
        BY Zenon, <1>3, <3>2 DEF AnswerSent
      <4>2. ListsInv' /\ (Placed /\ ~overrun => Placed')
        BY Zenon, <1>1, <1>5, <4>1, SentKeeps
      <4> QED
        BY Zenon, <1>1, <3>2, <4>1, <4>2
    <3>3. CASE AnswerFails(t, recv, l) /\ UNCHANGED aborted
      <4>1. AnswerFails(t, s, l) /\ state' = [state EXCEPT ![s] = "closing"]
        BY Zenon, <1>3, <3>3 DEF AnswerFails, Close
      <4>2. ListsInv' /\ (Placed /\ ~overrun => Placed')
        BY Zenon, <1>1, <1>5, <4>1, FailsKeeps
      <4>3. state'[s] = "closing"
        BY <1>1, <4>1 DEF ListsInv
      <4> QED
        BY Zenon, <1>1, <3>3, <4>2, <4>3
    <3> QED
      BY Zenon, <1>2, <2>2, <3>1, <3>2, <3>3 DEF Finalize
  <2>3. \/ /\ busy' = [busy EXCEPT ![t] = TRUE] /\ primary' = [primary EXCEPT ![t] = TRUE]
           /\ source' = [source EXCEPT ![t] = recv]
           /\ tasklist' = [tasklist EXCEPT ![recv] = l]
           /\ UNCHANGED <<state, finished, answering, aborted>>
        \/ Finalize(t, recv, l, stop)
    BY DEF WorkerSubmit
  <2> QED
    BY <2>1, <2>2, <2>3
<1>7. /\ overrun' \in BOOLEAN /\ buffered' \in Int /\ recv' \in Session
      /\ overrun => overrun'
  BY <1>1, <1>2
<1>8. RecvInv'
  <2>1. state[s] # "free"
    BY <1>1, <1>3 DEF RecvInv
  <2>2. state'[s] # "free"
    BY <1>6, <2>1
  <2>3. ASSUME state'[s] = "closing", buffered' > 0
        PROVE  overrun'
    <3>1. buffered > 1
      BY <1>1, <1>2, <2>3
    <3> QED
      BY <1>2, <1>3, <2>3, <3>1
  <2>4. recv' = s
    BY Zenon, <1>2, <1>3
  <2> QED
    BY Zenon, <2>2, <2>3, <2>4 DEF RecvInv
<1> QED
  BY Zenon, <1>6, <1>7, <1>8, PartsNext DEF Rest

\* The resolver is done with a task.
LEMMA DoneKeeps ==
  ASSUME IInv, NEW t \in Task, TaskDone(t)
  PROVE  IInv'
<1> USE ClientAssumption
<1>1. /\ ListsInv /\ (~overrun => Placed /\ aborted = "no")
      /\ recv = NoSession /\ buffered \in Int /\ overrun \in BOOLEAN
  BY Parts DEF Rest, TaskDone, Idle
<1>2. /\ busy[t] /\ UNCHANGED <<recv, buffered, created, overrun>>
  BY DEF TaskDone
<1>3. PICK s \in Session \cup {NoSession} : s = source[t]
  BY <1>1 DEF ListsInv
<1>4. TaskInv(t) /\ ~finished[t] /\ answering[t] = NoSession /\ created[t]
  BY <1>1, <1>2 DEF ListsInv, TaskInv
<1>5. Finalize(t, s, IF s = NoSession THEN {} ELSE tasklist[s], FALSE)
  BY Zenon, <1>3 DEF TaskDone
<1>6. ListsInv' /\ (~overrun => Placed' /\ aborted' = "no")
  <2>1. CASE /\ s = NoSession /\ finished' = [finished EXCEPT ![t] = TRUE]
             /\ busy' = [busy EXCEPT ![t] = FALSE] /\ primary' = [primary EXCEPT ![t] = FALSE]
             /\ UNCHANGED <<source, answering, sess, aborted>>
    <3>1. UNCHANGED <<source, answering, state, tasklist, aborted, created>>
      BY <1>2, <2>1 DEF sess
    <3>2. ASSUME NEW u \in Task PROVE TaskInv(u)'
      BY <1>1, <1>4, <2>1, <3>1 DEF ListsInv, TaskInv
    <3>3. ASSUME NEW z \in Session, NEW u \in Task PROVE ListInv(z, u)'
      <4>1. ListInv(z, u) /\ z # NoSession
        BY <1>1 DEF ListsInv
      <4>2. u = t => u \notin tasklist[z]
        BY <1>3, <2>1, <4>1 DEF ListInv
      <4>3. u # t => primary'[u] = primary[u] /\ finished'[u] = finished[u]
        BY <1>1, <2>1 DEF ListsInv
      <4> QED
        BY <3>1, <4>1, <4>2, <4>3 DEF ListInv
    <3>4. Placed => Placed'
      BY <3>1 DEF Placed, SourceInv
    <3> QED
      BY <1>1, <2>1, <3>1, <3>2, <3>3, <3>4 DEF ListsInv
  <2>2. ASSUME s # NoSession
        PROVE  /\ ~overrun => state[s] = "open" /\ t \in tasklist[s]
               /\ Before(t, s, tasklist[s])
    <3>1. ASSUME ~overrun PROVE state[s] = "open" /\ t \in tasklist[s]
      <4>1. SourceInv(t) /\ (state[s] # "open" => tasklist[s] = {})
        BY <1>1, <2>2, <3>1 DEF Placed
      <4> QED
        BY <1>3, <1>4, <2>2, <4>1 DEF SourceInv
    <3>2. created' = [created EXCEPT ![t] = TRUE]
      BY <1>1, <1>2, <1>4 DEF ListsInv
    <3> QED
      BY <1>3, <1>4, <3>1, <3>2 DEF Before
  <2>3. CASE /\ s # NoSession /\ state[s] = "closing" /\ aborted' = "source"
             /\ UNCHANGED <<task, sess>>
    <3>1. overrun
      BY <2>2, <2>3
    <3>2. UNCHANGED <<source, answering, state, tasklist, created, finished, primary, busy>>
      BY <1>2, <2>3 DEF sess, task
    <3>3. ListsInv'
      BY Zenon, <1>1, <3>2 DEF ListsInv, TaskInv, ListInv
    <3> QED
      BY Zenon, <3>1, <3>3
  <2>4. CASE s # NoSession /\ AnswerSent(t, s, tasklist[s], FALSE) /\ UNCHANGED aborted
    <3>1. ListsInv' /\ (Placed /\ ~overrun => Placed')
      BY Zenon, <1>1, <2>2, <2>4, SentKeeps
    <3> QED
      BY Zenon, <1>1, <2>4, <3>1
  <2>5. CASE s # NoSession /\ AnswerFails(t, s, tasklist[s]) /\ UNCHANGED aborted
    <3>1. ListsInv' /\ (Placed /\ ~overrun => Placed')
      BY Zenon, <1>1, <2>2, <2>5, FailsKeeps
    <3> QED
      BY Zenon, <1>1, <2>5, <3>1
  <2> QED
    BY <1>5, <2>1, <2>3, <2>4, <2>5 DEF Finalize
<1>7. RecvInv'
  BY <1>1, <1>2 DEF RecvInv
<1> QED
  BY <1>1, <1>2, <1>6, <1>7, PartsNext DEF Rest

\* worker_end_tcp() of a session that is not free.
LEMMA EndKeeps ==
  ASSUME ListsInv, NEW s \in Session, state[s] # "free", EndTcp(s), UNCHANGED created
  PROVE  ListsInv' /\ (Placed => Placed')
<1> USE ClientAssumption
<1>1. /\ source' = [t \in Task |-> IF t \in tasklist[s] THEN NoSession ELSE source[t]]
      /\ tasklist' = [tasklist EXCEPT ![s] = {}] /\ state' = [state EXCEPT ![s] = "closing"]
      /\ UNCHANGED <<finished, primary, busy, answering, created>>
  BY DEF EndTcp, Close
<1>2. /\ state' \in [Session -> {"free", "open", "closing"}]
      /\ tasklist' \in [Session -> SUBSET Task]
      /\ created' \in [Task -> BOOLEAN] /\ finished' \in [Task -> BOOLEAN]
      /\ primary' \in [Task -> BOOLEAN] /\ busy' \in [Task -> BOOLEAN]
      /\ source' \in [Task -> Session \cup {NoSession}]
      /\ answering' \in [Task -> Session \cup {NoSession}]
  BY <1>1 DEF ListsInv
<1>3. ASSUME NEW u \in Task PROVE TaskInv(u)'
  BY <1>1 DEF ListsInv, TaskInv
<1>4. ASSUME NEW z \in Session, NEW u \in Task PROVE ListInv(z, u)'
  <2>1. ListInv(z, u) /\ ListInv(s, u)
    BY Zenon DEF ListsInv
  <2> QED
    BY <1>1, <2>1 DEF ListsInv, ListInv
<1>5. ASSUME Placed PROVE Placed'
  <2>1. ASSUME NEW u \in Task PROVE SourceInv(u)'
    BY <1>1, <1>5, <2>1 DEF ListsInv, SourceInv, Placed
  <2>2. ASSUME NEW z \in Session PROVE state'[z] # "open" => tasklist'[z] = {}
    BY <1>1, <1>5 DEF ListsInv, Placed
  <2> QED
    BY Zenon, <2>1, <2>2 DEF Placed
<1> QED
  BY Zenon, <1>2, <1>3, <1>4, <1>5 DEF ListsInv

\* tcp_recv() is done with the buffer, or the connection ends.
LEMMA RecvEndKeeps ==
  ASSUME IInv, TcpRecvReturns \/ \E s \in Session : TcpRecvEnd(s)
  PROVE  IInv'
<1> USE ClientAssumption
<1>1. /\ ListsInv /\ RecvInv /\ (~overrun => Placed /\ aborted = "no")
      /\ recv \in Session \cup {NoSession} /\ buffered \in Int /\ overrun \in BOOLEAN
  BY Zenon, Parts DEF Rest
<1>2. recv' = NoSession /\ UNCHANGED <<buffered, created, aborted, overrun>>
  BY DEF TcpRecvReturns, TcpRecvEnd, Idle
<1>3. ListsInv' /\ (Placed => Placed')
  <2>1. CASE \E s \in Session : state[s] # "free" /\ EndTcp(s)
    BY Zenon, <1>1, <1>2, <2>1, EndKeeps
  <2>2. CASE UNCHANGED <<sess, task>>
    <3>1. UNCHANGED <<source, answering, state, tasklist, created, finished, primary, busy>>
      BY <1>2, <2>2 DEF sess, task
    <3>2. ListsInv'
      BY Zenon, <1>1, <3>1 DEF ListsInv, TaskInv, ListInv
    <3>3. Placed => Placed'
      BY <3>1 DEF Placed, SourceInv
    <3> QED  BY Zenon, <3>2, <3>3
  <2>3. \/ \E s \in Session : state[s] # "free" /\ EndTcp(s)
        \/ UNCHANGED <<sess, task>>
    <3>1. CASE TcpRecvReturns
      <4>1. recv \in Session /\ state[recv] # "free"
        BY <1>1, <3>1 DEF TcpRecvReturns, RecvInv
      <4> QED
        BY Zenon, <3>1, <4>1 DEF TcpRecvReturns
    <3>2. CASE \E s \in Session : TcpRecvEnd(s)
      <4>1. PICK s \in Session : TcpRecvEnd(s)
        BY Zenon, <3>2
      <4>2. state[s] # "free"
        BY <4>1 DEF TcpRecvEnd
      <4> QED
        BY Zenon, <4>1, <4>2 DEF TcpRecvEnd
    <3> QED
      BY Zenon, <3>1, <3>2
  <2> QED
    BY Zenon, <2>1, <2>2, <2>3
<1>4. RecvInv'
  BY <1>2 DEF RecvInv
<1> QED
  BY <1>1, <1>2, <1>3, <1>4, PartsNext DEF Rest

\* on_write(): the answer is out, the task is completed.
LEMMA WriteKeeps ==
  ASSUME IInv, NEW t \in Task, OnWrite(t)
  PROVE  IInv'
<1> USE ClientAssumption
<1>1. /\ ListsInv /\ (~overrun => Placed /\ aborted = "no")
      /\ recv = NoSession /\ buffered \in Int /\ overrun \in BOOLEAN
  BY Parts DEF Rest, OnWrite, Idle
<1>2. PICK s \in Session : s = answering[t]
  BY <1>1 DEF ListsInv, OnWrite
<1>3. /\ answering' = [answering EXCEPT ![t] = NoSession]
      /\ source' = [source EXCEPT ![t] = NoSession]
      /\ primary' = [primary EXCEPT ![t] = FALSE]
      /\ tasklist' = [tasklist EXCEPT ![s] = tasklist[s] \ {t}]
      /\ UNCHANGED <<state, recv, buffered, created, finished, busy, aborted, overrun>>
  BY <1>2 DEF OnWrite
<1>4. /\ finished[t] /\ ~busy[t] /\ created[t] /\ source[t] \in {NoSession, s}
  BY <1>1, <1>2 DEF ListsInv, TaskInv
<1>5. /\ state' \in [Session -> {"free", "open", "closing"}]
      /\ tasklist' \in [Session -> SUBSET Task]
      /\ created' \in [Task -> BOOLEAN] /\ finished' \in [Task -> BOOLEAN]
      /\ primary' \in [Task -> BOOLEAN] /\ busy' \in [Task -> BOOLEAN]
  BY <1>1, <1>3 DEF ListsInv
<1>6. /\ source' \in [Task -> Session \cup {NoSession}]
      /\ answering' \in [Task -> Session \cup {NoSession}]
  BY <1>1, <1>3 DEF ListsInv
<1>7. ASSUME NEW u \in Task PROVE TaskInv(u)'
  BY <1>1, <1>3, <1>4 DEF ListsInv, TaskInv
<1>8. ASSUME NEW z \in Session, NEW u \in Task PROVE ListInv(z, u)'
  <2>1. ListInv(z, u) /\ z # NoSession
    BY <1>1 DEF ListsInv
  <2>2. u = t => u \notin tasklist'[z]
    BY <1>1, <1>3, <1>4, <2>1 DEF ListInv, ListsInv
  <2>3. u # t => /\ primary'[u] = primary[u] /\ finished'[u] = finished[u]
                 /\ source'[u] = source[u] /\ answering'[u] = answering[u]
    BY <1>1, <1>3 DEF ListsInv
  <2>4. u \in tasklist'[z] => u \in tasklist[z]
    BY <1>1, <1>3 DEF ListsInv
  <2> QED
    BY Zenon, <2>1, <2>2, <2>3, <2>4 DEF ListInv
<1>9. ASSUME Placed PROVE Placed'
  <2>1. ASSUME NEW u \in Task PROVE SourceInv(u)'
    <3>1. SourceInv(u)
      BY Zenon, <1>9 DEF Placed
    <3>2. CASE u = t
      BY Zenon, <1>1, <1>3, <3>2 DEF SourceInv, ListsInv
    <3>3. CASE u # t
      <4>1. source'[u] = source[u] /\ answering'[u] = answering[u] /\ state' = state
        BY <1>1, <1>3, <3>3 DEF ListsInv
      <4>2. ASSUME NEW z \in Session PROVE u \in tasklist[z] => u \in tasklist'[z]
        BY <1>1, <1>3, <3>3 DEF ListsInv
      <4>3. source[u] \in Session \cup {NoSession}
        BY <1>1 DEF ListsInv
      <4> QED
        BY <3>1, <4>1, <4>2, <4>3 DEF SourceInv
    <3> QED
      BY <3>2, <3>3
  <2>2. ASSUME NEW z \in Session PROVE state'[z] # "open" => tasklist'[z] = {}
    BY <1>1, <1>3, <1>9 DEF ListsInv, Placed
  <2> QED
    BY Zenon, <2>1, <2>2 DEF Placed
<1>10. ListsInv'
  BY Zenon, <1>5, <1>6, <1>7, <1>8 DEF ListsInv
<1>11. RecvInv'
  BY <1>1, <1>3 DEF RecvInv
<1> QED
  BY <1>1, <1>3, <1>9, <1>10, <1>11, PartsNext DEF Rest

\* The timer of a session that is being read from.
LEMMA TimeoutKeeps ==
  ASSUME IInv, NEW s \in Session, TcpTimeoutTrigger(s)
  PROVE  IInv'
<1> USE ClientAssumption
<1>1. /\ ListsInv /\ (~overrun => Placed /\ aborted = "no")
      /\ recv = NoSession /\ buffered \in Int /\ overrun \in BOOLEAN
      /\ state[s] = "open"
  BY Parts DEF Rest, TcpTimeoutTrigger, Expire, Idle
<1>2. PICK E \in SUBSET tasklist[s] : \E sent \in SUBSET E : Expire(s, E, sent)
  BY Zenon DEF TcpTimeoutTrigger
<1>3. PICK sent \in SUBSET E : Expire(s, E, sent)
  BY Zenon, <1>2
<1>4. UNCHANGED <<recv, buffered, created, aborted, overrun>>
  BY Zenon, <1>3 DEF Expire
<1> DEFINE todo  == {t \in E : ~finished[t]}
           fails == sent # todo
           done  == IF s \in Tls THEN todo ELSE todo \ sent
           left  == tasklist[s] \ E
           lost  == done \cup IF fails THEN left ELSE {}
<1>5. /\ finished' = [t \in Task |-> finished[t] \/ t \in todo]
      /\ busy' = [t \in Task |-> busy[t] /\ t \notin todo]
      /\ primary' = [t \in Task |-> primary[t] /\ t \notin done]
      /\ source' = [t \in Task |-> IF t \in lost THEN NoSession ELSE source[t]]
      /\ answering' = [t \in Task |->
           IF t \in sent /\ s \notin Tls THEN s ELSE answering[t]]
      /\ tasklist' = [tasklist EXCEPT ![s] = IF fails THEN {} ELSE left]
      /\ \/ (fails \/ left = {}) /\ state' = [state EXCEPT ![s] = "closing"]
         \/ ~fails /\ state' = state
  BY ZenonT(30), <1>3 DEF Expire, Close
<1>6. /\ todo \subseteq E /\ E \subseteq tasklist[s] /\ sent \subseteq todo
      /\ \A t \in todo : ~finished[t]
      /\ \A t \in E \ todo : finished[t]
      /\ left = tasklist[s] \ E /\ (fails => s \in Tls) /\ (~fails => sent = todo)
      /\ done = (IF s \in Tls THEN todo ELSE {})
      /\ lost = done \cup IF fails THEN left ELSE {}
  BY <1>3 DEF Expire, Close
<1> HIDE DEF todo, fails, done, left, lost
<1>7. /\ state' \in [Session -> {"free", "open", "closing"}]
      /\ tasklist' \in [Session -> SUBSET Task]
      /\ created' \in [Task -> BOOLEAN] /\ finished' \in [Task -> BOOLEAN]
      /\ primary' \in [Task -> BOOLEAN] /\ busy' \in [Task -> BOOLEAN]
  BY Zenon, <1>1, <1>4, <1>5, <1>6 DEF ListsInv
<1>8. /\ source' \in [Task -> Session \cup {NoSession}]
      /\ answering' \in [Task -> Session \cup {NoSession}]
  BY <1>1, <1>5 DEF ListsInv
<1>9. ASSUME NEW u \in Task, u \in tasklist[s]
      PROVE  source[u] = s /\ primary[u] /\ created[u] /\ (finished[u] => answering[u] = s)
  <2>1. ListInv(s, u) /\ TaskInv(u) /\ s # NoSession
    BY <1>1 DEF ListsInv
  <2> QED
    BY <1>9, <2>1 DEF ListInv, TaskInv
<1>10. ASSUME NEW u \in Task PROVE TaskInv(u)'
  <2>1. TaskInv(u)
    BY Zenon, <1>1 DEF ListsInv
  <2>2. CASE u \in tasklist[s]
    <3>1. u \notin lost => source'[u] = s
      BY <1>5, <1>9, <2>2
    <3>2. u \in lost => source'[u] = NoSession
      BY Zenon, <1>5
    <3> QED
      BY <1>4, <1>5, <1>6, <1>9, <2>1, <2>2, <3>1, <3>2 DEF TaskInv
  <2>3. CASE u \notin tasklist[s]
    <3>1. u \notin todo /\ u \notin lost /\ u \notin sent /\ u \notin done
      BY <1>6, <2>3
    <3> QED
      BY <1>1, <1>4, <1>5, <2>1, <3>1 DEF TaskInv, ListsInv
  <2> QED
    BY <2>2, <2>3
<1>11. ASSUME NEW z \in Session, NEW u \in Task PROVE ListInv(z, u)'
  <2>1. ListInv(z, u) /\ z # NoSession
    BY Zenon, <1>1 DEF ListsInv
  <2>2. SUFFICES ASSUME u \in tasklist'[z] PROVE ListInv(z, u)'
    BY DEF ListInv
  <2>3. /\ u \in tasklist[z]
        /\ z = s => u \notin E /\ ~fails
    BY Zenon, <1>1, <1>5, <1>6, <2>2 DEF ListsInv
  <2>4. z # s => u \notin tasklist[s]
    BY <1>9, <2>1, <2>3 DEF ListInv
  <2>5. u \notin todo /\ u \notin lost /\ u \notin sent /\ u \notin done
    BY <1>6, <2>3, <2>4
  <2>6. source'[u] = source[u] /\ finished'[u] = finished[u] /\ answering'[u] = answering[u]
    BY <1>1, <1>5, <2>5 DEF ListsInv
  <2>7. primary'[u] = primary[u]
    BY <1>1, <1>5, <2>5 DEF ListsInv
  <2> QED
    BY <2>1, <2>3, <2>6, <2>7 DEF ListInv
<1>12. ASSUME Placed PROVE Placed'
  <2>1. ASSUME NEW u \in Task PROVE SourceInv(u)'
    <3>1. SourceInv(u)
      BY Zenon, <1>12 DEF Placed
    <3>2. SUFFICES ASSUME source'[u] # NoSession PROVE SourceInv(u)'
      BY DEF SourceInv
    <3>3. source'[u] = source[u] /\ u \notin lost /\ source[u] \in Session
      BY <1>1, <1>5, <3>2 DEF ListsInv
    <3>4. state'[source[u]] # "free"
      BY Zenon, <1>1, <1>5, <3>1, <3>3 DEF ListsInv, SourceInv
    <3>5. CASE u \notin tasklist[s]
      <4>1. u \notin sent /\ \A z \in Session : u \in tasklist[z] => u \in tasklist'[z]
        BY Zenon, <1>1, <1>5, <1>6, <3>5 DEF ListsInv
      <4>2. answering'[u] = answering[u]
        BY Zenon, <1>5, <4>1
      <4> QED
        BY <3>1, <3>3, <3>4, <4>1, <4>2 DEF SourceInv
    <3>6. CASE u \in tasklist[s] /\ u \in E
      <4>1. source[u] = s
        BY Zenon, <1>9, <3>6
      <4>2. answering'[u] = s
        BY Zenon, <1>5, <1>6, <1>9, <3>3, <3>6
      <4> QED
        BY Zenon, <3>3, <3>4, <4>1, <4>2 DEF SourceInv
    <3>7. CASE u \in tasklist[s] /\ u \notin E
      <4>1. source[u] = s /\ u \in left /\ ~fails
        BY <1>6, <1>9, <3>3, <3>7
      <4>2. u \in tasklist'[s]
        BY <1>1, <1>5, <4>1 DEF ListsInv
      <4> QED
        BY <3>3, <3>4, <4>1, <4>2 DEF SourceInv
    <3> QED
      BY <3>5, <3>6, <3>7
  <2>2. ASSUME NEW z \in Session PROVE state'[z] # "open" => tasklist'[z] = {}
    BY <1>1, <1>5, <1>12 DEF ListsInv, Placed
  <2> QED
    BY Zenon, <2>1, <2>2 DEF Placed
<1>13. ListsInv'
  BY Zenon, <1>7, <1>8, <1>10, <1>11 DEF ListsInv
<1>14. RecvInv'
  BY <1>1, <1>4 DEF RecvInv
<1> QED
  BY Zenon, <1>1, <1>4, <1>12, <1>13, <1>14, PartsNext DEF Rest

\* Steps that leave the tasks and the lists alone: a connection is accepted, a
\* read begins, a message is dropped.
LEMMA ReadKeeps ==
  ASSUME IInv,
         \/ DropMessage
         \/ \E s \in Session : TcpAccept(s) \/ \E n \in 1 .. MaxBatch[s] : TcpRecv(s, n)
  PROVE  IInv'
<1> USE ClientAssumption
<1>1. /\ ListsInv /\ RecvInv /\ (~overrun => Placed /\ aborted = "no")
      /\ recv \in Session \cup {NoSession} /\ buffered \in Int /\ overrun \in BOOLEAN
  BY Zenon, Parts DEF Rest
<1>2. UNCHANGED <<tasklist, created, finished, primary, busy, source, answering, aborted, overrun>>
  BY DEF DropMessage, TcpAccept, TcpRecv, sess, task
<1>3. /\ recv' \in Session \cup {NoSession} /\ buffered' \in Int
      /\ state' = state \/ \E s \in Session : /\ state[s] = "free" /\ recv' = NoSession
                                              /\ state' = [state EXCEPT ![s] = "open"]
  <2>1. CASE DropMessage
    BY <1>1, <2>1 DEF DropMessage, sess
  <2>2. ASSUME NEW s \in Session, TcpAccept(s)
        PROVE  <1>3!1 /\ <1>3!2
    BY <1>1, <2>2 DEF TcpAccept, Idle
  <2>3. ASSUME NEW s \in Session, NEW n \in 1 .. MaxBatch[s], TcpRecv(s, n)
        PROVE  <1>3!1 /\ <1>3!2
    BY <1>1, <2>3 DEF TcpRecv, sess
  <2> QED
    BY <2>1, <2>2, <2>3
<1>4. RecvInv'
  <2>1. CASE DropMessage
    BY <1>1, <1>2, <2>1 DEF DropMessage, sess, RecvInv
  <2>2. ASSUME NEW s \in Session, TcpAccept(s)
        PROVE  RecvInv'
    BY <2>2 DEF TcpAccept, Idle, RecvInv
  <2>3. ASSUME NEW s \in Session, NEW n \in 1 .. MaxBatch[s], TcpRecv(s, n)
        PROVE  RecvInv'
    BY <2>3 DEF TcpRecv, sess, RecvInv
  <2> QED
    BY <2>1, <2>2, <2>3
<1>5. ListsInv'
  <2>1. state' \in [Session -> {"free", "open", "closing"}]
    BY <1>1, <1>3 DEF ListsInv
  <2> QED
    BY Zenon, <1>1, <1>2, <2>1 DEF ListsInv, TaskInv, ListInv
<1>6. ASSUME Placed PROVE Placed'
  <2>1. ASSUME NEW z \in Session PROVE state'[z] # "open" => state'[z] = state[z]
    BY <1>1, <1>3 DEF ListsInv
  <2>2. ASSUME NEW u \in Task PROVE SourceInv(u)'
    <3>1. SourceInv(u) /\ source[u] \in Session \cup {NoSession}
      BY <1>1, <1>6 DEF Placed, ListsInv
    <3> QED
      BY <1>2, <2>1, <3>1 DEF SourceInv
  <2> QED
    BY <1>2, <1>6, <2>1, <2>2 DEF Placed
<1> QED
  BY <1>1, <1>2, <1>3, <1>4, <1>5, <1>6, PartsNext DEF Rest

\* on_session_close(): nobody points at the session any more.
LEMMA CloseKeeps ==
  ASSUME IInv, NEW s \in Session, OnSessionClose(s)
  PROVE  IInv'
<1> USE ClientAssumption
<1>1. /\ ListsInv /\ (~overrun => Placed /\ aborted = "no")
      /\ recv = NoSession /\ buffered \in Int /\ overrun \in BOOLEAN
  BY Parts DEF Rest, OnSessionClose, Idle
<1>2. /\ UNCHANGED <<tasklist, recv, buffered, created, finished, primary, busy, source,
                     answering, aborted, overrun>>
      /\ state[s] = "closing" /\ state' = [state EXCEPT ![s] = "free"]
      /\ \A t \in Task : answering[t] # s
  BY DEF OnSessionClose, task
<1>3. ListsInv'
  <2>1. state' \in [Session -> {"free", "open", "closing"}]
    BY <1>1, <1>2 DEF ListsInv
  <2> QED
    BY Zenon, <1>1, <1>2, <2>1 DEF ListsInv, TaskInv, ListInv
<1>4. ASSUME Placed PROVE Placed'
  <2>1. ASSUME NEW u \in Task PROVE SourceInv(u)'
    <3>1. SourceInv(u) /\ source[u] \in Session \cup {NoSession} /\ tasklist[s] = {}
      BY Zenon, <1>1, <1>2, <1>4 DEF Placed, ListsInv
    <3>2. source[u] # s
      BY <1>2, <3>1 DEF SourceInv
    <3>3. source[u] # NoSession => state'[source[u]] = state[source[u]]
      BY <1>1, <1>2, <3>1, <3>2 DEF ListsInv
    <3> QED
      BY <1>2, <3>1, <3>3 DEF SourceInv
  <2>2. ASSUME NEW z \in Session PROVE state'[z] # "open" => tasklist'[z] = {}
    BY <1>1, <1>2, <1>4 DEF ListsInv, Placed
  <2> QED
    BY Zenon, <2>1, <2>2 DEF Placed
<1>5. RecvInv'
  BY <1>1, <1>2 DEF RecvInv
<1> QED
  BY <1>1, <1>2, <1>3, <1>4, <1>5, PartsNext DEF Rest

-----------------------------------------------------------------------------
(* The theorem                                                             *)

LEMMA Initially == Init => IInv
<1> SUFFICES ASSUME Init PROVE IInv
  OBVIOUS
<1>1. TypeInv
  <2>1. /\ state \in [Session -> {"free", "open", "closing"}]
        /\ tasklist \in [Session -> SUBSET Task]
    BY DEF Init
  <2>2. /\ created \in [Task -> BOOLEAN] /\ finished \in [Task -> BOOLEAN]
        /\ primary \in [Task -> BOOLEAN] /\ busy \in [Task -> BOOLEAN]
    BY DEF Init
  <2>3. /\ source \in [Task -> Session \cup {NoSession}]
        /\ answering \in [Task -> Session \cup {NoSession}]
    BY DEF Init
  <2>4. recv \in Session \cup {NoSession} /\ buffered \in Int
    BY DEF Init
  <2>5. overrun \in BOOLEAN
    BY Zenon DEF Init
  <2> QED
    BY Zenon, <2>1, <2>2, <2>3, <2>4, <2>5 DEF TypeInv
<1>2. ASSUME NEW t \in Task PROVE TaskInv(t) /\ SourceInv(t)
  BY DEF Init, TaskInv, SourceInv
<1>3. ASSUME NEW s \in Session PROVE tasklist[s] = {}
  BY DEF Init
<1>4. RecvInv /\ Clean
  BY <1>2, <1>3 DEF Init, RecvInv, Clean
<1> QED
  BY <1>1, <1>2, <1>3, <1>4 DEF IInv, ListInv

\* Every callback of the event loop keeps the invariant.
LEMMA Step == IInv /\ [Next]_vars => IInv'
<1> SUFFICES ASSUME IInv, [Next]_vars PROVE IInv'
  OBVIOUS
<1>1. ASSUME NEW t \in Task, WorkerSubmit(t) PROVE IInv'
  BY Zenon, <1>1, SubmitKeeps
<1>2. ASSUME NEW t \in Task, TaskDone(t) PROVE IInv'
  BY Zenon, <1>2, DoneKeeps
<1>3. ASSUME NEW t \in Task, OnWrite(t) PROVE IInv'
  BY Zenon, <1>3, WriteKeeps
<1>4. CASE DropMessage
  BY Zenon, <1>4, ReadKeeps
<1>5. CASE TcpRecvReturns
  BY Zenon, <1>5, RecvEndKeeps
<1>6. ASSUME NEW s \in Session, TcpAccept(s) PROVE IInv'
  BY Zenon, <1>6, ReadKeeps
<1>7. ASSUME NEW s \in Session, NEW n \in 1 .. MaxBatch[s], TcpRecv(s, n) PROVE IInv'
  BY Zenon, <1>7, ReadKeeps
<1>8. ASSUME NEW s \in Session, TcpRecvEnd(s) PROVE IInv'
  BY Zenon, <1>8, RecvEndKeeps
<1>9. ASSUME NEW s \in Session, TcpTimeoutTrigger(s) PROVE IInv'
  BY Zenon, <1>9, TimeoutKeeps
<1>10. ASSUME NEW s \in Session, OnSessionClose(s) PROVE IInv'
  BY Zenon, <1>10, CloseKeeps
<1>11. CASE UNCHANGED vars
  BY Zenon, <1>11
     DEF vars, sess, task, IInv, TypeInv, TaskInv, ListInv, Clean, SourceInv, RecvInv
<1> QED
  BY Zenon, <1>1, <1>2, <1>3, <1>4, <1>5, <1>6, <1>7, <1>8, <1>9, <1>10, <1>11 DEF Next

\* For any number of connections and queries, any pipeline limit and any batch
\* of messages a read may complete: a request points at its client's session
\* only while the session's memory is there, a task on a session's list is
\* alive and points back at it, a session is closed and freed with an empty
\* list, and no answer is sent to a closing session - as long as no message
\* was submitted after its session was closed by the one before.
THEOREM SourcesAreAlive == Spec => []SourceAlive
<1>1. IInv => SourceAlive
  BY DEF IInv, TypeInv, ListInv, Clean, SourceInv, SourceAlive
<1> QED
  BY Initially, Step, <1>1, PTL DEF Spec
=============================================================================
