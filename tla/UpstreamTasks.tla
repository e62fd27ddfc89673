---------------------------- MODULE UpstreamTasks ---------------------------
(***************************************************************************)
(* Where the tasks of module Upstream are, for any number of tasks, peers  *)
(* and sessions and any value of the limits.                               *)
(*                                                                         *)
(* LifeInv(t) says where a task may be in each phase of its life.  A step  *)
(* moves one task, or finishes those it takes off the lists, and leaves    *)
(* every other one where it is (Still): lemmas MoveKeeps and FailKeeps say *)
(* that such steps keep LifeInv, and each action is shown to be one of     *)
(* them.  That a session's two lists are never both in use comes from the  *)
(* invariant of the maps (module UpstreamProofs).                          *)
(***************************************************************************)
EXTENDS UpstreamProofs, FiniteSetTheorems

-----------------------------------------------------------------------------
(* The place of a task                                                     *)

Listed(t, s) == t \in Elements(waitinglist[s]) \cup tasklist[s]

Off(t) == \A s \in Session : ~Listed(t, s)

\* A task that is stepped by nothing, is being stepped, has a query out over
\* UDP, or is on a list of s.
Nowhere(t) == now # t /\ ~on_udp[t] /\ Off(t)
AtNow(t) == now = t /\ ~on_udp[t] /\ Off(t)
AtUdp(t) == now # t /\ on_udp[t] /\ Off(t)
AtList(t, s) ==
  /\ now # t /\ ~on_udp[t]
  /\ \A z \in Session : (Listed(t, z) <=> z = s) /\ Once(t, waitinglist[z])

\* A failed write takes a task from its list and leaves it nowhere; the
\* process may have ended halfway through a callback.
Lost == aborted # "no" \/ "write" \in Faults

Placed(t) == \/ AtNow(t) \/ AtUdp(t) \/ \E s \in Session : AtList(t, s)
             \/ Nowhere(t) /\ Lost

\* An unfinished task holds its primary reference and is in one place.
LifeInv(t) ==
  /\ ~created[t] => Nowhere(t)
  /\ ~finished[t] => ~answering[t]
  /\ created[t] /\ ~finished[t] => primary[t] /\ Placed(t)

LifeType ==
  /\ created \in [Task -> BOOLEAN] /\ finished \in [Task -> BOOLEAN]
  /\ primary \in [Task -> BOOLEAN] /\ answering \in [Task -> BOOLEAN]
  /\ on_udp \in [Task -> BOOLEAN]

\* The process does not come back to life.
Ends1 == aborted = "no" \/ aborted' = aborted

\* A step changes nothing of the life of t, and does not move it.
Same(t) == /\ created'[t] = created[t] /\ finished'[t] = finished[t]
           /\ primary'[t] = primary[t] /\ answering'[t] = answering[t]

Still(t) ==
  /\ now' = t <=> now = t
  /\ on_udp'[t] = on_udp[t]
  /\ \A z \in Session : /\ Listed(t, z)' <=> Listed(t, z)
                        /\ Once(t, waitinglist[z]) => Once(t, waitinglist'[z])

LEMMA StillPlace ==
  ASSUME NEW t \in Task, Still(t), Ends1
  PROVE  /\ Nowhere(t) <=> Nowhere(t)'
         /\ Placed(t) => Placed(t)'
<1>1. Off(t) <=> Off(t)'
  BY Zenon DEF Off, Still
<1>2. /\ Nowhere(t) <=> Nowhere(t)'
      /\ AtNow(t) => AtNow(t)'
      /\ AtUdp(t) => AtUdp(t)'
  BY Zenon, <1>1 DEF Still, Nowhere, AtNow, AtUdp
<1>3. ASSUME NEW s \in Session, AtList(t, s) PROVE AtList(t, s)'
  BY Zenon, <1>3 DEF Still, AtList
<1>4. Lost => Lost'
  BY Zenon DEF Lost, Ends1
<1> QED
  BY Zenon, <1>2, <1>3, <1>4 DEF Placed

\* A task left alone, finished in its place, finished and known, and moved.
LEMMA Stays ==
  ASSUME NEW t \in Task, LifeInv(t), Same(t), Still(t), Ends1
  PROVE  LifeInv(t)'
BY Zenon, StillPlace DEF LifeInv, Same

LEMMA EndsInPlace ==
  ASSUME NEW t \in Task, LifeInv(t), Still(t), Ends1, finished'[t], created'[t] = created[t]
  PROVE  LifeInv(t)'
BY Zenon, StillPlace DEF LifeInv

LEMMA EndsKnown ==
  ASSUME NEW t \in Task, finished'[t], created'[t]
  PROVE  LifeInv(t)'
BY Zenon DEF LifeInv

LEMMA GoesTo ==
  ASSUME NEW t \in Task, created'[t], finished'[t] \/ (primary'[t] /\ ~answering'[t]),
         \/ AtNow(t)' \/ AtUdp(t)' \/ \E s \in Session : AtList(t, s)'
         \/ Nowhere(t)' /\ Lost'
  PROVE  LifeInv(t)'
BY Zenon DEF LifeInv, Placed

\* A task that is somewhere was created, and if it is on a list of s and not
\* finished then that is where it is.
LEMMA SomewhereIsCreated ==
  ASSUME NEW t \in Task, LifeInv(t), ~Nowhere(t)
  PROVE  created[t] /\ (~finished[t] => primary[t] /\ ~answering[t])
BY Zenon DEF LifeInv

LEMMA ListedIsThere ==
  ASSUME NEW t \in Task, LifeInv(t), NEW s \in Session, Listed(t, s)
  PROVE  /\ created[t]
         /\ ~finished[t] => primary[t] /\ ~answering[t] /\ AtList(t, s)
<1>1. ~Off(t)
  BY Zenon DEF Off
<1>2. ~Nowhere(t) /\ ~AtNow(t) /\ ~AtUdp(t)
  BY Zenon, <1>1 DEF Nowhere, AtNow, AtUdp
<1>3. created[t] /\ (~finished[t] => primary[t] /\ ~answering[t])
  BY Zenon, <1>2, SomewhereIsCreated
<1>4. ASSUME ~finished[t] PROVE AtList(t, s)
  <2>1. PICK z \in Session : AtList(t, z)
    BY Zenon, <1>2, <1>3, <1>4 DEF LifeInv, Placed
  <2>2. s = z
    BY Zenon, <2>1 DEF AtList
  <2> QED
    BY Zenon, <2>1, <2>2
<1> QED
  BY Zenon, <1>3, <1>4

LEMMA NowIsThere ==
  ASSUME LifeInv(now), now \in Task
  PROVE  created[now] /\ (~finished[now] => primary[now] /\ ~answering[now] /\ AtNow(now))
<1>1. PICK t \in Task : t = now
  OBVIOUS
<1>2. ~Nowhere(t) /\ ~AtUdp(t) /\ (\A s \in Session : ~AtList(t, s))
  BY Zenon, <1>1 DEF Nowhere, AtUdp, AtList
<1> QED
  BY Zenon, <1>1, <1>2 DEF LifeInv, Placed

\* qr_task_finalize() of the tasks of S finishes them and no other.
LEMMA Finalized ==
  ASSUME LifeType, NEW S, Finalize(S)
  PROVE  /\ finished' \in [Task -> BOOLEAN] /\ primary' \in [Task -> BOOLEAN]
         /\ answering' \in [Task -> BOOLEAN]
         /\ \A t \in Task \cap S : finished'[t]
         /\ \A t \in Task \ S : /\ finished'[t] = finished[t] /\ primary'[t] = primary[t]
                                /\ answering'[t] = answering[t]
<1> DEFINE todo == {t \in S : ~finished[t]}
<1>1. PICK bad \in SUBSET todo :
        LET gone == bad \cup {t \in todo : source[t] = "none"} IN
        /\ finished' = [t \in Task |-> finished[t] \/ t \in todo]
        /\ answering' = [t \in Task |-> answering[t] \/ t \in todo \ gone]
        /\ primary' = [t \in Task |-> primary[t] /\ t \notin gone]
  BY Zenon DEF Finalize
<1> DEFINE gone == bad \cup {t \in todo : source[t] = "none"}
<1>2. /\ finished' = [t \in Task |-> finished[t] \/ t \in todo]
      /\ answering' = [t \in Task |-> answering[t] \/ t \in todo \ gone]
      /\ primary' = [t \in Task |-> primary[t] /\ t \notin gone]
      /\ gone \subseteq todo
  BY <1>1
<1>3. \A t \in Task : t \in todo <=> t \in S /\ ~finished[t]
  OBVIOUS
<1> HIDE DEF todo, gone
<1>4. /\ finished' \in [Task -> BOOLEAN] /\ primary' \in [Task -> BOOLEAN]
      /\ answering' \in [Task -> BOOLEAN]
  BY Zenon, <1>2
<1>5. ASSUME NEW t \in Task, t \in S PROVE finished'[t]
  BY Zenon, <1>2, <1>3, <1>5
<1>6. ASSUME NEW t \in Task, t \notin S
      PROVE  /\ finished'[t] = finished[t] /\ primary'[t] = primary[t]
             /\ answering'[t] = answering[t]
  <2>1. t \notin todo /\ t \notin gone
    BY Zenon, <1>2, <1>3, <1>6
  <2> QED
    BY Zenon, <1>2, <2>1 DEF LifeType
<1> QED
  BY Zenon, <1>4, <1>5, <1>6

TaskInv == LifeType /\ \A t \in Task : LifeInv(t)

\* Only the lists of s may change.
OnlyAt(s) == \A z \in Session \ {s} : /\ waitinglist'[z] = waitinglist[z]
                                      /\ tasklist'[z] = tasklist[z]

LEMMA StillAt ==
  ASSUME NEW s \in Session, OnlyAt(s), NEW u \in Task,
         now' = u <=> now = u, on_udp'[u] = on_udp[u],
         Listed(u, s)' <=> Listed(u, s),
         Once(u, waitinglist[s]) => Once(u, waitinglist'[s])
  PROVE  Still(u)
<1>1. ASSUME NEW z \in Session
      PROVE  /\ Listed(u, z)' <=> Listed(u, z)
             /\ Once(u, waitinglist[z]) => Once(u, waitinglist'[z])
  <2>1. CASE z = s
    BY Zenon, <2>1
  <2>2. CASE z # s
    <3>1. waitinglist'[z] = waitinglist[z] /\ tasklist'[z] = tasklist[z]
      BY Zenon, <2>2 DEF OnlyAt
    <3> QED
      BY <3>1 DEF Listed
  <2> QED
    BY Zenon, <2>1, <2>2
<1> QED
  BY Zenon, <1>1 DEF Still

LEMMA StillLists ==
  ASSUME UNCHANGED <<waitinglist, tasklist>>, NEW u \in Task,
         now' = u <=> now = u, on_udp'[u] = on_udp[u]
  PROVE  Still(u)
BY Zenon DEF Still, Listed

\* A step that leaves every task alone.
LEMMA IdleKeeps ==
  ASSUME TaskInv, Ends1,
         UNCHANGED <<waitinglist, tasklist, created, finished, primary, answering, on_udp, now>>
  PROVE  TaskInv'
<1>1. LifeType'
  BY Zenon DEF TaskInv, LifeType
<1>2. ASSUME NEW u \in Task PROVE LifeInv(u)'
  <2>1. Same(u) /\ Still(u)
    BY Zenon, StillLists DEF Same
  <2> QED
    BY Zenon, <2>1, Stays DEF TaskInv
<1> QED
  BY Zenon, <1>1, <1>2 DEF TaskInv

\* The tasks of S are finished, and those that leave the lists of s or stop
\* being stepped are among them.
LEMMA FailKeeps ==
  ASSUME TaskInv, Ends1, NEW s \in Session, NEW S \in SUBSET Task, Finalize(S),
         \A u \in S : created[u],
         UNCHANGED <<created, on_udp>>, OnlyAt(s),
         \A u \in Task \ S : /\ Listed(u, s)' <=> Listed(u, s)
                             /\ Once(u, waitinglist[s]) => Once(u, waitinglist'[s])
                             /\ now' = u <=> now = u
  PROVE  TaskInv'
<1>1. /\ finished' \in [Task -> BOOLEAN] /\ primary' \in [Task -> BOOLEAN]
      /\ answering' \in [Task -> BOOLEAN]
      /\ \A t \in Task \cap S : finished'[t]
      /\ \A t \in Task \ S : /\ finished'[t] = finished[t] /\ primary'[t] = primary[t]
                             /\ answering'[t] = answering[t]
  BY Zenon, Finalized DEF TaskInv
<1>2. LifeType'
  BY Zenon, <1>1 DEF TaskInv, LifeType
<1>3. ASSUME NEW u \in Task PROVE LifeInv(u)'
  <2>1. CASE u \in S
    BY Zenon, <1>1, <2>1, EndsKnown
  <2>2. CASE u \notin S
    <3>1. u \in Task \ S
      BY <2>2
    <3>2. Same(u)
      BY Zenon, <1>1, <3>1 DEF Same
    <3>3. Still(u)
      BY Zenon, <3>1, StillAt
    <3> QED
      BY Zenon, <3>2, <3>3, Stays DEF TaskInv
  <2> QED
    BY <2>1, <2>2
<1> QED
  BY Zenon, <1>2, <1>3 DEF TaskInv

\* Only t moves; its new place is shown apart.
LEMMA MoveKeeps ==
  ASSUME TaskInv, Ends1, LifeType', NEW s \in Session, NEW t \in Task, LifeInv(t)',
         OnlyAt(s),
         \A u \in Task \ {t} : /\ Listed(u, s)' <=> Listed(u, s)
                               /\ Once(u, waitinglist[s]) => Once(u, waitinglist'[s])
                               /\ now' = u <=> now = u
                               /\ on_udp'[u] = on_udp[u]
                               /\ Same(u)
  PROVE  TaskInv'
<1>1. ASSUME NEW u \in Task PROVE LifeInv(u)'
  <2>1. CASE u = t
    BY Zenon, <2>1
  <2>2. CASE u # t
    <3>1. u \in Task \ {t}
      BY <2>2
    <3>2. Still(u) /\ Same(u)
      BY Zenon, <3>1, StillAt
    <3> QED
      BY Zenon, <3>2, Stays DEF TaskInv
  <2> QED
    BY <2>1, <2>2
<1> QED
  BY Zenon, <1>1 DEF TaskInv

\* The same for steps that leave the lists alone.
LEMMA FailStill ==
  ASSUME TaskInv, Ends1, NEW t \in Task, Finalize({t}), created[t],
         UNCHANGED <<created, on_udp, waitinglist, tasklist>>,
         \A u \in Task \ {t} : now' = u <=> now = u
  PROVE  TaskInv'
<1>1. /\ finished' \in [Task -> BOOLEAN] /\ primary' \in [Task -> BOOLEAN]
      /\ answering' \in [Task -> BOOLEAN]
      /\ \A u \in Task \cap {t} : finished'[u]
      /\ \A u \in Task \ {t} : /\ finished'[u] = finished[u] /\ primary'[u] = primary[u]
                               /\ answering'[u] = answering[u]
  BY Zenon, Finalized DEF TaskInv
<1>2. LifeType'
  BY Zenon, <1>1 DEF TaskInv, LifeType
<1>3. ASSUME NEW u \in Task PROVE LifeInv(u)'
  <2>1. CASE u = t
    <3>1. finished'[u] /\ created'[u]
      BY <1>1, <2>1
    <3> QED
      BY Zenon, <3>1, EndsKnown
  <2>2. CASE u # t
    <3>1. u \in Task \ {t}
      BY <2>2
    <3>2. Same(u) /\ Still(u)
      BY Zenon, <1>1, <3>1, StillLists DEF Same
    <3> QED
      BY Zenon, <3>2, Stays DEF TaskInv
  <2> QED
    BY <2>1, <2>2
<1> QED
  BY Zenon, <1>2, <1>3 DEF TaskInv

LEMMA MoveStill ==
  ASSUME TaskInv, Ends1, LifeType', NEW t \in Task, LifeInv(t)',
         UNCHANGED <<waitinglist, tasklist>>,
         \A u \in Task \ {t} : /\ now' = u <=> now = u
                               /\ on_udp'[u] = on_udp[u]
                               /\ Same(u)
  PROVE  TaskInv'
<1>1. ASSUME NEW u \in Task PROVE LifeInv(u)'
  <2>1. CASE u = t
    BY Zenon, <2>1
  <2>2. CASE u # t
    <3>1. u \in Task \ {t}
      BY <2>2
    <3>2. Still(u) /\ Same(u)
      BY Zenon, <3>1, StillLists
    <3> QED
      BY Zenon, <3>2, Stays DEF TaskInv
  <2> QED
    BY <2>1, <2>2
<1> QED
  BY Zenon, <1>1 DEF TaskInv

LEMMA ListsOf ==
  ASSUME MapsInv, NEW s \in Session
  PROVE  /\ waitinglist[s] \in Seq(Task) /\ tasklist[s] \subseteq Task
         /\ Elements(waitinglist[s]) \subseteq Task
         /\ state[s] \in {"connecting", "handshake"} => tasklist[s] = {}
         /\ state[s] = "connected" => waitinglist[s] = <<>>
         /\ state[s] \in {"free", "closing"} => waitinglist[s] = <<>> /\ tasklist[s] = {}
         /\ waitinglist[s] # <<>> => tasklist[s] = {}
         /\ \A u : Listed(u, s) <=> u \in Elements(waitinglist[s]) \/ u \in tasklist[s]
         /\ waitinglist[s] = <<>> => Elements(waitinglist[s]) = {}
<1>1. /\ waitinglist[s] \in Seq(Task) /\ tasklist[s] \subseteq Task
      /\ state[s] \in {"free", "connecting", "handshake", "connected", "closing"}
  BY DEF MapsInv, MapsType
<1>2. Elements(waitinglist[s]) \subseteq Task
  BY <1>1 DEF Elements
<1>3. SessionInv(s)
  BY Zenon DEF MapsInv
<1>4. waitinglist[s] = <<>> => Elements(waitinglist[s]) = {}
  BY DEF Elements
<1>5. \A u : Listed(u, s) <=> u \in Elements(waitinglist[s]) \/ u \in tasklist[s]
  BY DEF Listed
<1> HIDE DEF Listed
<1> QED
  BY Zenon, <1>1, <1>2, <1>3, <1>4, <1>5 DEF SessionInv

-----------------------------------------------------------------------------
(* qr_task_step() keeps every task in one place                            *)

\* The task being stepped, and what a step may do to others.
LEMMA Stepped ==
  ASSUME TaskInv, NowType, Step
  PROVE  /\ now \in Task /\ created[now] /\ created' = created
         /\ ~finished[now] => primary[now] /\ ~answering[now] /\ AtNow(now)
         /\ Ends1
<1>1. now \in Task
  BY DEF NowType, Step
<1>2. created' = created /\ Ends1
  BY Zenon DEF Step, Ends1
<1>3. LifeInv(now)
  BY Zenon, <1>1 DEF TaskInv
<1> QED
  BY Zenon, <1>1, <1>2, <1>3, NowIsThere

\* The task is finished, whatever the reason.
LEMMA StepFinishes ==
  ASSUME TaskInv, NowType, Step, now' = NoTask,
         Finalize({now}) \/ (finished[now] /\ UNCHANGED client),
         UNCHANGED <<waitinglist, tasklist, on_udp>>
  PROVE  TaskInv'
<1>1. PICK t \in Task : t = now /\ created[t]
  BY Zenon, Stepped
<1>2. created' = created /\ Ends1
  BY Zenon, Stepped
<1>3. \A u \in Task \ {t} : now' = u <=> now = u
  BY Zenon, <1>1, UpstreamAssumption
<1>4. CASE Finalize({now})
  BY Zenon, <1>1, <1>2, <1>3, <1>4, FailStill
<1>5. CASE finished[now] /\ UNCHANGED client
  <2>1. UNCHANGED <<finished, primary, answering>>
    BY Zenon, <1>5 DEF client
  <2>2. LifeType' /\ (\A u \in Task \ {t} : Same(u) /\ on_udp'[u] = on_udp[u])
    BY Zenon, <1>2, <2>1 DEF TaskInv, LifeType, Same
  <2>3. finished'[t] /\ created'[t]
    BY Zenon, <1>1, <1>2, <1>5, <2>1
  <2>4. LifeInv(t)'
    BY Zenon, <2>3, EndsKnown
  <2> QED
    BY Zenon, <1>2, <1>3, <2>2, <2>4, MoveStill
<1> QED
  BY Zenon, <1>4, <1>5

LEMMA UdpKeepsTasks ==
  ASSUME TaskInv, NowType, Step, ~finished[now], StepUdp, UNCHANGED aborted
  PROVE  TaskInv'
<1>1. PICK t \in Task : t = now /\ created[t] /\ primary[t] /\ ~answering[t] /\ AtNow(t)
  BY Zenon, Stepped
<1>2. created' = created /\ Ends1
  BY Zenon, Stepped
<1>3. /\ UNCHANGED <<finished, primary, answering, waitinglist, tasklist>>
      /\ on_udp' = [on_udp EXCEPT ![t] = TRUE] /\ now' = NoTask
  BY Zenon, <1>1 DEF StepUdp, client, sessions
<1>4. /\ LifeType' /\ on_udp'[t] /\ now' # t
      /\ \A u \in Task \ {t} : (now' = u <=> now = u) /\ on_udp'[u] = on_udp[u]
  BY Zenon, <1>1, <1>2, <1>3, UpstreamAssumption DEF TaskInv, LifeType
<1>5. AtUdp(t)'
  BY Zenon, <1>1, <1>3, <1>4 DEF AtNow, AtUdp, Off, Listed
<1>6. LifeInv(t)' /\ (\A u \in Task \ {t} : Same(u))
  BY Zenon, <1>1, <1>2, <1>3, <1>5, GoesTo DEF Same
<1> QED
  BY Zenon, <1>2, <1>3, <1>4, <1>6, MoveStill

\* The task joins a list of s, which has none of its own so far.
LEMMA JoinKeeps ==
  ASSUME TaskInv, NowType, MapsInv, Step, ~finished[now], now' = NoTask,
         UNCHANGED <<on_udp, client>>, NEW s \in Session, OnlyAt(s),
         \A u \in Task : Listed(u, s)' <=> (Listed(u, s) \/ u = now),
         Once(now, waitinglist'[s]),
         \A u \in Task : u # now /\ Once(u, waitinglist[s]) => Once(u, waitinglist'[s])
  PROVE  TaskInv'
<1>1. PICK t \in Task : t = now /\ created[t] /\ primary[t] /\ ~answering[t] /\ AtNow(t)
  BY Zenon, Stepped
<1>2. created' = created /\ Ends1
  BY Zenon, Stepped
<1>3. UNCHANGED <<finished, primary, answering, on_udp>> /\ now' # t
  BY Zenon, <1>1, UpstreamAssumption DEF client
<1>4. /\ LifeType' /\ \A u \in Task \ {t} : on_udp'[u] = on_udp[u] /\ Same(u)
  BY Zenon, <1>2, <1>3 DEF TaskInv, LifeType, Same
<1>5. ASSUME NEW u \in Task \ {t}
      PROVE  /\ Listed(u, s)' <=> Listed(u, s)
             /\ Once(u, waitinglist[s]) => Once(u, waitinglist'[s])
             /\ now' = u <=> now = u
  <2>1. u \in Task /\ u # now /\ u # NoTask
    BY Zenon, <1>1, UpstreamAssumption
  <2> QED
    BY Zenon, <2>1
<1>6. ASSUME NEW z \in Session
      PROVE  (Listed(t, z)' <=> z = s) /\ Once(t, waitinglist'[z])
  <2>1. CASE z = s
    BY Zenon, <1>1, <2>1
  <2>2. CASE z # s
    <3>1. waitinglist'[z] = waitinglist[z] /\ tasklist'[z] = tasklist[z]
      BY Zenon, <2>2 DEF OnlyAt
    <3>2. ~Listed(t, z)
      BY Zenon, <1>1 DEF AtNow, Off
    <3>3. t \notin Elements(waitinglist'[z])
      BY Zenon, <3>1, <3>2 DEF Listed
    <3>4. Once(t, waitinglist'[z])
      BY <3>3 DEF Once, Elements
    <3> QED
      BY Zenon, <2>2, <3>1, <3>2, <3>4 DEF Listed
  <2> QED
    BY Zenon, <2>1, <2>2
<1>7. AtList(t, s)'
  BY Zenon, <1>1, <1>3, <1>6 DEF AtList, AtNow
<1>8. LifeInv(t)'
  BY Zenon, <1>1, <1>2, <1>3, <1>7, GoesTo
<1> QED
  BY Zenon, <1>2, <1>4, <1>5, <1>8, MoveKeeps

LEMMA WaitingKeepsTasks ==
  ASSUME TaskInv, NowType, MapsInv, Step, ~finished[now], NEW p \in Peer, StepWaiting(p)
  PROVE  TaskInv'
<1>1. PICK s \in Session : s = tcp_waiting[p]
  BY UpstreamAssumption DEF StepWaiting, MapsInv, MapsType
<1>2. now' = NoTask /\ UNCHANGED <<tasklist, on_udp>>
  BY Zenon DEF StepWaiting
<1>3. CASE Finalize({now}) /\ UNCHANGED waitinglist
  BY Zenon, <1>2, <1>3, StepFinishes
<1>4. CASE waitinglist' = [waitinglist EXCEPT ![s] = Append(@, now)] /\ UNCHANGED client
  <2>1. /\ now \in Task /\ waitinglist[s] \in Seq(Task) /\ AtNow(now)
        /\ waitinglist \in [Session -> Seq(Task)]
    BY Zenon, Stepped, ListsOf DEF MapsInv, MapsType
  <2>2. waitinglist'[s] = Append(waitinglist[s], now) /\ OnlyAt(s)
    BY Zenon, <1>2, <1>4, <2>1 DEF OnlyAt
  <2>3. now \notin Elements(waitinglist[s])
    BY <2>1 DEF AtNow, Off, Listed
  <2>4. /\ Elements(waitinglist'[s]) = Elements(waitinglist[s]) \cup {now}
        /\ Once(now, waitinglist'[s])
        /\ \A u \in Task : u # now /\ Once(u, waitinglist[s]) => Once(u, waitinglist'[s])
    <3>1. PICK t \in Task, q \in Seq(Task) : t = now /\ q = waitinglist[s]
      BY <2>1
    <3>2. /\ Elements(Append(q, t)) = Elements(q) \cup {t}
          /\ t \notin Elements(q) => Once(t, Append(q, t))
          /\ \A u : u # t /\ Once(u, q) => Once(u, Append(q, t))
      BY Zenon, Pushed
    <3> QED
      BY Zenon, <2>2, <2>3, <3>1, <3>2
  <2>5. \A u \in Task : Listed(u, s)' <=> (Listed(u, s) \/ u = now)
    BY <1>2, <2>4 DEF Listed
  <2> QED
    BY Zenon, <1>2, <1>4, <2>2, <2>4, <2>5, JoinKeeps
<1> QED
  BY Zenon, <1>1, <1>3, <1>4 DEF StepWaiting

LEMMA ExistingKeepsTasks ==
  ASSUME TaskInv, NowType, MapsInv, Step, ~finished[now], NEW p \in Peer, StepExisting(p)
  PROVE  TaskInv'
<1>1. PICK s \in Session : s = tcp_connected[p]
  BY UpstreamAssumption DEF StepExisting, MapsInv, MapsType
<1>2. now' = NoTask /\ UNCHANGED <<waitinglist, on_udp>>
  BY Zenon DEF StepExisting
<1>3. /\ tasklist \in [Session -> SUBSET Task] /\ now \in Task /\ created[now]
      /\ created' = created /\ Ends1 /\ AtNow(now)
  BY Zenon, Stepped DEF MapsInv, MapsType
<1>4. CASE Finalize({now}) /\ UNCHANGED tasklist
  BY Zenon, <1>2, <1>4, StepFinishes
<1>5. CASE tasklist' = [tasklist EXCEPT ![s] = @ \cup {now}] /\ UNCHANGED client
  <2>1. tasklist'[s] = tasklist[s] \cup {now} /\ OnlyAt(s)
    BY Zenon, <1>2, <1>3, <1>5 DEF OnlyAt
  <2>2. \A u \in Task : Listed(u, s)' <=> (Listed(u, s) \/ u = now)
    BY Zenon, <1>2, <2>1 DEF Listed
  <2>3. now \notin Elements(waitinglist[s])
    BY <1>3 DEF AtNow, Off, Listed
  <2>4. Once(now, waitinglist'[s])
    BY Zenon, <1>2, <2>3 DEF Once, Elements
  <2> QED
    BY Zenon, <1>2, <1>5, <2>1, <2>2, <2>4, JoinKeeps
<1>6. CASE /\ Finalize(tasklist[s] \cup {now})
           /\ tasklist' = [tasklist EXCEPT ![s] = {}]
  <2> DEFINE S == tasklist[s] \cup {now}
  <2>1. tasklist'[s] = {} /\ OnlyAt(s) /\ S \in SUBSET Task
    BY Zenon, <1>2, <1>3, <1>6 DEF OnlyAt
  <2>2. ASSUME NEW u \in S PROVE created[u]
    <3>1. CASE u \in tasklist[s]
      <4>1. u \in Task /\ Listed(u, s)
        BY Zenon, <2>1, <3>1 DEF Listed
      <4> QED
        BY Zenon, <4>1, ListedIsThere DEF TaskInv
    <3> QED
      BY Zenon, <1>3, <3>1
  <2>3. ASSUME NEW u \in Task \ S
        PROVE  /\ Listed(u, s)' <=> Listed(u, s)
               /\ Once(u, waitinglist[s]) => Once(u, waitinglist'[s])
               /\ now' = u <=> now = u
    BY Zenon, <1>2, <2>1, UpstreamAssumption DEF Listed
  <2> HIDE DEF S
  <2> QED
    BY Zenon, <1>2, <1>3, <1>6, <2>1, <2>2, <2>3, FailKeeps DEF S
<1> QED
  BY Zenon, <1>1, <1>4, <1>5, <1>6 DEF StepExisting

LEMMA ConnectKeepsTasks ==
  ASSUME TaskInv, NowType, MapsInv, Step, ~finished[now], NEW p \in Peer, StepConnect(p),
         UNCHANGED aborted
  PROVE  TaskInv'
<1>1. UNCHANGED on_udp
  BY Zenon DEF StepConnect
<1>2. CASE Finalize({now}) /\ now' = NoTask /\ UNCHANGED sessions
  BY Zenon, <1>1, <1>2, StepFinishes DEF sessions
<1>3. ASSUME NEW s \in Session, state[s] = "free", UNCHANGED <<tasklist, client>>,
             \/ waitinglist' = [waitinglist EXCEPT ![s] = <<now>>] /\ now' = NoTask
             \/ UNCHANGED <<waitinglist, now>>
      PROVE  TaskInv'
  <2>1. CASE UNCHANGED <<waitinglist, now>>
    BY Zenon, <1>1, <1>3, <2>1, Stepped, IdleKeeps DEF client
  <2>2. CASE waitinglist' = [waitinglist EXCEPT ![s] = <<now>>] /\ now' = NoTask
    <3>1. /\ waitinglist \in [Session -> Seq(Task)] /\ now \in Task
          /\ Elements(waitinglist[s]) = {} /\ tasklist[s] = {}
      BY Zenon, <1>3, Stepped, ListsOf DEF MapsInv, MapsType
    <3>2. waitinglist'[s] = <<now>> /\ OnlyAt(s)
      BY Zenon, <1>3, <2>2, <3>1 DEF OnlyAt
    <3>3. /\ Elements(waitinglist'[s]) = {now}
          /\ \A u : Once(u, waitinglist'[s])
      BY ZenonT(30), <3>1, <3>2, Few
    <3>4. \A u \in Task : Listed(u, s)' <=> (Listed(u, s) \/ u = now)
      BY <1>3, <3>1, <3>3 DEF Listed
    <3> QED
      BY Zenon, <1>1, <1>3, <2>2, <3>2, <3>3, <3>4, JoinKeeps
  <2> QED
    BY Zenon, <1>3, <2>1, <2>2
<1> QED
  BY Zenon, <1>2, <1>3 DEF StepConnect

LEMMA StepKeepsTasks ==
  ASSUME TaskInv, NowType, MapsInv, Step
  PROVE  TaskInv'
<1>1. CASE finished[now] /\ now' = NoTask /\ UNCHANGED <<sessions, client, plan>>
  BY Zenon, <1>1, StepFinishes DEF sessions, plan
<1>2. CASE StepFinal
  BY Zenon, <1>2, StepFinishes DEF StepFinal, sessions, plan
<1> QED
  BY Zenon, <1>1, <1>2, UdpKeepsTasks, WaitingKeepsTasks, ExistingKeepsTasks,
     ConnectKeepsTasks DEF Step

-----------------------------------------------------------------------------
(* So do the loops and the callbacks                                       *)

\* t leaves the list of s and is stepped; when nothing steps it, it is either
\* finished or lost.
LEMMA LeaveKeeps ==
  ASSUME TaskInv, Ends1, now = NoTask, NEW s \in Session, NEW t \in Task, Listed(t, s),
         now' = t \/ (now' = NoTask /\ (finished[t] \/ Lost')),
         UNCHANGED <<created, finished, answering, on_udp>>, OnlyAt(s),
         primary' \in [Task -> BOOLEAN],
         \A u \in Task : primary'[u] = primary[u] \/ finished[u],
         \A u \in Task \ {t} : primary'[u] = primary[u],
         AtList(t, s) => ~Listed(t, s)',
         \A u \in Task \ {t} : /\ Listed(u, s)' <=> Listed(u, s)
                               /\ Once(u, waitinglist[s]) => Once(u, waitinglist'[s])
  PROVE  TaskInv'
<1>1. /\ created[t]
      /\ ~finished[t] => primary[t] /\ ~answering[t] /\ AtList(t, s)
  BY Zenon, ListedIsThere DEF TaskInv
<1>2. LifeType' /\ \A u \in Task \ {t} : on_udp'[u] = on_udp[u] /\ Same(u)
  BY Zenon DEF TaskInv, LifeType, Same
<1>3. \A u \in Task \ {t} : now' = u <=> now = u
  BY Zenon, UpstreamAssumption
<1>4. LifeInv(t)'
  <2>1. CASE finished[t]
    BY Zenon, <1>1, <2>1, EndsKnown
  <2>2. CASE ~finished[t]
    <3>1. AtList(t, s) /\ primary[t] /\ ~answering[t] /\ ~finished'[t] /\ primary'[t] = primary[t]
      BY Zenon, <1>1, <2>2
    <3>2. ASSUME NEW z \in Session PROVE ~Listed(t, z)'
      <4>1. CASE z = s
        BY Zenon, <3>1, <4>1
      <4>2. CASE z # s
        <5>1. ~Listed(t, z)
          BY Zenon, <3>1, <4>2 DEF AtList
        <5>2. waitinglist'[z] = waitinglist[z] /\ tasklist'[z] = tasklist[z]
          BY Zenon, <4>2 DEF OnlyAt
        <5> QED
          BY Zenon, <5>1, <5>2 DEF Listed
      <4> QED
        BY Zenon, <4>1, <4>2
    <3>3. Off(t)' /\ ~on_udp'[t]
      BY Zenon, <3>1, <3>2 DEF Off, AtList
    <3>4. now' = t \/ (now' # t /\ Lost')
      BY Zenon, <2>2, UpstreamAssumption
    <3>5. AtNow(t)' \/ (Nowhere(t)' /\ Lost')
      BY Zenon, <3>3, <3>4 DEF AtNow, Nowhere
    <3> QED
      BY Zenon, <1>1, <3>1, <3>5, GoesTo
  <2> QED
    BY Zenon, <2>1, <2>2
<1> QED
  BY Zenon, <1>2, <1>3, <1>4, MoveKeeps

LEMMA LoopKeepsTasks ==
  ASSUME TaskInv, NowType, MapsInv, LoopTurn
  PROVE  TaskInv'
<1>1. PICK s \in Session : s = loop.session
  BY Zenon, Looped DEF LoopTurn
<1>2. /\ now = NoTask /\ aborted = "no"
      /\ UNCHANGED <<created, finished, primary, answering, on_udp>>
  BY Zenon DEF LoopTurn, client
<1>3. /\ waitinglist \in [Session -> Seq(Task)] /\ waitinglist[s] \in Seq(Task)
      /\ tasklist \in [Session -> SUBSET Task]
      /\ Ends1 /\ primary' \in [Task -> BOOLEAN] /\ \A u \in Task : primary'[u] = primary[u]
  BY Zenon, <1>2, ListsOf DEF MapsInv, MapsType, Ends1, TaskInv, LifeType
<1>4. CASE UNCHANGED <<waitinglist, tasklist, now>>
  BY Zenon, <1>2, <1>3, <1>4, IdleKeeps
<1>5. CASE /\ waitinglist[s] # <<>> /\ now' = Head(waitinglist[s]) /\ UNCHANGED tasklist
           /\ waitinglist' = [waitinglist EXCEPT ![s] = Tail(@)]
  <2>1. PICK t \in Task : t = Head(waitinglist[s])
    BY Zenon, <1>3, <1>5, Popped
  <2>2. waitinglist'[s] = Tail(waitinglist[s]) /\ OnlyAt(s) /\ tasklist[s] = {} /\ tasklist' = tasklist
    BY Zenon, <1>3, <1>5, ListsOf DEF OnlyAt
  <2>3. /\ Elements(waitinglist[s]) = Elements(waitinglist'[s]) \cup {t}
        /\ Once(t, waitinglist[s]) => t \notin Elements(waitinglist'[s])
        /\ \A u \in Task : Once(u, waitinglist[s]) => Once(u, waitinglist'[s])
    BY Zenon, <1>3, <1>5, <2>1, <2>2, Popped
  <2>4. /\ Listed(t, s)
        /\ Once(t, waitinglist[s]) => ~Listed(t, s)'
        /\ \A u \in Task \ {t} : Listed(u, s)' <=> Listed(u, s)
    BY Zenon, <2>2, <2>3 DEF Listed
  <2>5. AtList(t, s) => ~Listed(t, s)'
    BY Zenon, <2>4 DEF AtList
  <2>6. \A u \in Task \ {t} : u \in Task
    OBVIOUS
  <2> QED
    BY Zenon, <1>2, <1>3, <1>5, <2>1, <2>2, <2>3, <2>4, <2>5, <2>6, LeaveKeeps
<1>6. ASSUME NEW t \in tasklist[s], waitinglist[s] = <<>>, now' = t, UNCHANGED waitinglist,
             tasklist' = [tasklist EXCEPT ![s] = @ \ {t}]
      PROVE  TaskInv'
  <2>1. /\ t \in Task /\ Elements(waitinglist[s]) = {} /\ waitinglist' = waitinglist
        /\ tasklist'[s] = tasklist[s] \ {t} /\ OnlyAt(s)
    BY Zenon, <1>3, <1>6, ListsOf DEF OnlyAt
  <2>2. /\ Listed(t, s) /\ ~Listed(t, s)'
        /\ \A u \in Task \ {t} : Listed(u, s)' <=> Listed(u, s)
    BY Zenon, <1>6, <2>1 DEF Listed
  <2>3. \A u \in Task \ {t} : Once(u, waitinglist[s]) => Once(u, waitinglist'[s])
    BY Zenon, <2>1
  <2>4. \A u \in Task \ {t} : u \in Task
    OBVIOUS
  <2> QED
    BY Zenon, <1>2, <1>3, <1>6, <2>1, <2>2, <2>3, <2>4, LeaveKeeps
<1> QED
  BY Zenon, <1>1, <1>4, <1>5, <1>6 DEF LoopTurn

\* A task that holds its primary reference and is on a task list has at least
\* two references, so worker_submit() steps it.
LEMMA ListedRefs ==
  ASSUME NEW t \in Task, primary[t], NEW s \in Session, t \in tasklist[s]
  PROVE  Refs(t) > 1
<1> DEFINE W == {z \in Session : \E i \in DOMAIN waitinglist[z] : waitinglist[z][i] = t}
           L == {z \in Session : t \in tasklist[z]}
           U == {z \in Session : <<z, t>> \in writes}
<1>1. IsFiniteSet(W) /\ IsFiniteSet(L) /\ IsFiniteSet(U)
  BY Zenon, FS_Subset, UpstreamAssumption
<1>2. L # {}
  BY Zenon
<1>3. Refs(t) = One(primary[t]) + One(answering[t]) + One(registered[t])
                + Cardinality(W) + Cardinality(L) + Cardinality(U)
  BY DEF Refs
<1> HIDE DEF W, L, U
<1>4. Cardinality(W) \in Nat /\ Cardinality(L) \in Nat /\ Cardinality(U) \in Nat
  BY <1>1, FS_CardinalityType
<1>5. Cardinality(L) # 0
  BY Zenon, <1>1, <1>2, FS_EmptySet
<1>6. One(primary[t]) = 1 /\ One(answering[t]) \in Nat /\ One(registered[t]) \in Nat
  BY DEF One
<1>7. PICK a \in Nat, b \in Nat, c \in Nat, d \in Nat, e \in Nat :
        /\ a = One(answering[t]) /\ b = One(registered[t]) /\ c = Cardinality(W)
        /\ d = Cardinality(L) /\ e = Cardinality(U)
  BY Zenon, <1>4, <1>6
<1>8. Refs(t) = 1 + a + b + c + d + e /\ d # 0
  BY Zenon, <1>3, <1>5, <1>6, <1>7
<1> QED
  BY SMTT(30), <1>8

LEMMA ReplyKeepsTasks ==
  ASSUME TaskInv, MapsInv, NEW s \in Session, NEW t \in Task, Reply(s, t)
  PROVE  TaskInv'
<1>1. /\ now = NoTask /\ aborted = "no" /\ aborted' = aborted /\ t \in tasklist[s]
      /\ state[s] = "connected" /\ waitinglist' = waitinglist
      /\ UNCHANGED <<created, finished, primary, answering, on_udp>>
      /\ tasklist' = [tasklist EXCEPT ![s] = @ \ {t}]
      /\ now' = t \/ (now' = NoTask /\ ~(Refs(t) > 1))
  BY DEF Reply, Idle, client, plan
<1>2. /\ tasklist \in [Session -> SUBSET Task] /\ Ends1 /\ primary' \in [Task -> BOOLEAN]
      /\ \A u \in Task : primary'[u] = primary[u]
  BY Zenon, <1>1 DEF MapsInv, MapsType, Ends1, TaskInv, LifeType
<1>3. /\ Elements(waitinglist[s]) = {} /\ tasklist'[s] = tasklist[s] \ {t} /\ OnlyAt(s)
  BY Zenon, <1>1, <1>2, ListsOf DEF OnlyAt
<1>4. /\ Listed(t, s) /\ ~Listed(t, s)'
      /\ \A u \in Task \ {t} : Listed(u, s)' <=> Listed(u, s)
  BY Zenon, <1>1, <1>3 DEF Listed
<1>5. \A u \in Task \ {t} : u \in Task /\ (Once(u, waitinglist[s]) => Once(u, waitinglist'[s]))
  BY Zenon, <1>1
<1>6. ~finished[t] => primary[t]
  BY Zenon, <1>4, ListedIsThere DEF TaskInv
<1>7. now' = t \/ (now' = NoTask /\ finished[t])
  BY Zenon, <1>1, <1>6, ListedRefs
<1> QED
  BY Zenon, <1>1, <1>2, <1>3, <1>4, <1>5, <1>7, LeaveKeeps

LEMMA WriteKeepsTasks ==
  ASSUME TaskInv, MapsInv, NEW s \in Session, NEW t \in Task, NEW ok \in BOOLEAN,
         OnWrite(s, t, ok)
  PROVE  TaskInv'
<1>1. /\ now = NoTask /\ now' = now /\ aborted = "no" /\ waitinglist' = waitinglist
      /\ UNCHANGED <<created, finished, answering, on_udp>>
      /\ tasklist' = IF ok THEN tasklist ELSE [tasklist EXCEPT ![s] = @ \ {t}]
  BY Zenon DEF OnWrite, Idle, plan
<1>2. (primary' = [primary EXCEPT ![t] = FALSE] /\ finished[t]) \/ primary' = primary
  BY Zenon DEF OnWrite, Complete
<1>3. /\ tasklist \in [Session -> SUBSET Task] /\ primary \in [Task -> BOOLEAN] /\ Ends1
  BY Zenon, <1>1 DEF MapsInv, MapsType, TaskInv, LifeType, Ends1
<1>4. /\ primary' \in [Task -> BOOLEAN]
      /\ \A u \in Task : primary'[u] = primary[u] \/ finished[u]
      /\ \A u \in Task \ {t} : primary'[u] = primary[u]
  BY Zenon, <1>2, <1>3
<1>5. CASE ~ok /\ t \in tasklist[s]
  <2>1. state[s] = "connected" /\ Elements(waitinglist[s]) = {}
    BY Zenon, <1>5, ListsOf DEF MapsInv, SessionInv
  <2>2. Lost'
    BY Zenon, <1>5, <2>1 DEF OnWrite, Lost
  <2>3. tasklist'[s] = tasklist[s] \ {t} /\ OnlyAt(s)
    BY Zenon, <1>1, <1>3, <1>5 DEF OnlyAt
  <2>4. /\ Listed(t, s) /\ ~Listed(t, s)'
        /\ \A u \in Task \ {t} : Listed(u, s)' <=> Listed(u, s)
    BY Zenon, <1>1, <1>5, <2>1, <2>3 DEF Listed
  <2>5. \A u \in Task \ {t} : u \in Task /\ (Once(u, waitinglist[s]) => Once(u, waitinglist'[s]))
    BY <1>1
  <2> QED
    BY Zenon, <1>1, <1>3, <1>4, <2>2, <2>3, <2>4, <2>5, LeaveKeeps
<1>6. CASE ok \/ t \notin tasklist[s]
  <2>1. tasklist' = tasklist
    BY SMTT(30), <1>1, <1>3, <1>6
  <2>2. LifeType' /\ \A u \in Task \ {t} : Same(u) /\ on_udp'[u] = on_udp[u]
    BY Zenon, <1>1, <1>4 DEF TaskInv, LifeType, Same
  <2>3. LifeInv(t)'
    <3>1. LifeInv(t) /\ Still(t)
      BY Zenon, <1>1, <2>1, StillLists DEF TaskInv
    <3>2. CASE finished[t]
      BY Zenon, <1>1, <1>3, <3>1, <3>2, EndsInPlace
    <3>3. CASE ~finished[t]
      BY Zenon, <1>1, <1>3, <1>4, <3>1, <3>3, Stays DEF Same
    <3> QED
      BY Zenon, <3>2, <3>3
  <2> QED
    BY Zenon, <1>1, <1>3, <2>1, <2>2, <2>3, MoveStill
<1> QED
  BY Zenon, <1>5, <1>6

\* The tasks of S, all of them on lists of s, are failed and taken off.
LEMMA FailListed ==
  ASSUME TaskInv, MapsInv, Ends1, now = NoTask, now' = now, NEW s \in Session,
         NEW S \in SUBSET (Elements(waitinglist[s]) \cup tasklist[s]), Finalize(S),
         UNCHANGED <<created, on_udp>>,
         NEW l \in SUBSET Task, tasklist' = [tasklist EXCEPT ![s] = l],
         l \subseteq tasklist[s], tasklist[s] \ l \subseteq S,
         \/ UNCHANGED waitinglist
         \/ /\ waitinglist' = [waitinglist EXCEPT ![s] = <<>>]
            /\ Elements(waitinglist[s]) \subseteq S
  PROVE  TaskInv'
<1>1. /\ waitinglist \in [Session -> Seq(Task)] /\ tasklist \in [Session -> SUBSET Task]
      /\ S \in SUBSET Task /\ \A u \in S : Listed(u, s)
  BY ListsOf DEF MapsInv, MapsType
<1>2. ASSUME NEW u \in S PROVE created[u]
  BY Zenon, <1>1, ListedIsThere DEF TaskInv
<1>3. tasklist'[s] = l /\ OnlyAt(s)
  BY <1>1 DEF OnlyAt
<1>4. ASSUME NEW u \in Task \ S
      PROVE  /\ Listed(u, s)' <=> Listed(u, s)
             /\ Once(u, waitinglist[s]) => Once(u, waitinglist'[s])
             /\ now' = u <=> now = u
  <2>1. u \in tasklist'[s] <=> u \in tasklist[s]
    BY <1>3
  <2>2. CASE UNCHANGED waitinglist
    BY Zenon, <2>1, <2>2 DEF Listed
  <2>3. CASE waitinglist' = [waitinglist EXCEPT ![s] = <<>>] /\ Elements(waitinglist[s]) \subseteq S
    <3>1. waitinglist'[s] = <<>> /\ u \notin Elements(waitinglist[s])
      BY Zenon, <1>1, <2>3
    <3>2. u \notin Elements(waitinglist'[s]) /\ Once(u, waitinglist'[s])
      BY <3>1 DEF Elements, Once
    <3> QED
      BY Zenon, <2>1, <3>1, <3>2 DEF Listed
  <2> QED
    BY Zenon, <2>2, <2>3
<1> QED
  BY Zenon, <1>1, <1>2, <1>3, <1>4, FailKeeps

LEMMA TimeoutKeepsTasks ==
  ASSUME TaskInv, MapsInv, NEW s \in Session, TcpTimeoutTrigger(s)
  PROVE  TaskInv'
<1> DEFINE left == tasklist[s] \ Expired(s)
<1>1. /\ now = NoTask /\ now' = now /\ aborted = "no" /\ UNCHANGED <<created, on_udp>>
      /\ tasklist' = [tasklist EXCEPT ![s] = left]
  BY Zenon DEF TcpTimeoutTrigger, Idle, plan
<1>2. /\ Expired(s) \subseteq tasklist[s] /\ left \in SUBSET Task /\ left \subseteq tasklist[s]
      /\ tasklist[s] \ left \subseteq Expired(s) /\ Ends1
  BY Zenon, <1>1, ListsOf DEF Expired, Ends1
<1>3. \/ UNCHANGED waitinglist /\ Finalize(Expired(s))
      \/ /\ waitinglist' = [waitinglist EXCEPT ![s] = <<>>]
         /\ Finalize(Expired(s) \cup Elements(waitinglist[s]))
  BY Zenon DEF TcpTimeoutTrigger
<1> HIDE DEF left
<1>4. CASE UNCHANGED waitinglist /\ Finalize(Expired(s))
  <2>1. PICK S \in SUBSET (Elements(waitinglist[s]) \cup tasklist[s]) : S = Expired(s)
    BY <1>2
  <2> QED
    BY Zenon, <1>1, <1>2, <1>4, <2>1, FailListed
<1>5. CASE /\ waitinglist' = [waitinglist EXCEPT ![s] = <<>>]
           /\ Finalize(Expired(s) \cup Elements(waitinglist[s]))
  <2>1. PICK S \in SUBSET (Elements(waitinglist[s]) \cup tasklist[s]) :
             S = Expired(s) \cup Elements(waitinglist[s])
    BY Zenon, <1>2
  <2>2. tasklist[s] \ left \subseteq S /\ Elements(waitinglist[s]) \subseteq S /\ Finalize(S)
    BY Zenon, <1>2, <1>5, <2>1
  <2> QED
    BY Zenon, <1>1, <1>2, <1>5, <2>2, FailListed
<1> QED
  BY Zenon, <1>3, <1>4, <1>5

\* The waiting tasks of s are sent: they are on its other list now.  Finished
\* ones may be completed on the way.
LEMMA SentKeepsTasks ==
  ASSUME TaskInv, MapsInv, Ends1, now' = now, NEW s \in Session, AllSent(s),
         UNCHANGED <<created, finished, answering, on_udp>>,
         primary' \in [Task -> BOOLEAN],
         \A u \in Task : primary'[u] = primary[u] \/ finished[u]
  PROVE  TaskInv'
<1>1. /\ waitinglist \in [Session -> Seq(Task)] /\ tasklist \in [Session -> SUBSET Task]
  BY Zenon DEF MapsInv, MapsType
<1>2. /\ tasklist'[s] = tasklist[s] \cup Elements(waitinglist[s])
      /\ waitinglist'[s] = <<>> /\ OnlyAt(s)
  BY <1>1 DEF AllSent, OnlyAt
<1>3. Elements(waitinglist'[s]) = {} /\ \A u : Once(u, waitinglist'[s])
  BY <1>2 DEF Elements, Once
<1>4. LifeType'
  BY Zenon DEF TaskInv, LifeType
<1>5. ASSUME NEW u \in Task PROVE LifeInv(u)'
  <2>1. Listed(u, s)' <=> Listed(u, s)
    BY Zenon, <1>2, <1>3 DEF Listed
  <2>2. LifeInv(u) /\ Still(u)
    BY Zenon, <1>2, <1>3, <2>1, StillAt DEF TaskInv
  <2>3. CASE finished[u]
    BY Zenon, <2>2, <2>3, EndsInPlace
  <2>4. CASE ~finished[u]
    BY Zenon, <2>2, <2>4, Stays DEF Same
  <2> QED
    BY Zenon, <2>3, <2>4
<1> QED
  BY Zenon, <1>4, <1>5 DEF TaskInv

LEMMA ConnectedKeepsTasks ==
  ASSUME TaskInv, MapsInv, NEW s \in Session, OnConnect(s)
  PROVE  TaskInv'
<1>1. /\ now = NoTask /\ now' = now /\ aborted = "no" /\ UNCHANGED <<created, on_udp>>
      /\ Ends1
  BY Zenon DEF OnConnect, Idle, plan, Ends1
<1>2. CASE UNCHANGED <<waitinglist, tasklist, client>>
  BY Zenon, <1>1, <1>2, IdleKeeps DEF client
<1>3. CASE AllSent(s) /\ UNCHANGED client
  <2>1. /\ UNCHANGED <<finished, primary, answering>>
        /\ primary' \in [Task -> BOOLEAN] /\ \A u \in Task : primary'[u] = primary[u]
    BY Zenon, <1>3 DEF client, TaskInv, LifeType
  <2> QED
    BY Zenon, <1>1, <1>3, <2>1, SentKeepsTasks
<1>4. CASE /\ Finalize(tasklist[s] \cup Elements(waitinglist[s]))
           /\ tasklist' = [tasklist EXCEPT ![s] = {}]
           /\ waitinglist' = [waitinglist EXCEPT ![s] = <<>>]
  <2>1. PICK S \in SUBSET (Elements(waitinglist[s]) \cup tasklist[s]) :
             S = tasklist[s] \cup Elements(waitinglist[s])
    BY Zenon
  <2>2. PICK l \in SUBSET Task : l = {}
    BY Zenon
  <2>3. /\ l \subseteq tasklist[s] /\ tasklist[s] \ l \subseteq S
        /\ Elements(waitinglist[s]) \subseteq S /\ Finalize(S)
    BY Zenon, <1>4, <2>1, <2>2
  <2> QED
    BY Zenon, <1>1, <1>4, <2>2, <2>3, FailListed
<1> QED
  BY Zenon, <1>2, <1>3, <1>4 DEF OnConnect, SendWaiting, sessions

LEMMA HandshakeKeepsTasks ==
  ASSUME TaskInv, MapsInv, NEW s \in Session, HandshakeDone(s)
  PROVE  TaskInv'
<1>1. /\ now = NoTask /\ now' = now /\ aborted = "no" /\ UNCHANGED <<created, on_udp>>
      /\ Ends1
  BY Zenon DEF HandshakeDone, Idle, plan, Ends1
<1>2. CASE UNCHANGED <<waitinglist, tasklist, client>>
  BY Zenon, <1>1, <1>2, IdleKeeps DEF client
<1>3. ASSUME NEW over \in SUBSET Task, \A t \in over : finished[t],
             AllSent(s), primary' = [t \in Task |-> primary[t] /\ t \notin over],
             UNCHANGED <<finished, answering>>
      PROVE  TaskInv'
  <2>1. primary' \in [Task -> BOOLEAN]
    BY Zenon, <1>3
  <2>2. \A u \in Task : primary'[u] = primary[u] \/ finished[u]
    BY <1>3 DEF TaskInv, LifeType
  <2> QED
    BY Zenon, <1>1, <1>3, <2>1, <2>2, SentKeepsTasks
<1>4. CASE /\ Finalize(Elements(waitinglist[s]))
           /\ waitinglist' = [waitinglist EXCEPT ![s] = <<>>]
           /\ UNCHANGED tasklist
  <2>1. PICK S \in SUBSET (Elements(waitinglist[s]) \cup tasklist[s]) :
             S = Elements(waitinglist[s])
    OBVIOUS
  <2>2. PICK l \in SUBSET Task : l = tasklist[s]
    BY Zenon, ListsOf
  <2>3. /\ l \subseteq tasklist[s] /\ tasklist[s] \ l \subseteq S
        /\ Elements(waitinglist[s]) \subseteq S /\ Finalize(S)
        /\ tasklist' = [tasklist EXCEPT ![s] = l]
    BY Zenon, <1>4, <2>1, <2>2 DEF MapsInv, MapsType
  <2> QED
    BY Zenon, <1>1, <1>4, <2>2, <2>3, FailListed
<1>5. PICK over \in SUBSET Task : over = {t \in Elements(waitinglist[s]) : finished[t]}
  BY Zenon, ListsOf
<1>6. \A t \in over : finished[t]
  BY <1>5
<1> QED
  BY Zenon, <1>2, <1>3, <1>4, <1>5, <1>6 DEF HandshakeDone

LEMMA TimersKeepTasks ==
  ASSUME TaskInv, NEW s \in Session,
         \/ OnTcpConnectTimeout(s) \/ OnSessionClose(s) \/ OnConnectError(s)
         \/ HandshakeFailed(s) \/ TcpRecvEnd(s)
  PROVE  TaskInv'
<1>1. /\ aborted = "no"
      /\ UNCHANGED <<waitinglist, tasklist, created, client, plan, now>>
  BY Zenon DEF OnTcpConnectTimeout, OnSessionClose, OnConnectError, HandshakeFailed,
     TcpRecvEnd, EndTcp, Idle, sessions
<1> QED
  BY Zenon, <1>1, IdleKeeps DEF client, plan, Ends1

LEMMA SubmitKeepsTasks ==
  ASSUME TaskInv, NEW t \in Task, NEW src, WorkerSubmit(t, src)
  PROVE  TaskInv'
<1>1. /\ now = NoTask /\ now' = t /\ aborted = "no" /\ ~created[t] /\ Ends1
      /\ created' = [created EXCEPT ![t] = TRUE] /\ primary' = [primary EXCEPT ![t] = TRUE]
      /\ UNCHANGED <<finished, answering, on_udp, waitinglist, tasklist>>
  BY Zenon DEF WorkerSubmit, Idle, sessions, plan, Ends1
<1>2. /\ LifeType' /\ created'[t] /\ primary'[t]
      /\ \A u \in Task \ {t} : /\ now' = u <=> now = u
                               /\ on_udp'[u] = on_udp[u]
                               /\ Same(u)
  BY <1>1, UpstreamAssumption DEF TaskInv, LifeType, Same
<1>3. LifeInv(t) /\ Nowhere(t)
  BY Zenon, <1>1 DEF TaskInv, LifeInv
<1>4. AtNow(t)' /\ (~finished'[t] => ~answering'[t])
  BY Zenon, <1>1, <1>3 DEF LifeInv, Nowhere, AtNow, Off, Listed
<1>5. LifeInv(t)'
  BY Zenon, <1>2, <1>4, GoesTo
<1> QED
  BY Zenon, <1>1, <1>2, <1>5, MoveStill

LEMMA UdpDoneKeepsTasks ==
  ASSUME TaskInv, NEW t \in Task, UdpDone(t)
  PROVE  TaskInv'
<1>1. /\ now = NoTask /\ now' = t /\ aborted = "no" /\ on_udp[t] /\ Ends1
      /\ on_udp' = [on_udp EXCEPT ![t] = FALSE]
      /\ UNCHANGED <<created, finished, primary, answering, waitinglist, tasklist>>
  BY Zenon DEF UdpDone, Idle, sessions, client, Ends1
<1>2. /\ LifeType' /\ ~on_udp'[t] /\ now # t
      /\ \A u \in Task \ {t} : /\ now' = u <=> now = u
                               /\ on_udp'[u] = on_udp[u]
                               /\ Same(u)
  BY <1>1, UpstreamAssumption DEF TaskInv, LifeType, Same
<1>3. LifeInv(t) /\ ~Nowhere(t) /\ ~AtNow(t) /\ \A s \in Session : ~AtList(t, s)
  BY Zenon, <1>1 DEF TaskInv, Nowhere, AtNow, AtList
<1>4. created[t] /\ (~finished[t] => primary[t] /\ ~answering[t] /\ AtUdp(t))
  BY Zenon, <1>3 DEF LifeInv, Placed
<1>5. AtUdp(t) => AtNow(t)'
  BY Zenon, <1>1, <1>2 DEF AtUdp, AtNow, Off, Listed
<1>6. LifeInv(t)'
  <2>1. CASE finished[t]
    BY Zenon, <1>1, <1>4, <2>1, EndsKnown
  <2>2. CASE ~finished[t]
    BY Zenon, <1>1, <1>4, <1>5, <2>2, GoesTo
  <2> QED
    BY Zenon, <2>1, <2>2
<1> QED
  BY Zenon, <1>1, <1>2, <1>6, MoveStill

LEMMA ClientKeepsTasks ==
  ASSUME TaskInv, NEW t \in Task,
         \/ OnAnswerSent(t) \/ ClientExpire(t) \/ ClientEnds(t) \/ Age(t)
  PROVE  TaskInv'
<1>1. /\ aborted = "no" /\ UNCHANGED <<waitinglist, tasklist, created, now>> /\ Ends1
  BY Zenon DEF OnAnswerSent, ClientExpire, ClientEnds, Age, Idle, sessions, Ends1
<1>2. CASE UNCHANGED <<finished, primary, answering, on_udp>>
  BY Zenon, <1>1, <1>2, IdleKeeps
<1>3. CASE OnAnswerSent(t)
  <2>1. /\ answering' = [answering EXCEPT ![t] = FALSE] /\ UNCHANGED <<finished, on_udp>>
        /\ primary' = [primary EXCEPT ![t] = FALSE] /\ answering[t]
    BY Zenon, <1>3 DEF OnAnswerSent, Complete, plan
  <2>2. LifeType' /\ \A u \in Task \ {t} : /\ now' = u <=> now = u
                                           /\ on_udp'[u] = on_udp[u]
                                           /\ Same(u)
    BY <1>1, <2>1 DEF TaskInv, LifeType, Same
  <2>3. LifeInv(t) /\ finished[t] /\ Still(t)
    BY Zenon, <1>1, <2>1, StillLists DEF TaskInv, LifeInv
  <2>4. LifeInv(t)'
    BY Zenon, <1>1, <2>1, <2>3, EndsInPlace
  <2> QED
    BY Zenon, <1>1, <2>2, <2>4, MoveStill
<1>4. CASE ClientExpire(t) /\ ~finished[t]
  <2>1. /\ finished' = [finished EXCEPT ![t] = TRUE] /\ on_udp' = [on_udp EXCEPT ![t] = FALSE]
        /\ answering' = [answering EXCEPT ![t] = TRUE] \/ UNCHANGED answering
        /\ primary' = [primary EXCEPT ![t] = FALSE] \/ UNCHANGED primary
    BY Zenon, <1>4 DEF ClientExpire
  <2>2. LifeType'
    BY Zenon, <1>1, <2>1 DEF TaskInv, LifeType
  <2>3. \A u \in Task \ {t} : /\ now' = u <=> now = u
                              /\ on_udp'[u] = on_udp[u]
                              /\ Same(u)
    BY Zenon, <1>1, <2>1 DEF TaskInv, LifeType, Same
  <2>4. finished'[t] /\ ~on_udp'[t]
    BY <2>1 DEF TaskInv, LifeType
  <2>5. CASE created[t]
    BY Zenon, <1>1, <2>2, <2>3, <2>4, <2>5, EndsKnown, MoveStill
  <2>6. CASE ~created[t]
    <3>1. LifeInv(t) /\ Nowhere(t)
      BY Zenon, <2>6 DEF TaskInv, LifeInv
    <3>2. on_udp'[t] = on_udp[t]
      <4>1. on_udp \in [Task -> BOOLEAN] /\ ~on_udp[t]
        BY Zenon, <3>1 DEF Nowhere, TaskInv, LifeType
      <4> QED
        BY Zenon, <2>1, <4>1
    <3>3. Still(t)
      BY Zenon, <1>1, <3>2, StillLists
    <3>4. LifeInv(t)'
      BY Zenon, <1>1, <2>4, <3>1, <3>3, EndsInPlace
    <3> QED
      BY Zenon, <1>1, <2>2, <2>3, <3>4, MoveStill
  <2> QED
    BY Zenon, <2>5, <2>6
<1>5. CASE ClientExpire(t) /\ finished[t]
  BY Zenon, <1>2, <1>5 DEF ClientExpire
<1>6. CASE ClientEnds(t) \/ Age(t)
  BY Zenon, <1>2, <1>6 DEF ClientEnds, Age, client, plan
<1> QED
  BY Zenon, <1>3, <1>4, <1>5, <1>6

LEMMA TaskInit == Init => TaskInv
<1> SUFFICES ASSUME Init PROVE TaskInv
  OBVIOUS
<1>1. LifeType
  BY DEF Init, LifeType
<1>2. ASSUME NEW t \in Task PROVE LifeInv(t)
  <2>1. ASSUME NEW s \in Session PROVE ~Listed(t, s)
    BY DEF Init, Listed, Elements
  <2>2. now # t /\ ~on_udp[t] /\ ~created[t] /\ ~answering[t]
    BY UpstreamAssumption DEF Init
  <2> QED
    BY Zenon, <2>1, <2>2 DEF LifeInv, Nowhere, Off
<1> QED
  BY Zenon, <1>1, <1>2 DEF TaskInv

LEMMA TaskStep ==
  ASSUME TaskInv, MapsInv, NowType, [Next]_vars
  PROVE  TaskInv'
<1>1. CASE UNCHANGED vars
  <2>1. UNCHANGED <<waitinglist, tasklist, created, finished, primary, answering, on_udp,
                    now, aborted>>
    BY Zenon, <1>1 DEF vars, sessions, client, plan
  <2> QED
    BY Zenon, <2>1, IdleKeeps DEF Ends1
<1>2. ASSUME NEW s \in Session, SessionProgress(s) \/ SessionEnvironment(s) PROVE TaskInv'
  BY Zenon, <1>2, TimersKeepTasks, TimeoutKeepsTasks, ConnectedKeepsTasks,
     HandshakeKeepsTasks, ReplyKeepsTasks DEF SessionProgress, SessionEnvironment
<1>3. ASSUME NEW t \in Task, TaskProgress(t) \/ TaskEnvironment(t) PROVE TaskInv'
  BY Zenon, <1>3, SubmitKeepsTasks, UdpDoneKeepsTasks, ClientKeepsTasks, WriteKeepsTasks
     DEF TaskProgress, TaskEnvironment
<1> QED
  BY Zenon, <1>1, <1>2, <1>3, StepKeepsTasks, LoopKeepsTasks DEF Next, Done

-----------------------------------------------------------------------------
(* One place                                                               *)

Waits(t) == {w \in Session \X (1 .. Cardinality(Task)) :
               /\ w[2] \in DOMAIN waitinglist[w[1]]
               /\ waitinglist[w[1]][w[2]] = t}
Awaits(t) == {s \in Session : t \in tasklist[s]}

LEMMA CountOff ==
  ASSUME NEW t \in Task, Off(t)
  PROVE  Cardinality(Waits(t)) = 0 /\ Cardinality(Awaits(t)) = 0
<1>1. \A s \in Session : t \notin Elements(waitinglist[s]) /\ t \notin tasklist[s]
  BY DEF Off, Listed
<1>2. Awaits(t) = {}
  BY <1>1 DEF Awaits
<1>3. Waits(t) = {}
  BY <1>1 DEF Waits, Elements
<1> QED
  BY Zenon, <1>2, <1>3, FS_EmptySet

LEMMA CountListed ==
  ASSUME MapsInv, NEW t \in Task, NEW s \in Session, AtList(t, s)
  PROVE  \/ Cardinality(Waits(t)) \in {0, 1} /\ Cardinality(Awaits(t)) = 0
         \/ Cardinality(Waits(t)) = 0 /\ Cardinality(Awaits(t)) = 1
<1>1. ASSUME NEW z \in Session, z # s
      PROVE  t \notin Elements(waitinglist[z]) /\ t \notin tasklist[z]
  BY <1>1 DEF AtList, Listed
<1>2. Once(t, waitinglist[s])
  BY Zenon DEF AtList
<1>3. CASE t \in tasklist[s]
  <2>1. t \notin Elements(waitinglist[s])
    BY Zenon, <1>3, ListsOf
  <2>2. Awaits(t) = {s}
    BY Zenon, <1>1, <1>3 DEF Awaits
  <2>3. Waits(t) = {}
    BY Zenon, <1>1, <2>1 DEF Waits, Elements
  <2> QED
    BY Zenon, <2>2, <2>3, FS_EmptySet, FS_Singleton
<1>4. CASE t \notin tasklist[s]
  <2>1. Awaits(t) = {}
    BY <1>1, <1>4 DEF Awaits
  <2>2. ASSUME NEW v \in Waits(t), NEW w \in Waits(t) PROVE v = w
    <3>1. /\ v = <<v[1], v[2]>> /\ w = <<w[1], w[2]>> /\ v[1] \in Session /\ w[1] \in Session
          /\ v[2] \in DOMAIN waitinglist[v[1]] /\ waitinglist[v[1]][v[2]] = t
          /\ w[2] \in DOMAIN waitinglist[w[1]] /\ waitinglist[w[1]][w[2]] = t
      BY DEF Waits
    <3>2. v[1] = s /\ w[1] = s
      BY Zenon, <1>1, <3>1 DEF Elements
    <3>3. v[2] = w[2]
      BY Zenon, <1>2, <3>1, <3>2 DEF Once
    <3> QED
      BY Zenon, <3>1, <3>2, <3>3
  <2>3. CASE Waits(t) = {}
    BY Zenon, <2>1, <2>3, FS_EmptySet
  <2>4. CASE Waits(t) # {}
    <3>1. PICK v : v \in Waits(t)
      BY <2>4
    <3>2. Waits(t) = {v}
      BY Zenon, <2>2, <3>1
    <3> QED
      BY Zenon, <2>1, <3>2, FS_EmptySet, FS_Singleton
  <2> QED
    BY Zenon, <2>3, <2>4
<1> QED
  BY Zenon, <1>3, <1>4

\* Between callbacks the timer of a session with tasks on a list runs.
LEMMA ListedIsTimed ==
  ASSUME MapsInv, loop = NoLoop, NEW t \in Task, NEW s \in Session, Listed(t, s)
  PROVE  timer[s] # "off"
<1>1. loop.session # s
  BY UpstreamAssumption DEF NoLoop
<1>2. SessionInv(s)
  BY Zenon DEF MapsInv
<1>3. CASE t \in tasklist[s]
  BY Zenon, <1>1, <1>2, <1>3 DEF SessionInv
<1>4. CASE t \in Elements(waitinglist[s])
  <2>1. waitinglist[s] # <<>>
    BY SMTT(30), <1>4 DEF Elements
  <2>2. tcp_waiting[peer[s]] = s
    BY Zenon, <1>1, <1>2, <2>1 DEF SessionInv
  <2> QED
    BY Zenon, <2>2, Mapped
<1> QED
  BY Zenon, <1>3, <1>4 DEF Listed

\* For any number of tasks, peers and sessions, if a write to an open upstream
\* connection does not fail: an unfinished task holds its primary reference,
\* is in one place at most (being stepped, out over UDP, waiting in one slot
\* of one session, awaiting one answer), and between callbacks it is in one
\* that a running timer watches.
THEOREM TasksHaveOnePlace ==
  ASSUME "write" \notin Faults
  PROVE  Spec => []OnePlace
<1>1. ASSUME TaskInv, MapsInv PROVE OnePlace
  <2> SUFFICES ASSUME NEW t \in Task, created[t], ~finished[t], aborted = "no"
               PROVE  /\ primary[t]
                      /\ One(now = t) + One(on_udp[t])
                         + Cardinality(Waits(t)) + Cardinality(Awaits(t)) <= 1
                      /\ Idle => \/ on_udp[t]
                                 \/ \E s \in Session :
                                      /\ timer[s] # "off"
                                      /\ t \in Elements(waitinglist[s]) \cup tasklist[s]
    BY Zenon DEF OnePlace, Waits, Awaits
  <2>1. LifeInv(t)
    BY Zenon, <1>1 DEF TaskInv
  <2>2. primary[t] /\ (AtNow(t) \/ AtUdp(t) \/ \E s \in Session : AtList(t, s))
    BY Zenon, <2>1 DEF LifeInv, Placed, Lost
  <2>3. CASE AtNow(t)
    <3>1. now = t /\ ~on_udp[t] /\ ~Idle
      BY Zenon, <2>3, UpstreamAssumption DEF AtNow, Idle
    <3>2. Cardinality(Waits(t)) = 0 /\ Cardinality(Awaits(t)) = 0
      BY Zenon, <2>3, CountOff DEF AtNow
    <3>3. One(now = t) = 1 /\ One(on_udp[t]) = 0
      BY <3>1 DEF One
    <3>4. One(now = t) + One(on_udp[t]) + Cardinality(Waits(t)) + Cardinality(Awaits(t)) = 1 + 0 + 0 + 0
      BY Zenon, <3>2, <3>3
    <3>5. 1 + 0 + 0 + 0 <= 1
      OBVIOUS
    <3> QED
      BY Zenon, <2>2, <3>1, <3>4, <3>5
  <2>4. CASE AtUdp(t)
    <3>1. now # t /\ on_udp[t]
      BY <2>4 DEF AtUdp
    <3>2. Cardinality(Waits(t)) = 0 /\ Cardinality(Awaits(t)) = 0
      BY Zenon, <2>4, CountOff DEF AtUdp
    <3>3. One(now = t) = 0 /\ One(on_udp[t]) = 1
      BY <3>1 DEF One
    <3>4. One(now = t) + One(on_udp[t]) + Cardinality(Waits(t)) + Cardinality(Awaits(t)) = 0 + 1 + 0 + 0
      BY Zenon, <3>2, <3>3
    <3>5. 0 + 1 + 0 + 0 <= 1
      OBVIOUS
    <3> QED
      BY Zenon, <2>2, <3>1, <3>4, <3>5
  <2>5. ASSUME NEW s \in Session, AtList(t, s)
        PROVE  /\ One(now = t) + One(on_udp[t])
                  + Cardinality(Waits(t)) + Cardinality(Awaits(t)) <= 1
               /\ Idle => timer[s] # "off"
               /\ t \in Elements(waitinglist[s]) \cup tasklist[s]
    <3>1. now # t /\ ~on_udp[t] /\ Listed(t, s)
      BY Zenon, <2>5 DEF AtList
    <3>2. Idle => timer[s] # "off"
      BY Zenon, <1>1, <3>1, ListedIsTimed DEF Idle
    <3>3. \/ Cardinality(Waits(t)) \in {0, 1} /\ Cardinality(Awaits(t)) = 0
          \/ Cardinality(Waits(t)) = 0 /\ Cardinality(Awaits(t)) = 1
      BY Zenon, <1>1, <2>5, CountListed
    <3>4. One(now = t) = 0 /\ One(on_udp[t]) = 0
      BY Zenon, <3>1 DEF One
    <3>5. PICK a \in Int, b \in Int :
             /\ a = Cardinality(Waits(t)) /\ b = Cardinality(Awaits(t)) /\ a + b <= 1
      BY <3>3
    <3>6. One(now = t) + One(on_udp[t]) + Cardinality(Waits(t)) + Cardinality(Awaits(t)) = 0 + 0 + a + b
      BY Zenon, <3>4, <3>5
    <3>7. 0 + 0 + a + b <= 1
      BY <3>5
    <3> QED
      BY Zenon, <3>1, <3>2, <3>6, <3>7 DEF Listed
  <2> QED
    BY Zenon, <2>2, <2>3, <2>4, <2>5
<1>2. TaskInv /\ MapsInv /\ NowType /\ [Next]_vars => (TaskInv /\ MapsInv /\ NowType)'
  BY Zenon, TaskStep, MapsStep
<1>3. Init => TaskInv /\ MapsInv /\ NowType
  BY Zenon, TaskInit, MapsInit
<1> QED
  BY <1>1, <1>2, <1>3, PTL DEF Spec
=============================================================================
