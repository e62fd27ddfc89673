--------------------------- MODULE UpstreamProofs ---------------------------
(***************************************************************************)
(* What module Upstream promises of the maps of upstream connections, for  *)
(* any number of tasks, peers and sessions and any value of the limits.    *)
(*                                                                         *)
(* The maps are about sessions alone, so a step is first reduced to what   *)
(* it does to one session (lemma NextShape), and every such shape is shown *)
(* to keep the invariant of the maps.                                      *)
(***************************************************************************)
EXTENDS Upstream, TLAPS

-----------------------------------------------------------------------------
(* The invariant of the maps                                               *)

MapsType ==
  /\ tcp_waiting \in [Peer -> Session \cup {NoSession}]
  /\ tcp_connected \in [Peer -> Session \cup {NoSession}]
  /\ state \in [Session -> {"free", "connecting", "handshake", "connected", "closing"}]
  /\ peer \in [Session -> Peer]
  /\ waitinglist \in [Session -> Seq(Task)] /\ tasklist \in [Session -> SUBSET Task]
  /\ timer \in [Session -> {"off", "on_tcp_connect_timeout", "tcp_timeout_trigger"}]

\* What tcp_waiting and tcp_connected say of a peer.  The session being taken
\* down by a loop is in neither.
PeerInv(p) ==
  /\ tcp_waiting[p] = NoSession \/ tcp_connected[p] = NoSession
  /\ tcp_waiting[p] # NoSession =>
       /\ peer[tcp_waiting[p]] = p /\ loop.session # tcp_waiting[p]
       /\ state[tcp_waiting[p]] \in {"connecting", "handshake"}
       /\ timer[tcp_waiting[p]] # "off"
       /\ \/ waitinglist[tcp_waiting[p]] # <<>>
          \/ LongIdle /\ state[tcp_waiting[p]] = "handshake"
  /\ tcp_connected[p] # NoSession =>
       /\ peer[tcp_connected[p]] = p /\ loop.session # tcp_connected[p]
       /\ state[tcp_connected[p]] = "connected"

\* A session in use is in a map under its peer's address and its timer runs.
\* One that is being connected to may have timed out; nothing waits for it
\* any more then.
SessionInv(s) ==
  /\ state[s] = "connected" /\ loop.session # s =>
       tcp_connected[peer[s]] = s /\ timer[s] # "off"
  /\ state[s] = "handshake" /\ loop.session # s => tcp_waiting[peer[s]] = s
  /\ /\ state[s] = "connecting" /\ loop.session # s
     /\ waitinglist[s] # <<>> \/ timer[s] # "off"
     => tcp_waiting[peer[s]] = s
  /\ waitinglist[s] # <<>> => state[s] \in {"connecting", "handshake"}
  /\ tasklist[s] # {} => state[s] = "connected"
  /\ timer[s] = "on_tcp_connect_timeout" => state[s] = "connecting"
  /\ timer[s] = "tcp_timeout_trigger" =>
       state[s] \in {"handshake", "connected"} /\ loop.session # s

\* session_waitinglist_retry() is called for a session that was never
\* connected, worker_end_tcp() for one that was.
LoopInv ==
  \/ loop = NoLoop
  \/ /\ loop \in [op : {"retry"}, session : Session, timeout : BOOLEAN]
     /\ state[loop.session] = "connecting"
     /\ loop.timeout => timer[loop.session] = "off"
  \/ /\ loop \in [op : {"end"}, session : Session, timeout : {FALSE}]
     /\ state[loop.session] \in {"handshake", "connected"}

MapsInv ==
  /\ MapsType
  /\ \A p \in Peer : PeerInv(p)
  /\ \A s \in Session : SessionInv(s)
  /\ LoopInv

-----------------------------------------------------------------------------
(* What steps do to sessions, maps and the loop                            *)

maps == <<tcp_waiting, tcp_connected, state, peer, waitinglist, tasklist, timer, loop>>

\* Another task waits for s to be connected.
Pushes(s, t) ==
  /\ waitinglist[s] # <<>> \/ state[s] = "handshake"
  /\ loop.session # s /\ state[s] \in {"connecting", "handshake"}
  /\ waitinglist' = [waitinglist EXCEPT ![s] = Append(@, t)]
  /\ UNCHANGED <<tcp_waiting, tcp_connected, state, peer, tasklist, timer, loop>>

\* A task list changes, and grows only on a connected session.
Lists(s, l) ==
  /\ l # {} => state[s] = "connected"
  /\ tasklist' = [tasklist EXCEPT ![s] = l]
  /\ UNCHANGED <<tcp_waiting, tcp_connected, state, peer, waitinglist, timer, loop>>

\* s is found in one of the maps.
InMap(s) == tcp_waiting[peer[s]] = s \/ tcp_connected[peer[s]] = s

\* s is closed, its lists are emptied and its map entries deleted.
Drops(s) ==
  /\ InMap(s)
  /\ tcp_waiting' = Forget(tcp_waiting, peer[s])
  /\ tcp_connected' = Forget(tcp_connected, peer[s])
  /\ tasklist' = [tasklist EXCEPT ![s] = {}]
  /\ waitinglist' = [waitinglist EXCEPT ![s] = <<>>]
  /\ Close(s)
  /\ UNCHANGED <<peer, loop>>

\* The waiting tasks of s are sent.
Sends(s) ==
  /\ InMap(s)
  /\ tcp_waiting' = Forget(tcp_waiting, peer[s])
  /\ AllSent(s)
  /\ UNCHANGED <<peer, loop>>

\* s is connected and its TLS handshake begins.
Shakes(s) ==
  /\ tcp_waiting[peer[s]] = s /\ state[s] = "connecting"
  /\ state' = [state EXCEPT ![s] = "handshake"]
  /\ timer' = [timer EXCEPT ![s] = "tcp_timeout_trigger"]
  /\ UNCHANGED <<tcp_waiting, tcp_connected, peer, waitinglist, tasklist, loop>>

\* tcp_timeout_trigger() empties both lists and keeps s.
Empties(s) ==
  /\ InMap(s)
  /\ state[s] = "connected" \/ (state[s] = "handshake" /\ LongIdle)
  /\ tasklist' = [tasklist EXCEPT ![s] = {}]
  /\ waitinglist' = [waitinglist EXCEPT ![s] = <<>>]
  /\ UNCHANGED <<tcp_waiting, tcp_connected, state, peer, timer, loop>>

\* A session is opened to p for t, or uv_tcp_connect() fails at once.
Opens(s, p, t) ==
  /\ state[s] = "free" /\ tcp_waiting[p] = NoSession /\ tcp_connected[p] = NoSession
  /\ peer' = [peer EXCEPT ![s] = p]
  /\ state' = [state EXCEPT ![s] = "connecting"]
  /\ timer' = [timer EXCEPT ![s] = "on_tcp_connect_timeout"]
  /\ tcp_waiting' = [tcp_waiting EXCEPT ![p] = s]
  /\ waitinglist' = [waitinglist EXCEPT ![s] = <<t>>]
  /\ UNCHANGED <<tcp_connected, tasklist, loop>>

Misses(s, p) ==
  /\ state[s] = "free"
  /\ peer' = [peer EXCEPT ![s] = p]
  /\ Close(s)
  /\ UNCHANGED <<tcp_waiting, tcp_connected, waitinglist, tasklist, loop>>

\* The loops start, turn and end.
Ends(s) ==
  /\ loop = NoLoop /\ state[s] \in {"handshake", "connected"}
  /\ EndTcp(s)

Retries(s, timeout) ==
  /\ loop = NoLoop /\ state[s] = "connecting"
  /\ tcp_waiting' = IF tcp_waiting[peer[s]] = s THEN Forget(tcp_waiting, peer[s])
                                                ELSE tcp_waiting
  /\ timer' = IF timeout THEN [timer EXCEPT ![s] = "off"] ELSE timer
  /\ Retry(s, timeout)
  /\ UNCHANGED <<tcp_connected, state, peer, waitinglist, tasklist>>

Pops(s) ==
  /\ waitinglist[s] # <<>>
  /\ loop.session = s
  /\ waitinglist' = [waitinglist EXCEPT ![s] = Tail(@)]
  /\ UNCHANGED <<tcp_waiting, tcp_connected, state, peer, tasklist, timer, loop>>

LoopEnds(s) ==
  /\ loop # NoLoop /\ loop.session = s
  /\ waitinglist[s] = <<>> /\ (loop.op = "end" => tasklist[s] = {})
  /\ IF loop.timeout THEN UNCHANGED <<state, timer>> ELSE Close(s)
  /\ loop' = NoLoop
  /\ UNCHANGED <<tcp_waiting, tcp_connected, peer, waitinglist, tasklist>>

\* on_session_close()
Frees(s) ==
  /\ state[s] = "closing"
  /\ state' = [state EXCEPT ![s] = "free"]
  /\ UNCHANGED <<tcp_waiting, tcp_connected, peer, waitinglist, tasklist, timer, loop>>

Shape(s) ==
  \/ \E t \in Task : Pushes(s, t)
  \/ \E l \in SUBSET Task : Lists(s, l)
  \/ Drops(s) \/ Sends(s) \/ Shakes(s) \/ Empties(s)
  \/ \E p \in Peer : Misses(s, p) \/ \E t \in Task : Opens(s, p, t)
  \/ Ends(s) \/ \E b \in BOOLEAN : Retries(s, b)
  \/ Pops(s) \/ LoopEnds(s) \/ Frees(s)

-----------------------------------------------------------------------------
(* Waiting lists                                                           *)

\* t is in the queue q at most once.
Once(t, q) == \A i, j \in DOMAIN q : q[i] = t /\ q[j] = t => i = j

\* queue_push()
LEMMA Pushed ==
  ASSUME NEW q \in Seq(Task), NEW t \in Task
  PROVE  /\ Append(q, t) \in Seq(Task) /\ Append(q, t) # <<>>
         /\ Elements(Append(q, t)) = Elements(q) \cup {t}
         /\ t \notin Elements(q) => Once(t, Append(q, t))
         /\ \A u : u # t /\ Once(u, q) => Once(u, Append(q, t))
<1> DEFINE r == Append(q, t)
<1>1. /\ r \in Seq(Task) /\ Len(q) \in Nat /\ DOMAIN q = 1 .. Len(q)
      /\ DOMAIN r = 1 .. Len(q) + 1 /\ r[Len(q) + 1] = t
      /\ \A i \in 1 .. Len(q) : r[i] = q[i]
  OBVIOUS
<1> HIDE DEF r
<1>2. /\ \A i \in DOMAIN r : i \in DOMAIN q \/ i = Len(q) + 1
      /\ Len(q) + 1 \in DOMAIN r
      /\ \A i \in DOMAIN q : i \in DOMAIN r /\ r[i] = q[i]
  BY <1>1
<1>3. r # <<>>
  BY <1>2
<1>4. Elements(r) = Elements(q) \cup {t}
  BY <1>1, <1>2 DEF Elements
<1>5. ASSUME t \notin Elements(q) PROVE Once(t, r)
  BY <1>1, <1>2, <1>5 DEF Elements, Once
<1>6. ASSUME NEW u, u # t, Once(u, q) PROVE Once(u, r)
  BY <1>1, <1>2, <1>6 DEF Once
<1> QED
  BY <1>1, <1>3, <1>4, <1>5, <1>6 DEF r

\* queue_pop()
LEMMA Popped ==
  ASSUME NEW q \in Seq(Task), q # <<>>
  PROVE  /\ Head(q) \in Task /\ Tail(q) \in Seq(Task)
         /\ Elements(q) = Elements(Tail(q)) \cup {Head(q)}
         /\ Once(Head(q), q) => Head(q) \notin Elements(Tail(q))
         /\ \A u : Once(u, q) => Once(u, Tail(q))
<1> DEFINE r == Tail(q)
<1>1. /\ r \in Seq(Task) /\ Len(q) \in Nat /\ Len(q) > 0 /\ DOMAIN q = 1 .. Len(q)
      /\ DOMAIN r = 1 .. Len(q) - 1 /\ Head(q) = q[1] /\ Head(q) \in Task
      /\ \A i \in 1 .. Len(q) - 1 : r[i] = q[i + 1]
  OBVIOUS
<1> HIDE DEF r
<1>2. /\ 1 \in DOMAIN q /\ \A i \in DOMAIN q : i = 1 \/ i - 1 \in DOMAIN r
      /\ \A i \in DOMAIN r : i + 1 \in DOMAIN q /\ i + 1 # 1 /\ r[i] = q[i + 1]
      /\ \A i \in DOMAIN q : i # 1 => r[i - 1] = q[i]
  BY <1>1
<1>3. Elements(q) = Elements(r) \cup {q[1]}
  <2>1. ASSUME NEW u \in Elements(q) PROVE u \in Elements(r) \cup {q[1]}
    <3>1. PICK i \in DOMAIN q : u = q[i]
      BY <2>1 DEF Elements
    <3>2. CASE i = 1
      BY <3>1, <3>2
    <3>3. CASE i # 1
      BY <1>2, <3>1, <3>3 DEF Elements
    <3> QED
      BY <3>2, <3>3
  <2>2. ASSUME NEW u \in Elements(r) PROVE u \in Elements(q)
    BY <1>2, <2>2 DEF Elements
  <2>3. q[1] \in Elements(q)
    BY <1>2 DEF Elements
  <2> QED
    BY <2>1, <2>2, <2>3
<1>4. ASSUME Once(q[1], q) PROVE q[1] \notin Elements(r)
  BY <1>2, <1>4 DEF Once, Elements
<1>5. ASSUME NEW u, Once(u, q) PROVE Once(u, r)
  <2>1. ASSUME NEW i \in DOMAIN r, NEW j \in DOMAIN r, r[i] = u, r[j] = u PROVE i = j
    <3>1. i + 1 = j + 1
      BY <1>2, <1>5, <2>1 DEF Once
    <3> QED
      BY <1>1, <3>1
  <2> QED
    BY <2>1 DEF Once
<1> QED
  BY <1>1, <1>3, <1>4, <1>5 DEF r

\* A new and an emptied queue.
LEMMA Few ==
  ASSUME NEW t \in Task
  PROVE  /\ <<t>> \in Seq(Task) /\ <<t>> # <<>> /\ Elements(<<t>>) = {t}
         /\ <<>> \in Seq(Task) /\ Elements(<<>>) = {}
         /\ \A u : Once(u, <<t>>) /\ Once(u, <<>>)
BY DEF Elements, Once

-----------------------------------------------------------------------------
(* Every shape keeps the invariant of the maps                             *)

\* What it is for a session to be in a map.
LEMMA Mapped ==
  ASSUME MapsInv, NEW s \in Session
  PROVE  /\ \A p \in Peer : tcp_waiting[p] = s =>
              /\ p = peer[s] /\ state[s] \in {"connecting", "handshake"}
              /\ loop.session # s /\ timer[s] # "off" /\ tcp_connected[p] = NoSession
         /\ \A p \in Peer : tcp_connected[p] = s =>
              /\ p = peer[s] /\ state[s] = "connected"
              /\ loop.session # s /\ tcp_waiting[p] = NoSession
         /\ peer[s] \in Peer /\ s # NoSession
<1>1. ASSUME NEW p \in Peer PROVE PeerInv(p)
  BY DEF MapsInv
<1> QED
  BY <1>1, UpstreamAssumption DEF MapsInv, MapsType, PeerInv

\* The session of a loop was opened, and a step that leaves it alone keeps the
\* loop's invariant.
LEMMA Looped ==
  ASSUME MapsInv
  PROVE  \/ loop = NoLoop /\ loop.session = NoSession
         \/ /\ loop # NoLoop /\ loop.session \in Session /\ loop.timeout \in BOOLEAN
            /\ state[loop.session] \in {"connecting", "handshake", "connected"}
<1>1. CASE loop = NoLoop
  BY <1>1 DEF NoLoop
<1>2. CASE loop # NoLoop
  <2>1. \/ /\ loop \in [op : {"retry"}, session : Session, timeout : BOOLEAN]
           /\ state[loop.session] = "connecting"
        \/ /\ loop \in [op : {"end"}, session : Session, timeout : {FALSE}]
           /\ state[loop.session] \in {"handshake", "connected"}
    BY Zenon, <1>2 DEF MapsInv, LoopInv
  <2>2. loop.session \in Session /\ loop.timeout \in BOOLEAN
    BY Zenon, <2>1
  <2> QED
    BY Zenon, <1>2, <2>1, <2>2
<1> QED
  BY <1>1, <1>2

LEMMA LoopKept ==
  ASSUME MapsInv, loop' = loop,
         \A z \in Session : z = loop.session => state'[z] = state[z] /\ timer'[z] = timer[z]
  PROVE  LoopInv'
<1>1. CASE loop = NoLoop
  BY <1>1 DEF LoopInv
<1>2. CASE loop # NoLoop
  <2>1. /\ loop.session \in Session
        /\ state'[loop.session] = state[loop.session]
        /\ timer'[loop.session] = timer[loop.session]
    BY <1>2, Looped
  <2> QED
    BY Zenon, <1>2, <2>1 DEF MapsInv, LoopInv
<1> QED
  BY <1>1, <1>2

LEMMA PushKeeps ==
  ASSUME MapsInv, NEW s \in Session, NEW t \in Task, Pushes(s, t)
  PROVE  MapsInv'
<1> USE UpstreamAssumption
<1>1. /\ waitinglist' = [waitinglist EXCEPT ![s] = Append(waitinglist[s], t)]
      /\ waitinglist[s] \in Seq(Task)
      /\ UNCHANGED <<tcp_waiting, tcp_connected, state, peer, tasklist, timer, loop>>
  BY DEF Pushes, MapsInv, MapsType
<1>2. PICK q \in Seq(Task) : q = Append(waitinglist[s], t) /\ q # <<>>
  BY Zenon, <1>1, Pushed
<1>3. waitinglist' = [waitinglist EXCEPT ![s] = q]
  BY <1>1, <1>2
<1>4. MapsType'
  BY SMTT(30), <1>1, <1>3 DEF MapsInv, MapsType
<1>5. ASSUME NEW p \in Peer PROVE PeerInv(p)'
  <2>1. PeerInv(p) /\ tcp_waiting[p] \in Session \cup {NoSession}
    BY DEF MapsInv, MapsType
  <2> QED
    BY <1>1, <1>2, <1>3, <2>1 DEF PeerInv, MapsInv, MapsType
<1>6. ASSUME NEW z \in Session PROVE SessionInv(z)'
  <2>1. SessionInv(z)
    BY DEF MapsInv
  <2>2. CASE z # s
    <3>1. waitinglist'[z] = waitinglist[z]
      BY <1>3, <2>2 DEF MapsInv, MapsType
    <3> QED
      BY Zenon, <1>1, <2>1, <3>1 DEF SessionInv
  <2>3. CASE z = s
    BY <1>1, <1>2, <1>3, <2>1, <2>3 DEF SessionInv, MapsInv, MapsType, Pushes
  <2> QED
    BY <2>2, <2>3
<1>7. LoopInv'
  BY Zenon, <1>1 DEF LoopInv, MapsInv
<1> QED
  BY <1>4, <1>5, <1>6, <1>7 DEF MapsInv

LEMMA ListKeeps ==
  ASSUME MapsInv, NEW s \in Session, NEW l \in SUBSET Task, Lists(s, l)
  PROVE  MapsInv'
<1>1. /\ tasklist' = [tasklist EXCEPT ![s] = l] /\ (l # {} => state[s] = "connected")
      /\ UNCHANGED <<tcp_waiting, tcp_connected, state, peer, waitinglist, timer, loop>>
  BY DEF Lists
<1>2. MapsType'
  BY <1>1 DEF MapsInv, MapsType
<1>3. ASSUME NEW p \in Peer PROVE PeerInv(p)'
  BY <1>1 DEF PeerInv, MapsInv
<1>4. ASSUME NEW z \in Session PROVE SessionInv(z)'
  <2>1. SessionInv(z)
    BY DEF MapsInv
  <2>2. tasklist'[z] # {} => state[z] = "connected"
    BY <1>1, <2>1 DEF SessionInv, MapsInv, MapsType
  <2> QED
    BY <1>1, <2>1, <2>2 DEF SessionInv
<1>5. LoopInv'
  BY Zenon, <1>1 DEF LoopInv, MapsInv
<1> QED
  BY <1>2, <1>3, <1>4, <1>5 DEF MapsInv

LEMMA DropKeeps ==
  ASSUME MapsInv, NEW s \in Session, Drops(s)
  PROVE  MapsInv'
<1> USE UpstreamAssumption
<1>1. /\ tcp_waiting' = [tcp_waiting EXCEPT ![peer[s]] = NoSession]
      /\ tcp_connected' = [tcp_connected EXCEPT ![peer[s]] = NoSession]
      /\ tasklist' = [tasklist EXCEPT ![s] = {}]
      /\ waitinglist' = [waitinglist EXCEPT ![s] = <<>>]
      /\ state' = [state EXCEPT ![s] = "closing"]
      /\ timer' = [timer EXCEPT ![s] = "off"]
      /\ UNCHANGED <<peer, loop>>
      /\ tcp_waiting[peer[s]] = s \/ tcp_connected[peer[s]] = s
  BY DEF Drops, Forget, Close, InMap
<1>2. MapsType'
  BY <1>1 DEF MapsInv, MapsType
<1>3. loop.session # s /\ peer[s] \in Peer /\ s # NoSession
  BY <1>1, Mapped
<1>4. ASSUME NEW p \in Peer PROVE PeerInv(p)'
  <2>1. PeerInv(p) /\ tcp_waiting[p] \in Session \cup {NoSession}
        /\ tcp_connected[p] \in Session \cup {NoSession}
    BY DEF MapsInv, MapsType
  <2>2. CASE p = peer[s]
    BY <1>1, <2>2 DEF PeerInv, MapsInv, MapsType
  <2>3. CASE p # peer[s]
    <3>1. /\ tcp_waiting'[p] = tcp_waiting[p] /\ tcp_connected'[p] = tcp_connected[p]
          /\ tcp_waiting[p] # s /\ tcp_connected[p] # s
      BY <1>1, <2>3, Mapped DEF MapsInv, MapsType
    <3> QED
      BY SMTT(30), <1>1, <2>1, <3>1 DEF PeerInv, MapsInv, MapsType
  <2> QED
    BY <2>2, <2>3
<1>5. ASSUME NEW z \in Session PROVE SessionInv(z)'
  <2>1. SessionInv(z)
    BY DEF MapsInv
  <2>2. CASE z = s
    BY SMTT(30), <1>1, <2>2 DEF SessionInv, MapsInv, MapsType
  <2>3. CASE z # s
    <3>1. /\ state'[z] = state[z] /\ timer'[z] = timer[z] /\ tasklist'[z] = tasklist[z]
          /\ waitinglist'[z] = waitinglist[z]
      BY <1>1, <2>3 DEF MapsInv, MapsType
    <3>2. /\ tcp_waiting[peer[z]] = z => tcp_waiting'[peer[z]] = z
          /\ tcp_connected[peer[z]] = z => tcp_connected'[peer[z]] = z
      <4>1. CASE peer[z] # peer[s]
        BY Zenon, <1>1, <4>1, Mapped DEF MapsInv, MapsType
      <4>2. CASE peer[z] = peer[s]
        BY <1>1, <1>3, <2>3, <4>2, Mapped
      <4> QED
        BY Zenon, <4>1, <4>2
    <3> QED
      BY <1>1, <2>1, <3>1, <3>2 DEF SessionInv
  <2> QED
    BY <2>2, <2>3
<1>6. LoopInv'
  BY Zenon, <1>1, <1>3 DEF LoopInv, MapsInv, MapsType
<1> QED
  BY <1>2, <1>4, <1>5, <1>6 DEF MapsInv

LEMMA SendKeeps ==
  ASSUME MapsInv, NEW s \in Session, Sends(s)
  PROVE  MapsInv'
<1> USE UpstreamAssumption
<1>1. /\ tcp_waiting' = [tcp_waiting EXCEPT ![peer[s]] = NoSession]
      /\ tcp_connected' = [tcp_connected EXCEPT ![peer[s]] = s]
      /\ tasklist' = [tasklist EXCEPT ![s] = tasklist[s] \cup Elements(waitinglist[s])]
      /\ waitinglist' = [waitinglist EXCEPT ![s] = <<>>]
      /\ state' = [state EXCEPT ![s] = "connected"]
      /\ timer' = [timer EXCEPT ![s] = "tcp_timeout_trigger"]
      /\ UNCHANGED <<peer, loop>>
      /\ tcp_waiting[peer[s]] = s \/ tcp_connected[peer[s]] = s
  BY DEF Sends, Forget, AllSent, InMap
<1>2. MapsType'
  <2>1. Elements(waitinglist[s]) \subseteq Task
    BY DEF MapsInv, MapsType, Elements
  <2> QED
    BY <1>1, <2>1 DEF MapsInv, MapsType
<1>3. loop.session # s /\ peer[s] \in Peer /\ s # NoSession
  BY Zenon, <1>1, Mapped
<1>4. ASSUME NEW p \in Peer PROVE PeerInv(p)'
  <2>1. PeerInv(p) /\ tcp_waiting[p] \in Session \cup {NoSession}
        /\ tcp_connected[p] \in Session \cup {NoSession}
    BY DEF MapsInv, MapsType
  <2>2. CASE p = peer[s]
    BY SMTT(30), <1>1, <1>3, <2>2 DEF PeerInv, MapsInv, MapsType
  <2>3. CASE p # peer[s]
    <3>1. /\ tcp_waiting'[p] = tcp_waiting[p] /\ tcp_connected'[p] = tcp_connected[p]
          /\ tcp_waiting[p] # s /\ tcp_connected[p] # s
      BY SMTT(30), <1>1, <2>3, Mapped DEF MapsInv, MapsType
    <3> QED
      BY SMTT(30), <1>1, <2>1, <3>1 DEF PeerInv, MapsInv, MapsType
  <2> QED
    BY <2>2, <2>3
<1>5. ASSUME NEW z \in Session PROVE SessionInv(z)'
  <2>1. SessionInv(z)
    BY DEF MapsInv
  <2>2. CASE z = s
    BY SMTT(30), <1>1, <1>3, <2>2 DEF SessionInv, MapsInv, MapsType
  <2>3. CASE z # s
    <3>1. /\ state'[z] = state[z] /\ timer'[z] = timer[z] /\ tasklist'[z] = tasklist[z]
          /\ waitinglist'[z] = waitinglist[z]
      BY Zenon, <1>1, <2>3 DEF MapsInv, MapsType
    <3>2. /\ tcp_waiting[peer[z]] = z => tcp_waiting'[peer[z]] = z
          /\ tcp_connected[peer[z]] = z => tcp_connected'[peer[z]] = z
      <4>1. CASE peer[z] # peer[s]
        BY <1>1, <4>1, Mapped DEF MapsInv, MapsType
      <4>2. CASE peer[z] = peer[s]
        BY <1>1, <1>3, <2>3, <4>2, Mapped
      <4> QED
        BY <4>1, <4>2
    <3> QED
      BY <1>1, <2>1, <3>1, <3>2 DEF SessionInv
  <2> QED
    BY <2>2, <2>3
<1>6. LoopInv'
  BY Zenon, <1>1, <1>3 DEF LoopInv, MapsInv, MapsType
<1> QED
  BY <1>2, <1>4, <1>5, <1>6 DEF MapsInv

LEMMA ShakeKeeps ==
  ASSUME MapsInv, NEW s \in Session, Shakes(s)
  PROVE  MapsInv'
<1> USE UpstreamAssumption
<1>1. /\ UNCHANGED <<tcp_waiting, tcp_connected, peer, waitinglist, tasklist, loop>>
      /\ tcp_waiting[peer[s]] = s /\ state[s] = "connecting"
      /\ state' = [state EXCEPT ![s] = "handshake"]
      /\ timer' = [timer EXCEPT ![s] = "tcp_timeout_trigger"]
  BY DEF Shakes
<1>2. MapsType'
  BY <1>1 DEF MapsInv, MapsType
<1>3. loop.session # s /\ peer[s] \in Peer /\ s # NoSession
  BY <1>1, Mapped
<1>4. ASSUME NEW z \in Session, z # s
      PROVE  /\ state'[z] = state[z] /\ timer'[z] = timer[z] /\ tasklist'[z] = tasklist[z]
             /\ waitinglist'[z] = waitinglist[z] /\ peer'[z] = peer[z]
  BY <1>1, <1>4 DEF MapsInv, MapsType
<1>5. ASSUME NEW p \in Peer PROVE PeerInv(p)'
  <2>1. PeerInv(p) /\ tcp_waiting[p] \in Session \cup {NoSession}
        /\ tcp_connected[p] \in Session \cup {NoSession}
    BY DEF MapsInv, MapsType
  <2>2. state'[s] = "handshake" /\ timer'[s] = "tcp_timeout_trigger"
    BY <1>1 DEF MapsInv, MapsType
  <2>3. tcp_connected[p] # s
    BY <1>1, Mapped
  <2>4. CASE tcp_waiting[p] = s
    BY Zenon, <1>1, <1>3, <2>1, <2>2, <2>3, <2>4 DEF PeerInv
  <2>5. CASE tcp_waiting[p] # s
    BY SMTT(30), <1>1, <1>4, <2>1, <2>3, <2>5 DEF PeerInv
  <2> QED
    BY <2>4, <2>5
<1>6. ASSUME NEW z \in Session PROVE SessionInv(z)'
  <2>1. SessionInv(z)
    BY DEF MapsInv
  <2>2. CASE z = s
    <3>1. state'[s] = "handshake" /\ timer'[s] = "tcp_timeout_trigger"
      BY Zenon, <1>1 DEF MapsInv, MapsType
    <3> QED
      BY <1>1, <1>3, <2>1, <2>2, <3>1 DEF SessionInv
  <2>3. CASE z # s
    BY Zenon, <1>1, <1>4, <2>1, <2>3 DEF SessionInv
  <2> QED
    BY <2>2, <2>3
<1>7. LoopInv'
  BY <1>1, <1>3, <1>4, LoopKept
<1> QED
  BY <1>2, <1>5, <1>6, <1>7 DEF MapsInv

LEMMA EmptyKeeps ==
  ASSUME MapsInv, NEW s \in Session, Empties(s)
  PROVE  MapsInv'
<1> USE UpstreamAssumption
<1>1. /\ UNCHANGED <<tcp_waiting, tcp_connected, state, peer, timer, loop>>
      /\ state[s] = "connected" \/ (state[s] = "handshake" /\ LongIdle)
      /\ tasklist' = [tasklist EXCEPT ![s] = {}]
      /\ waitinglist' = [waitinglist EXCEPT ![s] = <<>>]
  BY DEF Empties
<1>2. MapsType'
  BY <1>1 DEF MapsInv, MapsType
<1>3. s # NoSession /\ tasklist'[s] = {} /\ waitinglist'[s] = <<>>
  BY <1>1 DEF MapsInv, MapsType
<1>4. ASSUME NEW z \in Session, z # s
      PROVE  /\ state'[z] = state[z] /\ timer'[z] = timer[z] /\ tasklist'[z] = tasklist[z]
             /\ waitinglist'[z] = waitinglist[z] /\ peer'[z] = peer[z]
  BY Zenon, <1>1, <1>4 DEF MapsInv, MapsType
<1>5. ASSUME NEW p \in Peer PROVE PeerInv(p)'
  <2>1. PeerInv(p) /\ tcp_waiting[p] \in Session \cup {NoSession}
        /\ tcp_connected[p] \in Session \cup {NoSession}
    BY DEF MapsInv, MapsType
  <2>2. CASE tcp_waiting[p] = s
    <3>1. state[s] = "handshake" /\ LongIdle
      BY Zenon, <1>1, <2>2, Mapped
    <3> QED
      BY Zenon, <1>1, <1>3, <2>1, <2>2, <3>1 DEF PeerInv
  <2>3. CASE tcp_waiting[p] # s
    <3>1. UNCHANGED <<tcp_waiting, tcp_connected, state, peer, timer, loop>>
      BY Zenon, <1>1
    <3>2. tcp_waiting[p] # NoSession =>
            waitinglist'[tcp_waiting[p]] = waitinglist[tcp_waiting[p]]
      BY Zenon, <1>4, <2>1, <2>3
    <3> QED
      BY Zenon, <2>1, <3>1, <3>2 DEF PeerInv
  <2> QED
    BY <2>2, <2>3
<1>6. ASSUME NEW z \in Session PROVE SessionInv(z)'
  <2>1. SessionInv(z)
    BY DEF MapsInv
  <2>2. CASE z = s
    BY Zenon, <1>1, <1>3, <2>1, <2>2 DEF SessionInv
  <2>3. CASE z # s
    BY Zenon, <1>1, <1>4, <2>1, <2>3 DEF SessionInv
  <2> QED
    BY <2>2, <2>3
<1>7. LoopInv'
  BY Zenon, <1>1, <1>3, <1>4, LoopKept
<1> QED
  BY <1>2, <1>5, <1>6, <1>7 DEF MapsInv

\* A free session is nowhere.
LEMMA Unused ==
  ASSUME MapsInv, NEW s \in Session, state[s] \in {"free", "closing"}
  PROVE  /\ loop.session # s /\ s # NoSession /\ waitinglist[s] = <<>> /\ tasklist[s] = {}
         /\ timer[s] = "off"
         /\ \A x \in Peer : tcp_waiting[x] # s /\ tcp_connected[x] # s
<1>1. SessionInv(s) /\ timer[s] \in {"off", "on_tcp_connect_timeout", "tcp_timeout_trigger"}
  BY DEF MapsInv, MapsType
<1>2. loop.session # s
  BY Looped, UpstreamAssumption
<1> QED
  BY <1>1, <1>2, Mapped DEF SessionInv

LEMMA MissKeeps ==
  ASSUME MapsInv, NEW s \in Session, NEW p \in Peer, Misses(s, p)
  PROVE  MapsInv'
<1> USE UpstreamAssumption
<1>1. /\ UNCHANGED <<tcp_waiting, tcp_connected, waitinglist, tasklist, loop>>
      /\ state[s] = "free" /\ peer' = [peer EXCEPT ![s] = p]
      /\ state' = [state EXCEPT ![s] = "closing"]
      /\ timer' = [timer EXCEPT ![s] = "off"]
  BY DEF Misses, Close
<1>2. MapsType'
  BY Zenon, <1>1 DEF MapsInv, MapsType
<1>3. /\ loop.session # s /\ s # NoSession /\ waitinglist[s] = <<>> /\ tasklist[s] = {}
      /\ \A x \in Peer : tcp_waiting[x] # s /\ tcp_connected[x] # s
  BY <1>1, Unused
<1>4. ASSUME NEW z \in Session, z # s
      PROVE  /\ state'[z] = state[z] /\ timer'[z] = timer[z] /\ tasklist'[z] = tasklist[z]
             /\ waitinglist'[z] = waitinglist[z] /\ peer'[z] = peer[z]
  BY Zenon, <1>1, <1>4 DEF MapsInv, MapsType
<1>5. ASSUME NEW x \in Peer PROVE PeerInv(x)'
  <2>1. PeerInv(x) /\ tcp_waiting[x] \in Session \cup {NoSession}
        /\ tcp_connected[x] \in Session \cup {NoSession}
    BY DEF MapsInv, MapsType
  <2>2. UNCHANGED <<tcp_waiting, tcp_connected, waitinglist, loop>>
    BY Zenon, <1>1
  <2>3. tcp_waiting[x] # NoSession =>
          /\ peer'[tcp_waiting[x]] = peer[tcp_waiting[x]]
          /\ state'[tcp_waiting[x]] = state[tcp_waiting[x]]
          /\ timer'[tcp_waiting[x]] = timer[tcp_waiting[x]]
    BY Zenon, <1>3, <1>4, <2>1
  <2>4. tcp_connected[x] # NoSession =>
          /\ peer'[tcp_connected[x]] = peer[tcp_connected[x]]
          /\ state'[tcp_connected[x]] = state[tcp_connected[x]]
    BY Zenon, <1>3, <1>4, <2>1
  <2> QED
    BY Zenon, <2>1, <2>2, <2>3, <2>4 DEF PeerInv
<1>6. ASSUME NEW z \in Session PROVE SessionInv(z)'
  <2>1. SessionInv(z)
    BY DEF MapsInv
  <2>2. CASE z = s
    <3>1. state'[s] = "closing" /\ timer'[s] = "off"
      BY Zenon, <1>1 DEF MapsInv, MapsType
    <3> QED
      BY <1>1, <1>3, <2>2, <3>1 DEF SessionInv
  <2>3. CASE z # s
    BY Zenon, <1>1, <1>4, <2>1, <2>3 DEF SessionInv
  <2> QED
    BY <2>2, <2>3
<1>7. LoopInv'
  BY <1>1, <1>3, <1>4, LoopKept
<1> QED
  BY <1>2, <1>5, <1>6, <1>7 DEF MapsInv

LEMMA OpenKeeps ==
  ASSUME MapsInv, NEW s \in Session, NEW p \in Peer, NEW t \in Task, Opens(s, p, t)
  PROVE  MapsInv'
<1> USE UpstreamAssumption
<1>1. PICK q \in Seq(Task) :
        /\ UNCHANGED <<tcp_connected, tasklist, loop>>
        /\ state[s] = "free" /\ peer' = [peer EXCEPT ![s] = p]
        /\ tcp_waiting[p] = NoSession /\ tcp_connected[p] = NoSession
        /\ state' = [state EXCEPT ![s] = "connecting"]
        /\ timer' = [timer EXCEPT ![s] = "on_tcp_connect_timeout"]
        /\ tcp_waiting' = [tcp_waiting EXCEPT ![p] = s]
        /\ q # <<>> /\ waitinglist' = [waitinglist EXCEPT ![s] = q]
  BY Zenon, Few DEF Opens
<1>2. MapsType'
  BY <1>1 DEF MapsInv, MapsType
<1>3. /\ loop.session # s /\ s # NoSession /\ waitinglist[s] = <<>> /\ tasklist[s] = {}
      /\ \A x \in Peer : tcp_waiting[x] # s /\ tcp_connected[x] # s
  BY <1>1, Unused
<1>4. ASSUME NEW z \in Session, z # s
      PROVE  /\ state'[z] = state[z] /\ timer'[z] = timer[z] /\ tasklist'[z] = tasklist[z]
             /\ waitinglist'[z] = waitinglist[z] /\ peer'[z] = peer[z]
  BY <1>1, <1>4 DEF MapsInv, MapsType
<1>8. /\ peer'[s] = p /\ state'[s] = "connecting" /\ waitinglist'[s] # <<>>
      /\ timer'[s] = "on_tcp_connect_timeout" /\ tcp_waiting'[p] = s
      /\ \A x \in Peer : x # p => tcp_waiting'[x] = tcp_waiting[x]
  BY <1>1 DEF MapsInv, MapsType
<1>5. ASSUME NEW x \in Peer PROVE PeerInv(x)'
  <2>1. PeerInv(x) /\ tcp_waiting[x] \in Session \cup {NoSession}
        /\ tcp_connected[x] \in Session \cup {NoSession}
    BY Zenon DEF MapsInv, MapsType
  <2>2. CASE x = p
    BY Zenon, <1>1, <1>3, <1>8, <2>2 DEF PeerInv
  <2>3. CASE x # p
    BY <1>1, <1>3, <1>4, <1>8, <2>1, <2>3 DEF PeerInv
  <2> QED
    BY <2>2, <2>3
<1>6. ASSUME NEW z \in Session PROVE SessionInv(z)'
  <2>1. SessionInv(z)
    BY Zenon DEF MapsInv
  <2>2. CASE z = s
    BY Zenon, <1>1, <1>3, <1>8, <2>2 DEF SessionInv
  <2>3. CASE z # s
    <3>1. tcp_waiting[peer[z]] = z => tcp_waiting'[peer[z]] = z
      BY <1>1, <1>8, <2>3, Mapped
    <3> QED
      BY Zenon, <1>1, <1>4, <2>1, <2>3, <3>1 DEF SessionInv
  <2> QED
    BY <2>2, <2>3
<1>7. LoopInv'
  BY Zenon, <1>1, <1>3, <1>4, LoopKept
<1> QED
  BY <1>2, <1>5, <1>6, <1>7 DEF MapsInv

LEMMA EndKeeps ==
  ASSUME MapsInv, NEW s \in Session, Ends(s)
  PROVE  MapsInv'
<1> USE UpstreamAssumption
<1>1. /\ timer' = [timer EXCEPT ![s] = "off"]
      /\ tcp_waiting' = [tcp_waiting EXCEPT ![peer[s]] = NoSession]
      /\ tcp_connected' = [tcp_connected EXCEPT ![peer[s]] = NoSession]
      /\ loop' = [op |-> "end", session |-> s, timeout |-> FALSE]
      /\ UNCHANGED <<state, peer, waitinglist, tasklist>>
      /\ loop = NoLoop /\ state[s] \in {"handshake", "connected"}
  BY DEF Ends, EndTcp, Forget
<1>2. MapsType'
  BY <1>1 DEF MapsInv, MapsType
<1>3. /\ loop.session = NoSession /\ loop'.session = s
      /\ tcp_waiting[peer[s]] = s \/ tcp_connected[peer[s]] = s
      /\ peer[s] \in Peer /\ s # NoSession
  <2>1. loop.session = NoSession /\ loop'.session = s /\ s # NoSession
    BY <1>1 DEF NoLoop
  <2>2. SessionInv(s)
    BY Zenon DEF MapsInv
  <2> QED
    BY ZenonT(30), <1>1, <2>1, <2>2, Mapped DEF SessionInv
<1>4. /\ tcp_waiting'[peer[s]] = NoSession /\ tcp_connected'[peer[s]] = NoSession
      /\ \A p \in Peer : p # peer[s] =>
           tcp_waiting'[p] = tcp_waiting[p] /\ tcp_connected'[p] = tcp_connected[p]
      /\ timer'[s] = "off" /\ \A z \in Session : z # s => timer'[z] = timer[z]
  BY Zenon, <1>1, <1>3 DEF MapsInv, MapsType
<1>5. ASSUME NEW p \in Peer PROVE PeerInv(p)'
  <2>1. PeerInv(p) /\ tcp_waiting[p] \in Session \cup {NoSession}
        /\ tcp_connected[p] \in Session \cup {NoSession}
    BY DEF MapsInv, MapsType
  <2>2. CASE p = peer[s]
    BY Zenon, <1>4, <2>2 DEF PeerInv
  <2>3. CASE p # peer[s]
    <3>1. tcp_waiting[p] # s /\ tcp_connected[p] # s
      BY <2>3, Mapped
    <3> QED
      BY Zenon, <1>1, <1>3, <1>4, <2>1, <2>3, <3>1 DEF PeerInv
  <2> QED
    BY <2>2, <2>3
<1>6. ASSUME NEW z \in Session PROVE SessionInv(z)'
  <2>1. SessionInv(z)
    BY DEF MapsInv
  <2>2. CASE z = s
    BY ZenonT(30), <1>1, <1>3, <1>4, <2>1, <2>2 DEF SessionInv
  <2>3. CASE z # s
    <3>1. /\ tcp_waiting[peer[z]] = z => tcp_waiting'[peer[z]] = z
          /\ tcp_connected[peer[z]] = z => tcp_connected'[peer[z]] = z
      <4>1. CASE peer[z] # peer[s]
        BY <1>4, <4>1, Mapped
      <4>2. CASE peer[z] = peer[s]
        BY SMTT(30), <1>3, <2>3, <4>2, Mapped
      <4> QED
        BY <4>1, <4>2
    <3> QED
      BY ZenonT(30), <1>1, <1>3, <1>4, <2>1, <2>3, <3>1 DEF SessionInv
  <2> QED
    BY <2>2, <2>3
<1>7. LoopInv'
  <2>1. loop' \in [op : {"end"}, session : Session, timeout : {FALSE}]
    BY <1>1
  <2> QED
    BY Zenon, <1>1, <1>3, <2>1 DEF LoopInv
<1> QED
  BY <1>2, <1>5, <1>6, <1>7 DEF MapsInv

LEMMA RetryKeeps ==
  ASSUME MapsInv, NEW s \in Session, NEW b \in BOOLEAN, Retries(s, b)
  PROVE  MapsInv'
<1> USE UpstreamAssumption
<1>1. /\ timer' = IF b THEN [timer EXCEPT ![s] = "off"] ELSE timer
      /\ tcp_waiting' = IF tcp_waiting[peer[s]] = s
                          THEN [tcp_waiting EXCEPT ![peer[s]] = NoSession] ELSE tcp_waiting
      /\ loop' = [op |-> "retry", session |-> s, timeout |-> b]
      /\ UNCHANGED <<tcp_connected, state, peer, waitinglist, tasklist>>
      /\ loop = NoLoop /\ state[s] = "connecting"
  BY DEF Retries, Retry, Forget
<1>2. MapsType'
  BY Zenon, <1>1 DEF MapsInv, MapsType
<1>3. /\ loop.session = NoSession /\ loop'.session = s /\ loop'.timeout = b
      /\ peer[s] \in Peer /\ s # NoSession
  <2>1. loop.session = NoSession /\ loop'.session = s /\ s # NoSession /\ loop'.timeout = b
    BY <1>1 DEF NoLoop
  <2> QED
    BY <2>1, Mapped
<1>4. /\ tcp_waiting'[peer[s]] # s
      /\ \A p \in Peer : tcp_waiting'[p] = tcp_waiting[p]
                         \/ (tcp_waiting[p] = s /\ tcp_waiting'[p] = NoSession)
      /\ b => timer'[s] = "off"
      /\ timer'[s] \in {"off", timer[s]}
      /\ \A z \in Session : z # s => timer'[z] = timer[z]
  <2>1. /\ tcp_waiting'[peer[s]] # s
        /\ \A p \in Peer : tcp_waiting'[p] = tcp_waiting[p]
                           \/ (tcp_waiting[p] = s /\ tcp_waiting'[p] = NoSession)
    BY <1>1, <1>3 DEF MapsInv, MapsType
  <2>2. /\ b => timer'[s] = "off"
        /\ timer'[s] \in {"off", timer[s]}
        /\ \A z \in Session : z # s => timer'[z] = timer[z]
    BY <1>1 DEF MapsInv, MapsType
  <2> QED
    BY Zenon, <2>1, <2>2
<1>5. ASSUME NEW p \in Peer PROVE PeerInv(p)'
  <2>1. PeerInv(p) /\ tcp_waiting[p] \in Session \cup {NoSession}
        /\ tcp_connected[p] \in Session \cup {NoSession}
    BY Zenon DEF MapsInv, MapsType
  <2>2. tcp_waiting'[p] # s /\ tcp_connected[p] # s
    <3>1. tcp_connected[p] # s
      BY <1>1, Mapped
    <3>2. p # peer[s] => tcp_waiting[p] # s
      BY Mapped
    <3> QED
      BY Zenon, <1>3, <1>4, <3>1, <3>2
  <2>3. tcp_waiting'[p] \in {tcp_waiting[p], NoSession}
    BY <1>4
  <2>4. tcp_waiting'[p] # NoSession =>
          /\ tcp_waiting'[p] = tcp_waiting[p] /\ tcp_waiting[p] \in Session
          /\ timer'[tcp_waiting[p]] = timer[tcp_waiting[p]]
    BY <1>4, <2>1, <2>2, <2>3
  <2> QED
    BY Zenon, <1>1, <1>3, <2>1, <2>2, <2>3, <2>4 DEF PeerInv
<1>6. ASSUME NEW z \in Session PROVE SessionInv(z)'
  <2>1. SessionInv(z)
    BY Zenon DEF MapsInv
  <2>2. CASE z = s
    BY Zenon, <1>1, <1>3, <1>4, <2>1, <2>2 DEF SessionInv
  <2>3. CASE z # s
    <3>1. tcp_waiting[peer[z]] = z => tcp_waiting'[peer[z]] = z
      BY <1>4, <2>3, Mapped
    <3> QED
      BY Zenon, <1>1, <1>3, <1>4, <2>1, <2>3, <3>1 DEF SessionInv
  <2> QED
    BY <2>2, <2>3
<1>7. LoopInv'
  <2>1. loop' \in [op : {"retry"}, session : Session, timeout : BOOLEAN]
    BY Zenon, <1>1
  <2> QED
    BY Zenon, <1>1, <1>3, <1>4, <2>1 DEF LoopInv
<1> QED
  BY Zenon, <1>2, <1>5, <1>6, <1>7 DEF MapsInv

LEMMA PopKeeps ==
  ASSUME MapsInv, NEW s \in Session, Pops(s)
  PROVE  MapsInv'
<1> USE UpstreamAssumption
<1>1. PICK q \in Seq(Task) :
        /\ waitinglist' = [waitinglist EXCEPT ![s] = q]
        /\ UNCHANGED <<tcp_waiting, tcp_connected, state, peer, tasklist, timer, loop>>
        /\ waitinglist[s] # <<>> /\ loop.session = s
  <2>1. waitinglist[s] \in Seq(Task)
    BY Zenon DEF MapsInv, MapsType
  <2> QED
    BY Zenon, <2>1, Popped DEF Pops
<1>2. MapsType'
  BY Zenon, <1>1 DEF MapsInv, MapsType
<1>3. \A z \in Session : z # s => waitinglist'[z] = waitinglist[z]
  BY Zenon, <1>1 DEF MapsInv, MapsType
<1>4. LoopInv'
  BY Zenon, <1>1, LoopKept
<1>5. ASSUME NEW p \in Peer PROVE PeerInv(p)'
  <2>1. PeerInv(p) /\ tcp_waiting[p] \in Session \cup {NoSession}
        /\ tcp_connected[p] \in Session \cup {NoSession}
    BY DEF MapsInv, MapsType
  <2>2. tcp_waiting[p] # s
    BY Zenon, <1>1, Mapped
  <2> QED
    BY <1>1, <1>3, <2>1, <2>2 DEF PeerInv
<1>6. ASSUME NEW z \in Session PROVE SessionInv(z)'
  <2>1. SessionInv(z)
    BY Zenon DEF MapsInv
  <2> QED
    BY <1>1, <1>3, <2>1 DEF SessionInv
<1> QED
  BY <1>2, <1>4, <1>5, <1>6 DEF MapsInv

LEMMA LoopEndKeeps ==
  ASSUME MapsInv, NEW s \in Session, LoopEnds(s)
  PROVE  MapsInv'
<1> USE UpstreamAssumption
<1>1. /\ loop # NoLoop /\ loop.session = s
      /\ waitinglist[s] = <<>> /\ (loop.op = "end" => tasklist[s] = {})
      /\ IF loop.timeout THEN UNCHANGED <<state, timer>>
                         ELSE /\ state' = [state EXCEPT ![s] = "closing"]
                              /\ timer' = [timer EXCEPT ![s] = "off"]
      /\ loop' = NoLoop /\ loop'.session = NoSession
      /\ UNCHANGED <<tcp_waiting, tcp_connected, peer, waitinglist, tasklist>>
  BY DEF LoopEnds, Close, NoLoop
<1>2. MapsType'
  BY ZenonT(30), <1>1 DEF MapsInv, MapsType
<1>3. /\ s # NoSession
      /\ \A x \in Peer : tcp_waiting[x] # s /\ tcp_connected[x] # s
  BY <1>1, Mapped
<1>4. /\ loop.timeout => state[s] = "connecting" /\ timer[s] = "off"
      /\ tasklist[s] = {}
  <2>1. CASE loop \in [op : {"retry"}, session : Session, timeout : BOOLEAN]
    <3>1. state[s] = "connecting" /\ (loop.timeout => timer[s] = "off")
      <4>1. loop.op = "retry"
        BY Zenon, <2>1
      <4> QED
        BY Zenon, <1>1, <4>1 DEF MapsInv, LoopInv
    <3>2. SessionInv(s)
      BY DEF MapsInv
    <3> QED
      BY <3>1, <3>2 DEF SessionInv
  <2>2. CASE loop \in [op : {"end"}, session : Session, timeout : {FALSE}]
    <3>1. loop.op = "end" /\ loop.timeout = FALSE
      BY Zenon, <2>2
    <3> QED
      BY <1>1, <3>1
  <2> QED
    BY Zenon, <1>1, <2>1, <2>2 DEF MapsInv, LoopInv
<1>5. /\ \A z \in Session : z # s => state'[z] = state[z] /\ timer'[z] = timer[z]
      /\ timer'[s] = "off"
      /\ state'[s] = "closing" \/ (state'[s] = "connecting" /\ state[s] = "connecting")
  BY <1>1, <1>4 DEF MapsInv, MapsType
<1>6. ASSUME NEW p \in Peer PROVE PeerInv(p)'
  <2>1. PeerInv(p) /\ tcp_waiting[p] \in Session \cup {NoSession}
        /\ tcp_connected[p] \in Session \cup {NoSession}
    BY DEF MapsInv, MapsType
  <2> QED
    BY ZenonT(30), <1>1, <1>3, <1>5, <2>1 DEF PeerInv
<1>7. ASSUME NEW z \in Session PROVE SessionInv(z)'
  <2>1. SessionInv(z)
    BY DEF MapsInv
  <2>2. CASE z = s
    BY <1>1, <1>3, <1>4, <1>5, <2>1, <2>2 DEF SessionInv
  <2>3. CASE z # s
    BY Zenon, <1>1, <1>5, <2>1, <2>3 DEF SessionInv
  <2> QED
    BY <2>2, <2>3
<1>8. LoopInv'
  BY <1>1 DEF LoopInv
<1> QED
  BY <1>2, <1>6, <1>7, <1>8 DEF MapsInv

LEMMA FreeKeeps ==
  ASSUME MapsInv, NEW s \in Session, Frees(s)
  PROVE  MapsInv'
<1> USE UpstreamAssumption
<1>1. /\ state[s] = "closing" /\ state' = [state EXCEPT ![s] = "free"]
      /\ UNCHANGED <<tcp_waiting, tcp_connected, peer, waitinglist, tasklist, timer, loop>>
  BY DEF Frees
<1>2. MapsType'
  BY Zenon, <1>1 DEF MapsInv, MapsType
<1>3. /\ loop.session # s /\ waitinglist[s] = <<>> /\ tasklist[s] = {} /\ timer[s] = "off"
      /\ \A x \in Peer : tcp_waiting[x] # s /\ tcp_connected[x] # s
  BY <1>1, Unused
<1>4. state'[s] = "free" /\ \A z \in Session : z # s => state'[z] = state[z]
  BY <1>1 DEF MapsInv, MapsType
<1>5. ASSUME NEW p \in Peer PROVE PeerInv(p)'
  <2>1. PeerInv(p) /\ tcp_waiting[p] \in Session \cup {NoSession}
        /\ tcp_connected[p] \in Session \cup {NoSession}
    BY DEF MapsInv, MapsType
  <2> QED
    BY ZenonT(30), <1>1, <1>3, <1>4, <2>1 DEF PeerInv
<1>6. ASSUME NEW z \in Session PROVE SessionInv(z)'
  <2>1. SessionInv(z)
    BY DEF MapsInv
  <2>2. CASE z = s
    BY Zenon, <1>1, <1>3, <1>4, <2>2 DEF SessionInv
  <2>3. CASE z # s
    BY Zenon, <1>1, <1>4, <2>1, <2>3 DEF SessionInv
  <2> QED
    BY <2>2, <2>3
<1>7. LoopInv'
  BY <1>1, <1>3, <1>4, LoopKept
<1> QED
  BY <1>2, <1>5, <1>6, <1>7 DEF MapsInv

\* What a shape does to the maps keeps their invariant.
LEMMA ShapeKeeps ==
  ASSUME MapsInv, NEW s \in Session, Shape(s)
  PROVE  MapsInv'
BY Zenon, PushKeeps, ListKeeps, DropKeeps, SendKeeps, ShakeKeeps, EmptyKeeps, MissKeeps,
   OpenKeeps, EndKeeps, RetryKeeps, PopKeeps, LoopEndKeeps, FreeKeeps DEF Shape

LEMMA SameKeeps ==
  ASSUME MapsInv, UNCHANGED maps
  PROVE  MapsInv'
<1>1. UNCHANGED <<tcp_waiting, tcp_connected, state, peer, waitinglist, tasklist, timer, loop>>
  BY Zenon DEF maps
<1>2. MapsType' /\ LoopInv'
  BY Zenon, <1>1 DEF MapsInv, MapsType, LoopInv
<1>3. ASSUME NEW p \in Peer PROVE PeerInv(p)'
  <2>1. PeerInv(p)
    BY Zenon DEF MapsInv
  <2> QED
    BY Zenon, <1>1, <2>1 DEF PeerInv
<1>4. ASSUME NEW s \in Session PROVE SessionInv(s)'
  <2>1. SessionInv(s)
    BY Zenon DEF MapsInv
  <2> QED
    BY Zenon, <1>1, <2>1 DEF SessionInv
<1> QED
  BY Zenon, <1>2, <1>3, <1>4 DEF MapsInv

-----------------------------------------------------------------------------
(* Every step has a shape                                                  *)

\* Between callbacks a session in use is in a map.
LEMMA Used ==
  ASSUME MapsInv, NEW s \in Session, loop = NoLoop
  PROVE  /\ loop.session = NoSession /\ s # NoSession /\ loop.session # s
         /\ state[s] = "handshake" =>
              tcp_waiting[peer[s]] = s /\ tcp_connected[peer[s]] = NoSession
         /\ state[s] = "connected" =>
              /\ tcp_connected[peer[s]] = s /\ tcp_waiting[peer[s]] = NoSession
              /\ waitinglist[s] = <<>>
         /\ state[s] # "connected" => tasklist[s] = {}
         /\ timer[s] = "tcp_timeout_trigger" => state[s] \in {"handshake", "connected"}
         /\ timer[s] = "on_tcp_connect_timeout" =>
              state[s] = "connecting" /\ tcp_waiting[peer[s]] = s /\ waitinglist[s] # <<>>
<1>1. SessionInv(s)
  BY DEF MapsInv
<1>2. loop.session = NoSession /\ s # NoSession
  BY UpstreamAssumption DEF NoLoop
<1>3. peer[s] \in Peer /\ PeerInv(peer[s])
  BY DEF MapsInv, MapsType
<1>4. timer[s] = "on_tcp_connect_timeout" =>
        state[s] = "connecting" /\ tcp_waiting[peer[s]] = s
  BY <1>1, <1>2 DEF SessionInv
<1> QED
  BY <1>1, <1>2, <1>3, <1>4, Mapped DEF SessionInv, PeerInv

LEMMA StepShape ==
  ASSUME MapsInv, now \in Task \cup {NoTask}, Step
  PROVE  (\E s \in Session : Shape(s)) \/ UNCHANGED maps
<1> USE UpstreamAssumption
<1>1. now \in Task /\ loop' = loop
  BY DEF Step
<1>2. ASSUME UNCHANGED sessions PROVE UNCHANGED maps
  BY <1>1, <1>2 DEF sessions, maps
<1>3. ASSUME NEW p \in Peer, StepWaiting(p)
      PROVE  (\E s \in Session : Shape(s)) \/ UNCHANGED maps
  <2>1. PeerInv(p) /\ tcp_waiting[p] \in Session
    BY <1>3 DEF MapsInv, MapsType, StepWaiting
  <2>2. PICK s \in Session : s = tcp_waiting[p]
    BY Zenon, <2>1
  <2>3. CASE UNCHANGED waitinglist
    BY <1>1, <1>3, <2>3 DEF StepWaiting, maps
  <2>4. CASE waitinglist' = [waitinglist EXCEPT ![s] = Append(@, now)]
    <3>1. /\ waitinglist[s] # <<>> \/ state[s] = "handshake"
          /\ loop.session # s /\ state[s] \in {"connecting", "handshake"}
      BY Zenon, <2>1, <2>2 DEF PeerInv
    <3>2. UNCHANGED <<tcp_waiting, tcp_connected, state, peer, tasklist, timer, loop>>
      BY <1>1, <1>3 DEF StepWaiting
    <3>3. Pushes(s, now)
      BY Zenon, <2>4, <3>1, <3>2 DEF Pushes
    <3> QED
      BY Zenon, <1>1, <3>3 DEF Shape
  <2> QED
    BY Zenon, <1>3, <2>2, <2>3, <2>4 DEF StepWaiting
<1>4. ASSUME NEW p \in Peer, StepExisting(p)
      PROVE  (\E s \in Session : Shape(s)) \/ UNCHANGED maps
  <2>1. PeerInv(p) /\ tcp_connected[p] \in Session
    BY <1>4 DEF MapsInv, MapsType, StepExisting
  <2>2. PICK s \in Session : s = tcp_connected[p]
    BY <2>1
  <2>3. /\ peer[s] = p /\ state[s] = "connected" /\ s # NoSession
        /\ waitinglist[s] = <<>> /\ tcp_waiting[p] = NoSession
    <3>1. SessionInv(s)
      BY Zenon DEF MapsInv
    <3> QED
      BY Zenon, <1>4, <2>1, <2>2, <3>1 DEF PeerInv, SessionInv, StepExisting
  <2>4. UNCHANGED <<tcp_waiting, peer, waitinglist, loop>>
    BY <1>1, <1>4 DEF StepExisting
  <2>5. CASE UNCHANGED <<tcp_connected, state, tasklist, timer, writes>>
    BY <2>4, <2>5 DEF maps
  <2>6. CASE /\ tasklist' = [tasklist EXCEPT ![s] = @ \cup {now}]
             /\ UNCHANGED <<tcp_connected, state, timer>>
    <3>1. tasklist[s] \cup {now} \in SUBSET Task
      BY Zenon, <1>1 DEF MapsInv, MapsType
    <3>2. Lists(s, tasklist[s] \cup {now})
      BY <2>3, <2>4, <2>6 DEF Lists
    <3> QED
      BY Zenon, <3>1, <3>2 DEF Shape
  <2>7. CASE /\ tasklist' = [tasklist EXCEPT ![s] = {}]
             /\ tcp_connected' = Forget(tcp_connected, p)
             /\ Close(s)
    <3>1. tcp_waiting' = Forget(tcp_waiting, p)
      BY <2>3, <2>4 DEF MapsInv, MapsType, Forget
    <3>2. waitinglist' = [waitinglist EXCEPT ![s] = <<>>]
      BY <2>3, <2>4 DEF MapsInv, MapsType
    <3>3. Drops(s)
      BY Zenon, <2>2, <2>3, <2>4, <2>7, <3>1, <3>2 DEF Drops, InMap
    <3> QED
      BY Zenon, <3>3 DEF Shape
  <2> QED
    BY Zenon, <1>4, <2>2, <2>5, <2>6, <2>7 DEF StepExisting
<1>5. ASSUME NEW p \in Peer, StepConnect(p)
      PROVE  (\E s \in Session : Shape(s)) \/ UNCHANGED maps
  <2>1. CASE UNCHANGED sessions
    BY Zenon, <1>2, <2>1
  <2>2. ASSUME NEW s \in Session, state[s] = "free",
               peer' = [peer EXCEPT ![s] = p], UNCHANGED <<tcp_connected, tasklist>>,
               \/ /\ state' = [state EXCEPT ![s] = "connecting"]
                  /\ timer' = [timer EXCEPT ![s] = "on_tcp_connect_timeout"]
                  /\ tcp_waiting' = [tcp_waiting EXCEPT ![p] = s]
                  /\ waitinglist' = [waitinglist EXCEPT ![s] = <<now>>]
               \/ Close(s) /\ UNCHANGED <<tcp_waiting, waitinglist>>
        PROVE  Shape(s)
    <3>1. tcp_waiting[p] = NoSession /\ tcp_connected[p] = NoSession
      BY Zenon, <1>5 DEF StepConnect
    <3>2. UNCHANGED loop /\ tcp_connected' = tcp_connected /\ tasklist' = tasklist
      BY <1>1, <2>2
    <3>3. CASE /\ state' = [state EXCEPT ![s] = "connecting"]
               /\ timer' = [timer EXCEPT ![s] = "on_tcp_connect_timeout"]
               /\ tcp_waiting' = [tcp_waiting EXCEPT ![p] = s]
               /\ waitinglist' = [waitinglist EXCEPT ![s] = <<now>>]
      <4>1. Opens(s, p, now)
        BY Zenon, <2>2, <3>1, <3>2, <3>3 DEF Opens
      <4> QED
        BY Zenon, <1>1, <4>1 DEF Shape
    <3>4. CASE Close(s) /\ UNCHANGED <<tcp_waiting, waitinglist>>
      <4>1. Misses(s, p)
        BY Zenon, <2>2, <3>2, <3>4 DEF Misses
      <4> QED
        BY Zenon, <4>1 DEF Shape
    <3> QED
      BY Zenon, <2>2, <3>3, <3>4
  <2>3. CASE \E s \in Session :
          /\ state[s] = "free" /\ peer' = [peer EXCEPT ![s] = p]
          /\ UNCHANGED <<tcp_connected, tasklist>>
          /\ \/ /\ state' = [state EXCEPT ![s] = "connecting"]
                /\ timer' = [timer EXCEPT ![s] = "on_tcp_connect_timeout"]
                /\ tcp_waiting' = [tcp_waiting EXCEPT ![p] = s]
                /\ waitinglist' = [waitinglist EXCEPT ![s] = <<now>>]
             \/ Close(s) /\ UNCHANGED <<tcp_waiting, waitinglist>>
    BY Zenon, <2>2, <2>3
  <2> QED
    BY Zenon, <1>5, <2>1, <2>3 DEF StepConnect
<1> QED
  BY Zenon, <1>2, <1>3, <1>4, <1>5 DEF Step, StepFinal, StepUdp

LEMMA LoopTurnShape ==
  ASSUME MapsInv, LoopTurn
  PROVE  (\E s \in Session : Shape(s)) \/ UNCHANGED maps
<1>1. loop.session \in Session /\ loop # NoLoop
  BY Zenon, Looped DEF LoopTurn
<1>2. PICK s \in Session : s = loop.session
  BY Zenon, <1>1
<1>3. UNCHANGED <<tcp_waiting, tcp_connected, peer>>
  BY DEF LoopTurn
<1>4. CASE waitinglist[s] # <<>> /\ UNCHANGED <<tasklist, state, timer, loop>>
           /\ waitinglist' = [waitinglist EXCEPT ![s] = Tail(@)]
  <2>1. Pops(s)
    BY Zenon, <1>2, <1>3, <1>4 DEF Pops
  <2> QED
    BY Zenon, <2>1 DEF Shape
<1>5. CASE UNCHANGED <<tasklist, state, timer, loop, waitinglist>>
  BY <1>3, <1>5 DEF maps
<1>6. CASE /\ \E t \in tasklist[s] : tasklist' = [tasklist EXCEPT ![s] = @ \ {t}]
           /\ UNCHANGED <<waitinglist, state, timer, loop>>
  <2>1. PICK t \in tasklist[s] : tasklist' = [tasklist EXCEPT ![s] = @ \ {t}]
    BY Zenon, <1>6
  <2>2. tasklist[s] \ {t} \in SUBSET Task
    BY Zenon DEF MapsInv, MapsType
  <2>3. SessionInv(s)
    BY DEF MapsInv
  <2>4. Lists(s, tasklist[s] \ {t})
    BY Zenon, <1>3, <1>6, <2>1, <2>3 DEF Lists, SessionInv
  <2> QED
    BY Zenon, <2>2, <2>4 DEF Shape
<1>7. CASE /\ waitinglist[s] = <<>> /\ (loop.op = "end" => tasklist[s] = {})
           /\ IF loop.timeout THEN UNCHANGED <<state, timer>> ELSE Close(s)
           /\ loop' = NoLoop
           /\ UNCHANGED <<waitinglist, tasklist>>
  <2>1. LoopEnds(s)
    BY Zenon, <1>1, <1>2, <1>3, <1>7 DEF LoopEnds
  <2> QED
    BY Zenon, <2>1 DEF Shape
<1> QED
  BY <1>2, <1>4, <1>5, <1>6, <1>7 DEF LoopTurn

LEMMA TimerShape ==
  ASSUME MapsInv, NEW s \in Session,
         OnTcpConnectTimeout(s) \/ TcpTimeoutTrigger(s) \/ OnSessionClose(s)
  PROVE  Shape(s)
<1>1. CASE OnTcpConnectTimeout(s)
  <2>1. /\ loop = NoLoop /\ timer[s] = "on_tcp_connect_timeout"
        /\ timer' = [timer EXCEPT ![s] = "off"]
        /\ tcp_waiting' = Forget(tcp_waiting, peer[s])
        /\ IF waitinglist[s] = <<>> THEN UNCHANGED loop ELSE Retry(s, TRUE)
        /\ UNCHANGED <<tcp_connected, state, peer, waitinglist, tasklist>>
    BY Zenon, <1>1 DEF OnTcpConnectTimeout, Idle
  <2>2. state[s] = "connecting" /\ tcp_waiting[peer[s]] = s /\ waitinglist[s] # <<>>
    BY Zenon, <2>1, Used
  <2>3. Retries(s, TRUE)
    BY Zenon, <2>1, <2>2 DEF Retries
  <2> QED
    BY Zenon, <2>3 DEF Shape
<1>2. CASE TcpTimeoutTrigger(s)
  <2> DEFINE left == tasklist[s] \ Expired(s)
  <2>1. /\ loop = NoLoop /\ timer[s] = "tcp_timeout_trigger"
        /\ tasklist' = [tasklist EXCEPT ![s] = left] /\ UNCHANGED <<peer, loop>>
        /\ \/ /\ left # {}
              /\ UNCHANGED <<waitinglist, state, timer, tcp_waiting, tcp_connected>>
           \/ /\ left = {} /\ waitinglist' = [waitinglist EXCEPT ![s] = <<>>]
              /\ \/ /\ state[s] = "connected" \/ LongIdle
                    /\ UNCHANGED <<state, timer, tcp_waiting, tcp_connected>>
                 \/ /\ tcp_waiting' = Forget(tcp_waiting, peer[s])
                    /\ tcp_connected' = Forget(tcp_connected, peer[s])
                    /\ Close(s)
    BY Zenon, <1>2 DEF TcpTimeoutTrigger, Idle
  <2>2. state[s] \in {"handshake", "connected"} /\ InMap(s)
        /\ (state[s] # "connected" => tasklist[s] = {})
    BY Zenon, <2>1, Used DEF InMap
  <2>3. left \in SUBSET Task /\ left \subseteq tasklist[s]
    BY DEF MapsInv, MapsType
  <2> HIDE DEF left
  <2>4. CASE left # {} /\ UNCHANGED <<waitinglist, state, timer, tcp_waiting, tcp_connected>>
    <3>1. Lists(s, left)
      BY <2>1, <2>2, <2>3, <2>4 DEF Lists
    <3> QED
      BY ZenonT(30), <2>3, <3>1 DEF Shape
  <2>5. CASE /\ left = {} /\ waitinglist' = [waitinglist EXCEPT ![s] = <<>>]
             /\ state[s] = "connected" \/ LongIdle
             /\ UNCHANGED <<state, timer, tcp_waiting, tcp_connected>>
    <3>1. Empties(s)
      BY <2>1, <2>2, <2>5 DEF Empties
    <3> QED
      BY ZenonT(30), <3>1 DEF Shape
  <2>6. CASE /\ left = {} /\ waitinglist' = [waitinglist EXCEPT ![s] = <<>>]
             /\ tcp_waiting' = Forget(tcp_waiting, peer[s])
             /\ tcp_connected' = Forget(tcp_connected, peer[s])
             /\ Close(s)
    <3>1. Drops(s)
      BY <2>1, <2>2, <2>6 DEF Drops
    <3> QED
      BY ZenonT(30), <3>1 DEF Shape
  <2> QED
    BY Zenon, <2>1, <2>4, <2>5, <2>6
<1>3. CASE OnSessionClose(s)
  <2>1. Frees(s)
    BY Zenon, <1>3 DEF OnSessionClose, Frees
  <2> QED
    BY Zenon, <2>1 DEF Shape
<1> QED
  BY Zenon, <1>1, <1>2, <1>3

LEMMA ConnectShape ==
  ASSUME MapsInv, NEW s \in Session, OnConnect(s) \/ OnConnectError(s)
  PROVE  Shape(s)
<1>1. loop = NoLoop /\ state[s] = "connecting"
  BY Zenon DEF OnConnect, OnConnectError, Idle
<1>2. Awaited(s) <=> tcp_waiting[peer[s]] = s
  <2>1. peer[s] \in Peer
    BY DEF MapsInv, MapsType
  <2> QED
    BY <2>1, Mapped DEF Awaited
<1>3. CASE Retry(s, FALSE)
  <2>1. /\ tcp_waiting' = IF Awaited(s) THEN Forget(tcp_waiting, peer[s]) ELSE tcp_waiting
        /\ UNCHANGED <<tcp_connected, state, peer, waitinglist, tasklist, timer>>
    <3>1. CASE OnConnectError(s)
      BY Zenon, <3>1 DEF OnConnectError
    <3>2. CASE OnConnect(s)
      <4>1. UNCHANGED loop => FALSE
        BY <1>1, <1>3 DEF Retry, NoLoop
      <4> QED
        BY Zenon, <3>2, <4>1 DEF OnConnect, sessions
    <3> QED
      BY <3>1, <3>2
  <2>2. Retries(s, FALSE)
    BY Zenon, <1>1, <1>2, <1>3, <2>1 DEF Retries
  <2> QED
    BY Zenon, <2>2 DEF Shape
<1>4. CASE /\ Awaited(s) /\ UNCHANGED <<peer, loop>>
           /\ tcp_waiting' = Forget(tcp_waiting, peer[s]) /\ SendWaiting(s)
  <2>1. InMap(s)
    BY <1>2, <1>4 DEF InMap
  <2>2. CASE AllSent(s)
    <3>1. Sends(s)
      BY Zenon, <1>4, <2>1, <2>2 DEF Sends
    <3> QED
      BY Zenon, <3>1 DEF Shape
  <2>3. CASE /\ tasklist' = [tasklist EXCEPT ![s] = {}]
             /\ waitinglist' = [waitinglist EXCEPT ![s] = <<>>]
             /\ tcp_connected' = Forget(tcp_connected, peer[s])
             /\ Close(s)
    <3>1. Drops(s)
      BY Zenon, <1>4, <2>1, <2>3 DEF Drops
    <3> QED
      BY Zenon, <3>1 DEF Shape
  <2> QED
    BY Zenon, <1>4, <2>2, <2>3 DEF SendWaiting
<1>5. CASE /\ Awaited(s)
           /\ state' = [state EXCEPT ![s] = "handshake"]
           /\ timer' = [timer EXCEPT ![s] = "tcp_timeout_trigger"]
           /\ UNCHANGED <<tcp_waiting, tcp_connected, peer, waitinglist, tasklist, loop>>
  <2>1. Shakes(s)
    BY Zenon, <1>1, <1>2, <1>5 DEF Shakes
  <2> QED
    BY Zenon, <2>1 DEF Shape
<1> QED
  BY Zenon, <1>3, <1>4, <1>5 DEF OnConnect, OnConnectError

LEMMA HandshakeShape ==
  ASSUME MapsInv, NEW s \in Session,
         HandshakeDone(s) \/ HandshakeFailed(s) \/ TcpRecvEnd(s)
  PROVE  Shape(s) \/ UNCHANGED maps
<1>1. loop = NoLoop /\ state[s] \in {"handshake", "connected"}
  BY Zenon DEF HandshakeDone, HandshakeFailed, TcpRecvEnd, Idle
<1>2. InMap(s) /\ tcp_connected[peer[s]] = IF tcp_waiting[peer[s]] # NoSession THEN NoSession ELSE s
  <2>1. /\ s # NoSession
        /\ \/ tcp_waiting[peer[s]] = s /\ tcp_connected[peer[s]] = NoSession
           \/ tcp_connected[peer[s]] = s /\ tcp_waiting[peer[s]] = NoSession
    <3>1. state[s] = "handshake" \/ state[s] = "connected"
      BY <1>1
    <3> QED
      BY Zenon, <1>1, <3>1, Used
  <2> QED
    BY <2>1 DEF InMap
<1>3. CASE EndTcp(s)
  <2>1. Ends(s)
    BY Zenon, <1>1, <1>3 DEF Ends
  <2> QED
    BY Zenon, <2>1 DEF Shape
<1>4. CASE UNCHANGED <<sessions, loop>>
  BY <1>4 DEF sessions, maps
<1>5. CASE HandshakeDone(s)
  <2>1. UNCHANGED <<peer, loop, writes>>
    BY Zenon, <1>5 DEF HandshakeDone
  <2>2. CASE tcp_waiting' = Forget(tcp_waiting, peer[s]) /\ AllSent(s)
    <3>1. Sends(s)
      BY Zenon, <1>2, <2>1, <2>2 DEF Sends
    <3> QED
      BY Zenon, <3>1 DEF Shape
  <2>3. CASE /\ waitinglist[s] # <<>> /\ UNCHANGED tasklist
             /\ tcp_waiting' = Forget(tcp_waiting, peer[s])
             /\ tcp_connected' = Forget(tcp_connected, peer[s])
             /\ waitinglist' = [waitinglist EXCEPT ![s] = <<>>]
             /\ Close(s)
    <3>1. tasklist[s] = {}
      BY Zenon, <1>1, <2>3, Used
    <3>2. tasklist' = [tasklist EXCEPT ![s] = {}]
      BY <2>3, <3>1 DEF MapsInv, MapsType
    <3>3. Drops(s)
      BY Zenon, <1>2, <2>1, <2>3, <3>2 DEF Drops
    <3> QED
      BY Zenon, <3>3 DEF Shape
  <2>4. CASE UNCHANGED <<tcp_waiting, tcp_connected, state, waitinglist, tasklist, timer>>
    BY <2>1, <2>4 DEF maps
  <2> QED
    BY Zenon, <1>2, <1>5, <2>2, <2>3, <2>4 DEF HandshakeDone
<1> QED
  BY Zenon, <1>3, <1>4, <1>5 DEF HandshakeFailed, TcpRecvEnd

LEMMA TaskShape ==
  ASSUME MapsInv, NEW s \in Session, NEW t \in Task,
         Reply(s, t) \/ \E ok \in BOOLEAN : OnWrite(s, t, ok)
  PROVE  Shape(s) \/ UNCHANGED maps
<1>1. UNCHANGED <<tcp_waiting, tcp_connected, state, peer, waitinglist, timer, loop>>
  BY DEF Reply, OnWrite
<1>2. CASE UNCHANGED tasklist
  BY <1>1, <1>2 DEF maps
<1>3. CASE tasklist' = [tasklist EXCEPT ![s] = @ \ {t}]
  <2>1. tasklist[s] \ {t} \in SUBSET Task /\ SessionInv(s)
    BY Zenon DEF MapsInv, MapsType
  <2>2. Lists(s, tasklist[s] \ {t})
    BY <1>1, <1>3, <2>1 DEF Lists, SessionInv
  <2> QED
    BY Zenon, <2>1, <2>2 DEF Shape
<1> QED
  BY Zenon, <1>2, <1>3 DEF Reply, OnWrite

\* Every step changes one session in one of the ways above, or none.
LEMMA NextShape ==
  ASSUME MapsInv, now \in Task \cup {NoTask}, [Next]_vars
  PROVE  (\E s \in Session : Shape(s)) \/ UNCHANGED maps
<1>1. CASE UNCHANGED <<sessions, loop>>
  BY <1>1 DEF sessions, maps
<1>2. CASE \E t \in Task : \/ UdpDone(t) \/ OnAnswerSent(t) \/ Age(t)
                           \/ TaskEnvironment(t)
  <2>1. UNCHANGED <<sessions, loop>>
    BY Zenon, <1>2 DEF UdpDone, OnAnswerSent, Age, TaskEnvironment, WorkerSubmit,
       ClientExpire, ClientEnds
  <2> QED
    BY Zenon, <1>1, <2>1
<1>3. ASSUME NEW s \in Session, SessionProgress(s) \/ SessionEnvironment(s)
      PROVE  Shape(s) \/ UNCHANGED maps
  BY Zenon, <1>3, TimerShape, ConnectShape, HandshakeShape, TaskShape
     DEF SessionProgress, SessionEnvironment
<1>4. CASE \E t \in Task : \E s \in Session, ok \in BOOLEAN : OnWrite(s, t, ok)
  BY Zenon, <1>4, TaskShape
<1>5. CASE UNCHANGED vars
  <2>1. UNCHANGED <<sessions, loop>>
    BY Zenon, <1>5 DEF vars
  <2> QED
    BY Zenon, <1>1, <2>1
<1> QED
  BY Zenon, <1>2, <1>3, <1>4, <1>5, StepShape, LoopTurnShape DEF Next, TaskProgress, Done

-----------------------------------------------------------------------------
(* The maps                                                                *)

NowType == now \in Task \cup {NoTask}

LEMMA NowKept ==
  ASSUME MapsInv, NowType, [Next]_vars
  PROVE  NowType'
<1>1. CASE UNCHANGED now
  BY <1>1 DEF NowType
<1>2. CASE LoopTurn
  <2>1. PICK s \in Session : s = loop.session
    BY Zenon, <1>2, Looped DEF LoopTurn
  <2>2. waitinglist[s] \in Seq(Task) /\ tasklist[s] \in SUBSET Task
    BY DEF MapsInv, MapsType
  <2>3. waitinglist[s] # <<>> => Head(waitinglist[s]) \in Task
    BY Zenon, <2>2, Popped
  <2>4. \/ UNCHANGED now
        \/ waitinglist[s] # <<>> /\ now' = Head(waitinglist[s])
        \/ now' \in tasklist[s]
    BY <1>2, <2>1 DEF LoopTurn
  <2> QED
    BY <1>1, <2>2, <2>3, <2>4 DEF NowType
<1>3. CASE now' = NoTask \/ \E t \in Task : now' = t
  BY <1>3 DEF NowType
<1>4. CASE \E t \in Task : TaskProgress(t) \/ TaskEnvironment(t)
  BY Zenon, <1>1, <1>3, <1>4 DEF TaskProgress, TaskEnvironment, UdpDone, OnAnswerSent, Age,
     OnWrite, WorkerSubmit, ClientExpire, ClientEnds
<1>5. CASE \E s \in Session : SessionProgress(s)
  BY Zenon, <1>1, <1>5 DEF SessionProgress, OnTcpConnectTimeout, TcpTimeoutTrigger,
     OnSessionClose
<1>6. CASE \E s \in Session : SessionEnvironment(s)
  <2>1. ASSUME NEW s \in Session, \E t \in Task : Reply(s, t)
        PROVE  now' = NoTask \/ \E t \in Task : now' = t
    BY <2>1 DEF Reply
  <2> QED
    BY Zenon, <1>1, <1>3, <1>6, <2>1 DEF SessionEnvironment, OnConnect, OnConnectError,
       HandshakeDone, HandshakeFailed, TcpRecvEnd
<1>7. CASE Step
  BY Zenon, <1>1, <1>3, <1>7 DEF Step, StepFinal, StepUdp, StepWaiting, StepExisting,
     StepConnect
<1>8. CASE UNCHANGED vars
  BY <1>1, <1>8 DEF vars
<1> QED
  BY Zenon, <1>2, <1>4, <1>5, <1>6, <1>7, <1>8 DEF Next, Done

LEMMA MapsInit == Init => MapsInv /\ NowType
<1> USE UpstreamAssumption
<1> SUFFICES ASSUME Init PROVE MapsInv /\ NowType
  OBVIOUS
<1>1. MapsType
  <2>1. /\ tcp_waiting \in [Peer -> Session \cup {NoSession}]
        /\ tcp_connected \in [Peer -> Session \cup {NoSession}]
    BY Zenon DEF Init
  <2>2. /\ state \in [Session -> {"free", "connecting", "handshake", "connected", "closing"}]
        /\ peer \in [Session -> Peer] /\ tasklist \in [Session -> SUBSET Task]
        /\ timer \in [Session -> {"off", "on_tcp_connect_timeout", "tcp_timeout_trigger"}]
    BY Zenon DEF Init
  <2>3. waitinglist \in [Session -> Seq(Task)]
    BY SMTT(30) DEF Init
  <2> QED
    BY Zenon, <2>1, <2>2, <2>3 DEF MapsType
<1>2. ASSUME NEW p \in Peer PROVE PeerInv(p)
  BY Zenon DEF Init, PeerInv
<1>3. ASSUME NEW s \in Session PROVE SessionInv(s)
  BY Zenon DEF Init, SessionInv
<1>4. LoopInv /\ NowType
  BY DEF Init, LoopInv, NowType
<1> QED
  BY <1>1, <1>2, <1>3, <1>4 DEF MapsInv

LEMMA MapsStep ==
  ASSUME MapsInv, NowType, [Next]_vars
  PROVE  MapsInv' /\ NowType'
<1>1. (\E s \in Session : Shape(s)) \/ UNCHANGED maps
  BY Zenon, NextShape DEF NowType
<1> QED
  BY Zenon, <1>1, ShapeKeeps, SameKeeps, NowKept

\* For any number of peers, sessions and tasks, whatever fails and however
\* callbacks interleave: the worker's maps tcp_waiting and tcp_connected hold
\* open sessions to the right peers and every session in use, and queries are
\* on the lists that the session's state allows.
THEOREM MapsAreSound == Spec => []MapsSound
<1>1. MapsInv => MapsSound
  <2> SUFFICES ASSUME MapsInv PROVE MapsSound
    OBVIOUS
  <2>1. ASSUME NEW p \in Peer PROVE PeerInv(p)
    BY DEF MapsInv
  <2>2. ASSUME NEW s \in Session PROVE SessionInv(s)
    BY DEF MapsInv
  <2> QED
    BY Zenon, <2>1, <2>2 DEF MapsSound, PeerInv, SessionInv
<1>2. MapsInv /\ NowType /\ [Next]_vars => (MapsInv /\ NowType)'
  BY MapsStep
<1> QED
  BY MapsInit, <1>1, <1>2, PTL DEF Spec
=============================================================================
