------------------------------- MODULE Nsrep -------------------------------
(***************************************************************************)
(* Reputation of name servers (lib/nsrep.c): round-trip times and timeouts *)
(* of addresses in an LRU, the election of a server and its addresses from *)
(* a zone cut, the order of forwarding targets, and what replies and       *)
(* timeouts do to the scores.  The clock moves by whole steps; coins fall  *)
(* on either side; the LRU may refuse or drop an entry.                    *)
(***************************************************************************)
EXTENDS Integers, Sequences, FiniteSets, SequencesExt

CONSTANTS
  Nsset,            \* the servers of a cut, in the order of the trie
  AddrsOf,          \* [server -> sequence of its addresses]
  V6,               \* the addresses that are IPv6
  Targets,          \* the forwarding targets of policy.FORWARD, a sequence
  Elapsed,          \* times until a reply, ms
  Pauses,           \* steps of the clock, ms
  Interval,         \* cache_rtt_tout_retry_interval
  MaxOps            \* bound on the length of a behaviour

KR_CONN_RTT_MAX == 2000
KR_CONN_RETRY == 200
KR_NS_MAX_SCORE == 20 * KR_CONN_RTT_MAX
KR_NS_FWD_TIMEOUT == (95 * 10000) \div 100
KR_NS_TIMEOUT == (95 * KR_CONN_RTT_MAX) \div 100
KR_NS_LONG == (3 * KR_NS_TIMEOUT) \div 4
KR_NS_UNKNOWN == KR_NS_TIMEOUT \div 2
KR_NS_PENALTY == 100
KR_NS_GLUED == 10
\* Mutant: rounded down.
KR_NS_DEAD_DOWN == (KR_NS_TIMEOUT * 4) \div 3
KR_NS_DEAD == ((KR_NS_TIMEOUT * 4) + 3) \div 3
KR_NS_FWD_DEAD == ((KR_NS_FWD_TIMEOUT * 4) + 3) \div 3
KR_NSREP_MAXADDR == 4
FAVOUR_IPV6 == 20

Unspec == "AF_UNSPEC"
NoName == "none"
Forwarded == "forwarded"
NoEntry == [score |-> -1, tout_timestamp |-> 0]
Servers == Range(Nsset)
Addresses == UNION {Range(AddrsOf[s]) : s \in Servers} \cup Range(Targets)

VARIABLES
  cut,              \* qry->zone_cut.nsset: [server -> sequence of known addresses]
  opts,             \* qry->flags: the address families in use, NO_THROTTLE
  ns,               \* qry->ns
  cache_rtt,        \* [address -> entry or NoEntry]
  cache_rep,        \* [server -> set of NOIP4 and NOIP6]
  await,            \* qry->flags.AWAIT_IPV6 and AWAIT_IPV4
  asked,            \* a query is on its way
  now, ops,
  strikes,          \* the timeouts of an address since its last reply
  last              \* the last call, if it chose: its name and the scores it started from
vars == <<cut, opts, ns, cache_rtt, cache_rep, await, asked, now, ops, strikes, last>>

Nothing == [call |-> "other", rtt |-> [a \in Addresses |-> NoEntry], probed |-> FALSE]
Fresh == [name |-> NoName, score |-> 0, reputation |-> {}, tcp |-> FALSE,
          addr |-> [i \in 1..KR_NSREP_MAXADDR |-> Unspec]]

\* The addresses up to the first that is not set.
List(n) ==
  LET len == Cardinality({i \in 1..KR_NSREP_MAXADDR : \A j \in 1..i : n.addr[j] # Unspec})
  IN SubSeq(n.addr, 1, len)

Init ==
  /\ cut \in {[s \in Servers |-> IF s \in known THEN AddrsOf[s] ELSE <<>>] : known \in SUBSET Servers}
  /\ opts \in [NO_IPV4 : BOOLEAN, NO_IPV6 : BOOLEAN, NO_THROTTLE : BOOLEAN]
  /\ ~(opts.NO_IPV4 /\ opts.NO_IPV6)
  /\ ns = Fresh
  /\ cache_rtt = [a \in Addresses |-> NoEntry]
  /\ cache_rep = [s \in Servers |-> {}]
  /\ await = {} /\ asked = FALSE
  /\ now = 10000 /\ ops = 0
  /\ strikes = [a \in Addresses |-> 0]
  /\ last = Nothing

Known(rtt, a) == rtt[a] # NoEntry
Valid(a) == IF a \in V6 THEN ~opts.NO_IPV6 ELSE ~opts.NO_IPV4
Banned(rtt, a, limit) ==
  Known(rtt, a) /\ rtt[a].score >= limit /\ now - rtt[a].tout_timestamp <= Interval

-----------------------------------------------------------------------------
(* Election                                                                *)

ScoreOf(rtt, a) ==
  IF ~Known(rtt, a) THEN KR_NS_GLUED
  ELSE IF rtt[a].score < KR_NS_TIMEOUT \/ Banned(rtt, a, KR_NS_TIMEOUT) THEN rtt[a].score
  ELSE KR_NS_LONG - 1

\* The first place whose holder is worse; a timed out address gets no favour.
Beats(score, favour, held) ==
  score < held + (IF score >= KR_NS_TIMEOUT THEN 0 ELSE favour)

Contend(rtt, choice, a) ==
  LET score == ScoreOf(rtt, a)
      favour == IF a \in V6 THEN FAVOUR_IPV6 ELSE 0
      places == {i \in 1..KR_NSREP_MAXADDR : Beats(score, favour, choice.score[i])}
      place == CHOOSE i \in places : \A j \in places : i <= j
      Shake(s, x) == SubSeq(InsertAt(s, place, x), 1, KR_NSREP_MAXADDR)
  IN IF ~Valid(a) \/ places = {} THEN choice
     ELSE [addr |-> Shake(choice.addr, a), score |-> Shake(choice.score, score)]

\* Only the first two of the scores are initialised to what is never beaten.
EvalAddrSet(rtt, addr_set, score) ==
  FoldLeft(LAMBDA choice, a : Contend(rtt, choice, a),
           [addr |-> [i \in 1..KR_NSREP_MAXADDR |-> Unspec],
            score |-> <<score, KR_NS_MAX_SCORE + 1, 0, 0>>],
           addr_set)

\* The ban of the chosen addresses starts anew, whether or not they will be asked.
Reprobed(rtt, choice) ==
  [a \in Addresses |->
     IF /\ a \in Range(choice.addr) /\ Known(rtt, a)
        /\ rtt[a].score >= KR_NS_TIMEOUT /\ ~Banned(rtt, a, KR_NS_TIMEOUT)
     THEN [rtt[a] EXCEPT !.tout_timestamp = now] ELSE rtt[a]]

\* Each address shifts what is there, the addresses of the last leader, to the right.
UpdateNsrepSet(n, name, addr, score) ==
  LET chosen == SelectSeq(addr, LAMBDA a : a # Unspec)
  IN IF chosen = <<>> /\ n.addr[1] # Unspec THEN n
     ELSE [n EXCEPT !.name = name, !.score = score,
                    !.addr = SubSeq(chosen \o @, 1, KR_NSREP_MAXADDR)]

UnknownScore(rep) ==
  KR_NS_UNKNOWN + (IF "NOIP6" \in rep /\ "NOIP4" \notin rep THEN FAVOUR_IPV6 ELSE 0)

CleanSlate(rep) ==
  IF {"NOIP6", "NOIP4"} \subseteq rep
  THEN {r \in rep : (r = "NOIP6" /\ opts.NO_IPV6) \/ (r = "NOIP4" /\ opts.NO_IPV4)}
  ELSE rep

\* The outcomes of eval_nsrep() for one server, by the coins.
EvalNsrep(st, s) ==
  LET known == cut[s] # <<>>
      choice == EvalAddrSet(st.rtt, cut[s], KR_NS_MAX_SCORE)
      score == IF known THEN choice.score[1] ELSE UnknownScore(cache_rep[s])
      rep == IF known THEN cache_rep[s] ELSE CleanSlate(cache_rep[s])
      rtt == IF known THEN Reprobed(st.rtt, choice) ELSE st.rtt
      lead == [UpdateNsrepSet(st.ns, s, choice.addr, score) EXCEPT !.reputation = rep]
      better == score <= st.ns.score /\ (score < KR_NS_LONG \/ opts.NO_THROTTLE)
  IN IF st.stop THEN {st}
     ELSE IF score >= KR_NS_TIMEOUT THEN {[st EXCEPT !.rtt = rtt]}
     ELSE IF better THEN {[st EXCEPT !.rtt = rtt, !.ns = lead]}
     ELSE {[st EXCEPT !.rtt = rtt, !.ns = lead, !.stop = TRUE],
           [st EXCEPT !.rtt = rtt, !.ns = IF st.ns.score > KR_NS_MAX_SCORE THEN lead ELSE @]}

\* Mutant: the list of the last election stays.
ElectInitKeeps(n) == [n EXCEPT !.reputation = {}, !.score = KR_NS_MAX_SCORE + 1]

ElectInit(n) ==
  [n EXCEPT !.addr[1] = Unspec, !.reputation = {}, !.score = KR_NS_MAX_SCORE + 1]

Elections(n, rtt) ==
  FoldLeft(LAMBDA sts, s : UNION {EvalNsrep(st, s) : st \in sts},
           {[ns |-> ElectInit(n), rtt |-> rtt, stop |-> FALSE]}, Nsset)

Called(call, probed) ==
  /\ ops < MaxOps /\ ops' = ops + 1
  /\ last' = [call |-> call, rtt |-> cache_rtt, probed |-> probed]

Other == ops < MaxOps /\ ops' = ops + 1 /\ last' = Nothing

\* kr_nsrep_elect(), when nothing is awaited.
Elect ==
  /\ await = {} /\ ~asked /\ ns.name # Forwarded
  /\ \E st \in Elections(ns, cache_rtt) :
       /\ ns' = [st.ns EXCEPT !.tcp = @ \/ (KR_NS_LONG <= st.ns.score /\ st.ns.score <= KR_NS_MAX_SCORE)]
       /\ cache_rtt' = st.rtt
       /\ asked' = (st.ns.addr[1] # Unspec)
       /\ Called("elect", st.stop)
  /\ UNCHANGED <<cut, opts, cache_rep, await, now, strikes>>

\* kr_nsrep_elect_addr(), when the addresses of the elected server have come.
ElectAddr ==
  /\ await # {} /\ cut[ns.name] # <<>>
  /\ LET n == ElectInit(ns)
         choice == EvalAddrSet(cache_rtt, cut[ns.name], n.score)
     IN /\ ns' = UpdateNsrepSet(n, n.name, choice.addr, choice.score[1])
        /\ cache_rtt' = Reprobed(cache_rtt, choice)
  /\ Other
  /\ await' = {} /\ asked' = (ns'.addr[1] # Unspec)
  /\ UNCHANGED <<cut, opts, cache_rep, now, strikes>>

UpdateRep(rep) == cache_rep' \in {cache_rep, [cache_rep EXCEPT ![ns.name] = rep]}

\* ns_resolve_addr() asks for AAAA, then for A, then gives the server up.
ResolveAddr ==
  /\ ns.name \in Servers /\ ns.score <= KR_NS_MAX_SCORE /\ ns.addr[1] = Unspec
  /\ cut[ns.name] = <<>>
  /\ LET ipv6 == "AAAA" \notin await /\ ~opts.NO_IPV6
         ipv4 == "A" \notin await /\ ~opts.NO_IPV4
         rep == ns.reputation \cup (IF ipv4 THEN {"NOIP6"} ELSE {"NOIP4", "NOIP6"})
     IN IF ipv6 THEN await' = await \cup {"AAAA"} /\ UNCHANGED <<ns, cache_rep>>
        ELSE /\ UpdateRep(rep)
             /\ await' = IF ipv4 THEN await \cup {"A"} ELSE {}
             /\ ns' = [ns EXCEPT !.reputation = rep, !.name = IF ipv4 THEN @ ELSE NoName,
                                 !.tcp = @ /\ ipv4]
  /\ Other
  /\ UNCHANGED <<cut, opts, cache_rtt, asked, now, strikes>>

\* The awaited addresses come.
Resolved ==
  /\ await # {} /\ cut[ns.name] = <<>>
  /\ cut' = [cut EXCEPT ![ns.name] = AddrsOf[ns.name]]
  /\ Other
  /\ UNCHANGED <<opts, ns, cache_rtt, cache_rep, await, asked, now, strikes>>

-----------------------------------------------------------------------------
(* Forwarding                                                              *)

\* set_nslist() with kr_nsrep_set() on a new query.
SetNslist ==
  /\ ops = 0
  /\ LET usable == SelectSeq(Targets, Valid)
     IN /\ usable # <<>>
        /\ ns' = [Fresh EXCEPT !.name = Forwarded, !.score = KR_NS_UNKNOWN,
                    !.addr = [i \in 1..KR_NSREP_MAXADDR |->
                                IF i <= Len(usable) THEN usable[i] ELSE Unspec]]
  /\ Other
  /\ UNCHANGED <<cut, opts, cache_rtt, cache_rep, await, asked, now, strikes>>

\* The scores of the targets, with a coin for each that answers, and the one timed out
\* target that is tried again.
ForwardScores(n, again, lucky) ==
  LET list == List(n)
      Favoured(a, score) == score + (IF a \in V6 THEN 0 ELSE FAVOUR_IPV6)
  IN [i \in DOMAIN list |->
        LET a == list[i]
        IN IF ~Known(cache_rtt, a) \/ a \in lucky \/ a = again THEN Favoured(a, 1)
           ELSE IF cache_rtt[a].score < KR_NS_FWD_TIMEOUT THEN Favoured(a, cache_rtt[a].score)
           ELSE KR_NS_MAX_SCORE + 1]

\* The selection sort of kr_nsrep_sort(), from place i on.
SortStep(st, i) ==
  LET rest == i..Len(st.list)
      least == {j \in rest : \A k \in rest : st.scores[j] <= st.scores[k]}
      j == CHOOSE k \in least : \A l \in least : k <= l
      Swap(s) == [s EXCEPT ![i] = s[j], ![j] = s[i]]
  IN [list |-> Swap(st.list), scores |-> Swap(st.scores)]

Again ==
  LET due == {i \in DOMAIN List(ns) :
                LET a == List(ns)[i]
                IN /\ Known(cache_rtt, a) /\ cache_rtt[a].score >= KR_NS_FWD_TIMEOUT
                   /\ ~Banned(cache_rtt, a, KR_NS_FWD_TIMEOUT)}
  IN IF due = {} THEN NoName ELSE List(ns)[CHOOSE i \in due : \A j \in due : i <= j]

Sort ==
  /\ ns.name = Forwarded /\ ~asked
  /\ \E lucky \in SUBSET {a \in Range(List(ns)) :
                            Known(cache_rtt, a) /\ cache_rtt[a].score < KR_NS_FWD_TIMEOUT} :
       LET sorted == FoldLeft(SortStep, [list |-> List(ns), scores |-> ForwardScores(ns, Again, lucky)],
                              [i \in 1..(Len(List(ns)) - 1) |-> i])
       IN ns' = [ns EXCEPT !.score = sorted.scores[1], !.reputation = {},
                   !.addr = SubSeq(sorted.list \o @, 1, Len(sorted.list))
                              \o SubSeq(@, Len(sorted.list) + 1, KR_NSREP_MAXADDR)]
  /\ cache_rtt' = [a \in Addresses |->
       IF a = Again THEN [cache_rtt[a] EXCEPT !.tout_timestamp = now] ELSE cache_rtt[a]]
  /\ Called("sort", FALSE)
  /\ asked' = (ns'.score <= KR_NS_MAX_SCORE)
  /\ UNCHANGED <<cut, opts, cache_rep, await, now, strikes>>

-----------------------------------------------------------------------------
(* Scores                                                                  *)

Smaller(a, b) == IF a <= b THEN a ELSE b
Larger(a, b) == IF a >= b THEN a ELSE b

\* kr_nsrep_update_rtt(): a new entry starts from zero, or is set.
NewScore(cur, given, umode) ==
  LET score == Larger(given, KR_NS_GLUED + 1)
      is_new == cur = NoEntry
      old == IF is_new THEN 0 ELSE cur.score
  IN CASE umode = "UPDATE_NORESET" -> (old + score) \div 2
       [] umode # "UPDATE_NORESET" /\ is_new -> score
       [] umode = "UPDATE" /\ ~is_new -> (old + score) \div 2
       [] umode = "ADD" /\ ~is_new -> Smaller(KR_NS_MAX_SCORE - 1, old + score)
       [] umode = "MAX" /\ ~is_new -> Larger(old, score)

UpdateRtt(rtt, a, given, umode, at) ==
  LET cur == rtt[a]
      score == Smaller(NewScore(cur, given, umode), KR_NS_MAX_SCORE)
      timed_out == score >= KR_NS_TIMEOUT /\ cur.score < KR_NS_TIMEOUT
  IN [rtt EXCEPT ![a] = [score |-> score,
                         tout_timestamp |-> IF timed_out THEN at ELSE cur.tout_timestamp]]

\* update_nslist_rtt(): the one that answered, and those before it in the list.
UpdateNslistRtt(rtt, src, elapsed) ==
  LET list == List(ns)
      known == {i \in DOMAIN list : i = 1 \/ elapsed - (i - 2) * KR_CONN_RETRY >= KR_CONN_RETRY}
  IN FoldLeft(LAMBDA c, i : UpdateRtt(c, list[i], elapsed - (i - 1) * KR_CONN_RETRY,
                                      IF list[i] = src THEN "UPDATE" ELSE "MAX", now + elapsed),
              rtt, [i \in 1..Cardinality(known) |-> i])

\* A reply, that may be SERVFAIL or REFUSED.
Reply ==
  /\ asked /\ asked' = FALSE
  /\ \E src \in Range(List(ns)), elapsed \in Elapsed, failing \in BOOLEAN :
       LET rtt == UpdateNslistRtt(cache_rtt, src, elapsed)
       IN /\ cache_rtt' = IF failing THEN UpdateRtt(rtt, src, KR_NS_PENALTY, "ADD", now + elapsed) ELSE rtt
          /\ strikes' = [strikes EXCEPT ![src] = 0]
          /\ now' = now + elapsed
  /\ Other
  /\ UNCHANGED <<cut, opts, ns, cache_rep, await>>

\* on_udp_timeout() for the addresses tried, or a connection that fails.
Timeout ==
  /\ asked /\ asked' = FALSE
  /\ \E n \in 1..Len(List(ns)) :
       LET tried == {ns.addr[i] : i \in 1..n}
           dead == IF ns.name = Forwarded THEN KR_NS_FWD_DEAD ELSE KR_NS_DEAD
       IN /\ cache_rtt' = [a \in Addresses |->
               IF a \in tried THEN UpdateRtt(cache_rtt, a, dead, "UPDATE_NORESET", now)[a] ELSE cache_rtt[a]]
          /\ strikes' = [a \in Addresses |-> strikes[a] + (IF a \in tried THEN 1 ELSE 0)]
  /\ Other
  /\ UNCHANGED <<cut, opts, ns, cache_rep, await, now>>

\* Other addresses take the place of this one in the LRU, or it got none.
Evict(a) ==
  /\ Known(cache_rtt, a)
  /\ cache_rtt' = [cache_rtt EXCEPT ![a] = NoEntry]
  /\ strikes' = [strikes EXCEPT ![a] = 0]
  /\ Other
  /\ UNCHANGED <<cut, opts, ns, cache_rep, await, asked, now>>

Pause ==
  /\ \E p \in Pauses : now' = now + p
  /\ Other
  /\ UNCHANGED <<cut, opts, ns, cache_rtt, cache_rep, await, asked, strikes>>

Next ==
  \/ Elect \/ ElectAddr \/ ResolveAddr \/ Resolved \/ SetNslist \/ Sort
  \/ Reply \/ Timeout \/ Pause \/ \E a \in Addresses : Evict(a)

Spec == Init /\ [][Next]_vars

-----------------------------------------------------------------------------
(* An election from a cut, whatever was measured, forgotten or given up       *)
(* before it.  A server is found as long as there is one that is not yet      *)
(* known or has an address in use that is not timed out within the retry      *)
(* interval; the address it is asked at is not timed out; every address of    *)
(* the list is in use and of this cut, not left over from an election before; *)
(* flags are kept for the server they are about; and but for the scouts no    *)
(* server is better by more than the bonus of the IPv6 addresses.             *)
ElectionSound ==
  last.call = "elect" =>
    LET Usable(s) == {a \in Range(cut[s]) : Valid(a) /\ ~Banned(last.rtt, a, KR_NS_TIMEOUT)}
        Bonus(s) == FAVOUR_IPV6 * Cardinality(Range(cut[s]) \cap V6)
    IN /\ (ns.score <= KR_NS_MAX_SCORE) <=> \E s \in Servers : cut[s] = <<>> \/ Usable(s) # {}
       /\ \A a \in Range(List(ns)) : Valid(a) /\ \E s \in Servers : a \in Range(cut[s])
       /\ List(ns) # <<>> => ~Banned(last.rtt, ns.addr[1], KR_NS_TIMEOUT)
       /\ List(ns) = <<>> /\ ns.score <= KR_NS_MAX_SCORE => ns.reputation \subseteq cache_rep[ns.name]
       /\ ~last.probed => \A s \in Servers : \A a \in Usable(s) :
            ScoreOf(last.rtt, a) < KR_NS_LONG => ns.score <= ScoreOf(last.rtt, a) + Bonus(s)

(* Forwarding targets are only put into another order, and one that is timed *)
(* out comes first only when all are, or when it is its turn to be tried.    *)
SortSound ==
  last.call = "sort" =>
    LET targets == {a \in Range(Targets) : Valid(a)}
    IN /\ Range(List(ns)) = targets
       /\ (\E a \in targets : ~Banned(last.rtt, a, KR_NS_FWD_TIMEOUT))
            => ns.score <= KR_NS_MAX_SCORE /\ ~Banned(last.rtt, ns.addr[1], KR_NS_FWD_TIMEOUT)

(* An address that let two queries in a row time out is timed out, however   *)
(* fast it was before: the smoothing over two measurements just reaches the  *)
(* limit from zero.                                                          *)
TwoStrikes ==
  \A a \in Addresses : strikes[a] >= 2 =>
    cache_rtt[a].score >= (IF a \in Range(Targets) THEN KR_NS_FWD_TIMEOUT ELSE KR_NS_TIMEOUT)
=============================================================================
