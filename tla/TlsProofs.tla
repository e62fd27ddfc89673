----------------------------- MODULE TlsProofs -----------------------------
(***************************************************************************)
(* What module TlsAuth promises, for any number of sessions, addresses,    *)
(* credentials, entries and configurations: credentials and parameters     *)
(* live exactly as long as someone needs them, and a finished handshake is *)
(* with a target that the parameters of the connection accept.  And what   *)
(* module TlsStream promises of its callbacks and module Ticket of its     *)
(* timer, at the end.                                                      *)
(***************************************************************************)
EXTENDS TlsAuth, FiniteSetTheorems, TLAPS

-----------------------------------------------------------------------------
(* The server's credentials.  The invariant speaks of one struct           *)
(* tls_credentials r, whether struct network owns it, and the set H of the *)
(* sessions that hold it.                                                  *)

CredentialsType == [live : BOOLEAN, count : Int, ephemeral : BOOLEAN, due : BOOLEAN]

\* The count is that of the sessions, and one less without the owner.
CredAt(r, owned, H) ==
  /\ r \in CredentialsType /\ IsFiniteSet(H)
  /\ r.live = TRUE <=> (owned \/ H # {})
  /\ r.live = TRUE => r.count = Cardinality(H) - (IF owned THEN 0 ELSE 1)

\* tls_credentials_release() of one struct.
Released(r) ==
  IF r.count - 1 < 0 THEN NoCredentials ELSE [r EXCEPT !.count = @ - 1]

Fresh(ephemeral) == [live |-> TRUE, count |-> 0, ephemeral |-> ephemeral, due |-> FALSE]

\* tls_credentials_reserve() for one more session.
LEMMA ReserveKeeps ==
  ASSUME NEW r, NEW owned \in BOOLEAN, NEW H, NEW s, CredAt(r, owned, H),
         r.live = TRUE, s \notin H
  PROVE  CredAt([r EXCEPT !.count = @ + 1], owned, H \cup {s})
<1> DEFINE q == [r EXCEPT !.count = @ + 1]
<1>1. /\ q \in CredentialsType /\ q.live = TRUE /\ q.count = r.count + 1
  BY DEF CredAt, CredentialsType
<1>2. /\ IsFiniteSet(H \cup {s}) /\ Cardinality(H \cup {s}) = Cardinality(H) + 1
      /\ Cardinality(H) \in Nat /\ H \cup {s} # {}
  BY FS_AddElement, FS_CardinalityType DEF CredAt
<1>3. r.count = Cardinality(H) - (IF owned THEN 0 ELSE 1)
  BY Zenon DEF CredAt
<1>4. q.count = Cardinality(H \cup {s}) - (IF owned THEN 0 ELSE 1)
  <2> HIDE DEF q
  <2> QED  BY <1>1, <1>2, <1>3
<1> HIDE DEF q
<1>5. CredAt(q, owned, H \cup {s})
  BY Zenon, <1>1, <1>2, <1>4 DEF CredAt
<1> QED
  BY Zenon, <1>5 DEF q

\* A release by a session that holds it, or by struct network that owns it.
LEMMA ReleaseKeeps ==
  ASSUME NEW r, NEW owned \in BOOLEAN, NEW H, CredAt(r, owned, H),
         NEW keeps \in BOOLEAN, NEW K,
         \/ keeps = owned /\ \E s \in H : K = H \ {s}
         \/ owned /\ ~keeps /\ K = H
  PROVE  CredAt(Released(r), keeps, K)
<1>1. /\ r \in CredentialsType /\ r.live = TRUE
      /\ r.count = Cardinality(H) - (IF owned THEN 0 ELSE 1)
  BY Zenon DEF CredAt
<1>2. /\ IsFiniteSet(K) /\ Cardinality(K) \in Nat /\ Cardinality(H) \in Nat
      /\ Cardinality(K) = 0 <=> K = {}
      /\ r.count - 1 = Cardinality(K) - (IF keeps THEN 0 ELSE 1)
  <2>1. IsFiniteSet(H) /\ Cardinality(H) \in Nat
    BY FS_CardinalityType DEF CredAt
  <2>2. CASE keeps = owned /\ \E s \in H : K = H \ {s}
    <3>1. IsFiniteSet(K) /\ Cardinality(K) = Cardinality(H) - 1
      BY ZenonT(30), <2>1, <2>2, FS_RemoveElement
    <3>2. Cardinality(K) \in Nat /\ (Cardinality(K) = 0 <=> K = {})
      BY Zenon, <3>1, FS_CardinalityType, FS_EmptySet
    <3> QED
      BY <1>1, <2>1, <2>2, <3>1, <3>2
  <2>3. CASE owned /\ ~keeps /\ K = H
    <3>1. Cardinality(K) = 0 <=> K = {}
      BY Zenon, <2>1, <2>3, FS_EmptySet
    <3> QED
      BY <1>1, <2>1, <2>3, <3>1
  <2> QED
    BY Zenon, <2>2, <2>3
<1>3. r.count \in Int
  BY <1>1 DEF CredentialsType
<1>4. CASE r.count - 1 < 0
  <2>1. K = {} /\ keeps = FALSE
    BY <1>2, <1>4
  <2>2. NoCredentials \in CredentialsType /\ NoCredentials.live = FALSE
    BY DEF NoCredentials, CredentialsType
  <2>3. Released(r) = NoCredentials
    BY Zenon, <1>4 DEF Released
  <2> QED
    BY Zenon, <1>2, <2>1, <2>2, <2>3 DEF CredAt
<1>5. CASE ~(r.count - 1 < 0)
  <2> DEFINE q == [r EXCEPT !.count = @ - 1]
  <2>1. q \in CredentialsType /\ q.live = TRUE /\ q.count = r.count - 1
    BY <1>1, <1>3 DEF CredentialsType
  <2>2. Released(r) = q
    BY Zenon, <1>5 DEF Released
  <2>3. keeps \/ K # {}
    BY <1>2, <1>3, <1>5
  <2> HIDE DEF q
  <2>4. CredAt(q, keeps, K)
    BY Zenon, <1>2, <2>1, <2>3 DEF CredAt
  <2> QED
    BY Zenon, <2>2, <2>4
<1> QED
  BY Zenon, <1>4, <1>5

\* A new struct is owned by struct network and held by nobody.
LEMMA FreshKeeps ==
  ASSUME NEW r, NEW H, CredAt(r, FALSE, H), r.live = FALSE, NEW b \in BOOLEAN
  PROVE  CredAt(Fresh(b), TRUE, H)
<1>1. H = {}
  BY Zenon DEF CredAt
<1>2. /\ Fresh(b) \in CredentialsType /\ Fresh(b).live = TRUE /\ Fresh(b).count = 0
  BY DEF Fresh, CredentialsType
<1>3. IsFiniteSet(H) /\ Cardinality(H) = 0
  BY Zenon, <1>1, FS_EmptySet
<1>4. Fresh(b).count = Cardinality(H) - 0
  BY <1>2, <1>3
<1> QED
  BY Zenon, <1>2, <1>3, <1>4 DEF CredAt

\* The server's side of the invariant, for credentials creds of which struct
\* network owns cur.
CredsInv(creds, cur) ==
  /\ None \notin Credentials
  /\ creds \in [Credentials -> CredentialsType] /\ cur \in Credentials \cup {None}
  /\ \A c \in Credentials : CredAt(creds[c], c = cur, Holders("server", c))

\* tls_credentials_release() changes the one struct it is given.
LEMMA ReleaseOne ==
  ASSUME None \notin Credentials,
         NEW creds \in [Credentials -> CredentialsType], NEW c \in Credentials
  PROVE  tls_credentials_release(creds, c) = [creds EXCEPT ![c] = Released(creds[c])]
<1>1. c # None
  OBVIOUS
<1>2. tls_credentials_release(creds, c) =
        IF creds[c].count - 1 < 0 THEN [creds EXCEPT ![c] = NoCredentials]
        ELSE [creds EXCEPT ![c].count = @ - 1]
  BY <1>1 DEF tls_credentials_release
<1> QED
  BY <1>2 DEF Released

\* New credentials are put in place of the old ones by tls_certificate_set(),
\* network_new_hostname() and tls_new().
LEMMA ExchangeKeeps ==
  ASSUME CredsInv(credentials, net_credentials), NEW new \in Unused(credentials),
         NEW b \in BOOLEAN
  PROVE  CredsInv(Exchange(credentials, net_credentials, new, b), new)
<1> DEFINE old == net_credentials
           mid == [credentials EXCEPT ![new] = Fresh(b)]
           creds == Exchange(credentials, old, new, b)
<1>1. /\ credentials \in [Credentials -> CredentialsType] /\ None \notin Credentials
      /\ old \in Credentials \cup {None}
      /\ \A c \in Credentials : CredAt(credentials[c], c = old, Holders("server", c))
  BY Zenon DEF CredsInv
<1>2. new \in Credentials /\ credentials[new].live = FALSE
  BY <1>1 DEF Unused, CredentialsType
<1>3. new # old
  BY Zenon, <1>1, <1>2 DEF CredAt
<1>4. Fresh(b) \in CredentialsType
  BY DEF Fresh, CredentialsType
<1>5. /\ mid \in [Credentials -> CredentialsType] /\ mid[new] = Fresh(b)
      /\ \A c \in Credentials : c # new => mid[c] = credentials[c]
  BY Zenon, <1>1, <1>2, <1>4
<1>6. creds = tls_credentials_release(mid, old)
  BY Zenon DEF Exchange, Fresh
<1>7. CredAt(Fresh(b), TRUE, Holders("server", new))
  <2>1. CredAt(credentials[new], FALSE, Holders("server", new))
    BY <1>1, <1>2, <1>3
  <2> QED
    BY Zenon, <1>2, <2>1, FreshKeeps
<1> HIDE DEF mid, creds
<1>8. CASE old = None
  <2>1. creds = mid
    BY Zenon, <1>6, <1>8 DEF tls_credentials_release
  <2>2. ASSUME NEW c \in Credentials
        PROVE  CredAt(creds[c], c = new, Holders("server", c))
    <3>1. CASE c = new
      BY <1>5, <1>7, <2>1, <3>1
    <3>2. CASE c # new
      <4>1. CredAt(credentials[c], FALSE, Holders("server", c))
        <5>1. c # old
          BY <1>1, <1>8
        <5> QED  BY <1>1, <5>1
      <4> QED  BY <1>5, <2>1, <3>2, <4>1
    <3> QED  BY Zenon, <3>1, <3>2
  <2> QED
    BY Zenon, <1>1, <1>2, <1>5, <2>1, <2>2 DEF CredsInv, creds
<1>9. CASE old \in Credentials
  <2>1. creds = [mid EXCEPT ![old] = Released(mid[old])]
    BY Zenon, <1>1, <1>5, <1>6, <1>9, ReleaseOne
  <2>2. CredAt(Released(mid[old]), FALSE, Holders("server", old))
    <3>1. CredAt(mid[old], TRUE, Holders("server", old))
      BY <1>1, <1>3, <1>5, <1>9
    <3> QED
      BY <3>1, ReleaseKeeps
  <2>3. creds \in [Credentials -> CredentialsType]
    <3>1. Released(mid[old]) \in CredentialsType
      BY Zenon, <2>2 DEF CredAt
    <3> QED  BY Zenon, <1>5, <2>1, <3>1
  <2>4. ASSUME NEW c \in Credentials
        PROVE  CredAt(creds[c], c = new, Holders("server", c))
    <3>1. CASE c = new
      BY <1>3, <1>5, <1>7, <2>1, <3>1
    <3>2. CASE c = old
      BY <1>3, <1>5, <2>1, <2>2, <3>2
    <3>3. CASE c # new /\ c # old
      <4>1. CredAt(credentials[c], FALSE, Holders("server", c))
        BY <1>1, <3>3
      <4> QED  BY <1>5, <2>1, <3>3, <4>1
    <3> QED  BY Zenon, <3>1, <3>2, <3>3
  <2> QED
    BY Zenon, <1>1, <1>2, <2>3, <2>4 DEF CredsInv, creds
<1> QED
  BY Zenon, <1>1, <1>8, <1>9

\* What tls_new() finds or makes.
LEMMA CurrentKeeps ==
  ASSUME CredsInv(credentials, net_credentials), NEW cur \in Current
  PROVE  CredsInv(cur.creds, cur.cur)
<1>1. CASE cur = [creds |-> credentials, cur |-> net_credentials]
  BY <1>1
<1>2. CASE \E new \in Unused(credentials) :
             cur = [creds |-> Exchange(credentials, net_credentials, new, TRUE), cur |-> new]
  <2>1. PICK new \in Unused(credentials) :
          cur = [creds |-> Exchange(credentials, net_credentials, new, TRUE), cur |-> new]
    BY Zenon, <1>2
  <2>2. CredsInv(Exchange(credentials, net_credentials, new, TRUE), new)
    BY ExchangeKeeps
  <2> QED
    BY <2>1, <2>2
<1> QED
  <2>1. \/ cur = [creds |-> credentials, cur |-> net_credentials]
        \/ \E new \in Unused(credentials) :
             cur = [creds |-> Exchange(credentials, net_credentials, new, TRUE), cur |-> new]
    BY DEF Current
  <2> QED
    BY Zenon, <1>1, <1>2, <2>1

-----------------------------------------------------------------------------
(* The parameters of forwarding targets.  The invariant speaks of *)
(* one tls_client_param_t r, the addresses At it is set for, and the       *)
(* sessions H that hold it.                                                *)

EntryType ==
  [live : BOOLEAN, refs : Int,
   insecure : {FALSE} \cup {cfg.insecure : cfg \in Configs},
   hostname : {None} \cup {cfg.hostname : cfg \in Configs},
   pins : {{}} \cup {cfg.pins : cfg \in Configs},
   data : {NoData} \cup Chains]

EntAt(r, At, H) ==
  /\ r \in EntryType /\ IsFiniteSet(At) /\ IsFiniteSet(H)
  /\ r.live = TRUE <=> (At # {} \/ H # {})
  /\ r.refs = Cardinality(At) + Cardinality(H)

\* Session data d was obtained from a target that r accepts.
Vouched(r, d) == d # NoData => client_verify_certificate(r, d)

\* tls_client_param_unref() of one entry.
Unreferred(r) == IF r.refs = 1 THEN NoEntry ELSE [r EXCEPT !.refs = @ - 1]

\* What an entry accepts depends on three of its fields.
LEMMA SameVerdict ==
  ASSUME NEW r, NEW q, NEW chain,
         q.insecure = r.insecure, q.hostname = r.hostname, q.pins = r.pins
  PROVE  /\ client_verify_certificate(q, chain) <=> client_verify_certificate(r, chain)
         /\ Vouched(q, chain) <=> Vouched(r, chain)
BY Zenon DEF client_verify_certificate, Vouched

\* A record like those of Entries, with another reference count.
LEMMA Recounted ==
  ASSUME NEW I, NEW N, NEW P, NEW D,
         NEW r \in [live : BOOLEAN, refs : Int, insecure : I, hostname : N, pins : P, data : D],
         NEW n \in Int
  PROVE  /\ [r EXCEPT !.refs = n] \in
              [live : BOOLEAN, refs : Int, insecure : I, hostname : N, pins : P, data : D]
         /\ [r EXCEPT !.refs = n].live = r.live /\ [r EXCEPT !.refs = n].refs = n
         /\ [r EXCEPT !.refs = n].insecure = r.insecure
         /\ [r EXCEPT !.refs = n].hostname = r.hostname
         /\ [r EXCEPT !.refs = n].pins = r.pins /\ [r EXCEPT !.refs = n].data = r.data
         /\ r.refs \in Int
OBVIOUS

\* One reference more, of an address or of a session.
LEMMA ReferKeeps ==
  ASSUME NEW r, NEW At, NEW H, EntAt(r, At, H), r.live = TRUE, NEW B, NEW K,
         \/ B = At /\ \E x : x \notin H /\ K = H \cup {x}
         \/ K = H /\ \E x : x \notin At /\ B = At \cup {x}
  PROVE  EntAt([r EXCEPT !.refs = @ + 1], B, K)
<1> DEFINE q == [r EXCEPT !.refs = @ + 1]
<1>1. /\ q \in EntryType /\ q.live = TRUE /\ q.refs = r.refs + 1
  <2>1. r \in EntryType
    BY Zenon DEF EntAt
  <2>2. r.refs \in Int
    <3>1. 0 \in Int
      OBVIOUS
    <3> QED  BY Zenon, <2>1, <3>1, Recounted DEF EntryType
  <2>3. r.refs + 1 \in Int
    BY <2>2
  <2> QED
    BY Zenon, <2>1, <2>3, Recounted DEF EntryType
<1>2. /\ Cardinality(At) \in Nat /\ Cardinality(H) \in Nat
      /\ r.refs = Cardinality(At) + Cardinality(H)
  BY Zenon, FS_CardinalityType DEF EntAt
<1> HIDE DEF q
<1>3. ASSUME B = At /\ \E x : x \notin H /\ K = H \cup {x}
      PROVE  EntAt(q, B, K)
  <2>1. IsFiniteSet(K) /\ Cardinality(K) = Cardinality(H) + 1 /\ K # {}
    <3>1. PICK x : x \notin H /\ K = H \cup {x}
      BY Zenon, <1>3
    <3>2. IsFiniteSet(H)
      BY Zenon DEF EntAt
    <3>3. /\ IsFiniteSet(H \cup {x})
          /\ Cardinality(H \cup {x}) = Cardinality(H) + 1
      BY Zenon, <3>1, <3>2, FS_AddElement
    <3> QED
      BY <3>1, <3>3
  <2>2. q.refs = Cardinality(B) + Cardinality(K)
    BY <1>1, <1>2, <1>3, <2>1
  <2> QED
    BY Zenon, <1>1, <1>3, <2>1, <2>2 DEF EntAt
<1>4. ASSUME K = H /\ \E x : x \notin At /\ B = At \cup {x}
      PROVE  EntAt(q, B, K)
  <2>1. IsFiniteSet(B) /\ Cardinality(B) = Cardinality(At) + 1 /\ B # {}
    <3>1. PICK x : x \notin At /\ B = At \cup {x}
      BY Zenon, <1>4
    <3>2. IsFiniteSet(At)
      BY Zenon DEF EntAt
    <3>3. /\ IsFiniteSet(At \cup {x})
          /\ Cardinality(At \cup {x}) = Cardinality(At) + 1
      BY Zenon, <3>1, <3>2, FS_AddElement
    <3> QED
      BY <3>1, <3>3
  <2>2. q.refs = Cardinality(B) + Cardinality(K)
    BY <1>1, <1>2, <1>4, <2>1
  <2> QED
    BY Zenon, <1>1, <1>4, <2>1, <2>2 DEF EntAt
<1>5. EntAt(q, B, K)
  BY Zenon, <1>3, <1>4
<1> QED
  BY Zenon, <1>5 DEF q

\* One reference less: the entry is freed with the last, else it still says
\* whom to accept.
LEMMA UnreferKeeps ==
  ASSUME NEW r, NEW At, NEW H, EntAt(r, At, H), NEW B, NEW K,
         \/ B = At /\ \E x \in H : K = H \ {x}
         \/ K = H /\ \E x \in At : B = At \ {x}
  PROVE  /\ EntAt(Unreferred(r), B, K)
         /\ \/ Unreferred(r) = NoEntry /\ B = {} /\ K = {}
            \/ /\ Unreferred(r).insecure = r.insecure /\ Unreferred(r).hostname = r.hostname
               /\ Unreferred(r).pins = r.pins /\ Unreferred(r).data = r.data
<1>1. /\ Cardinality(At) \in Nat /\ Cardinality(H) \in Nat /\ r \in EntryType
      /\ r.live = TRUE /\ r.refs = Cardinality(At) + Cardinality(H)
  BY Zenon, FS_CardinalityType DEF EntAt
<1>2. /\ IsFiniteSet(B) /\ IsFiniteSet(K) /\ Cardinality(B) \in Nat /\ Cardinality(K) \in Nat
      /\ r.refs = Cardinality(B) + Cardinality(K) + 1
  <2>1. CASE B = At /\ \E x \in H : K = H \ {x}
    <3>1. IsFiniteSet(K) /\ Cardinality(K) = Cardinality(H) - 1 /\ IsFiniteSet(B)
      BY Zenon, <2>1, FS_RemoveElement DEF EntAt
    <3>2. Cardinality(K) \in Nat
      BY Zenon, <3>1, FS_CardinalityType
    <3> QED  BY <1>1, <2>1, <3>1, <3>2
  <2>2. CASE K = H /\ \E x \in At : B = At \ {x}
    <3>1. IsFiniteSet(B) /\ Cardinality(B) = Cardinality(At) - 1 /\ IsFiniteSet(K)
      BY Zenon, <2>2, FS_RemoveElement DEF EntAt
    <3>2. Cardinality(B) \in Nat
      BY Zenon, <3>1, FS_CardinalityType
    <3> QED  BY <1>1, <2>2, <3>1, <3>2
  <2> QED  BY Zenon, <2>1, <2>2
<1>3. (Cardinality(B) = 0 <=> B = {}) /\ (Cardinality(K) = 0 <=> K = {})
  BY Zenon, <1>2, FS_EmptySet
<1>4. CASE r.refs = 1
  <2>1. B = {} /\ K = {} /\ Cardinality(B) + Cardinality(K) = 0
    BY <1>2, <1>3, <1>4
  <2>2. NoEntry \in EntryType /\ NoEntry.live = FALSE /\ NoEntry.refs = 0
    BY DEF NoEntry, EntryType
  <2>3. Unreferred(r) = NoEntry
    BY Zenon, <1>4 DEF Unreferred
  <2> QED
    BY Zenon, <1>2, <2>1, <2>2, <2>3 DEF EntAt
<1>5. CASE r.refs # 1
  <2> DEFINE q == [r EXCEPT !.refs = @ - 1]
  <2>1. /\ q \in EntryType /\ q.live = TRUE /\ q.refs = r.refs - 1
        /\ q.insecure = r.insecure /\ q.hostname = r.hostname
        /\ q.pins = r.pins /\ q.data = r.data
    <3>1. r.refs - 1 \in Int
      BY <1>1
    <3> QED
      BY Zenon, <1>1, <3>1, Recounted DEF EntryType
  <2>2. Unreferred(r) = q
    BY Zenon, <1>5 DEF Unreferred
  <2> HIDE DEF q
  <2>3. q.refs = Cardinality(B) + Cardinality(K) /\ (B # {} \/ K # {})
    BY <1>2, <1>3, <1>5, <2>1
  <2>4. EntAt(q, B, K)
    BY Zenon, <1>2, <2>1, <2>3 DEF EntAt
  <2> QED
    BY Zenon, <2>1, <2>2, <2>4
<1> QED
  BY Zenon, <1>4, <1>5

-----------------------------------------------------------------------------
(* The invariant                                                           *)

CtxType ==
  [side : {None, "server", "client"}, holds : {None} \cup Credentials \cup Entries,
   hs : {"TLS_HS_NOT_STARTED", "TLS_HS_IN_PROGRESS", "TLS_HS_DONE"},
   offered : {NoData} \cup Chains, chain : {NoData} \cup Chains]

SetFor(e) == {a \in Addrs : params[a] = e}

EntriesInv ==
  /\ None \notin Entries
  /\ entries \in [Entries -> EntryType] /\ params \in [Addrs -> Entries \cup {None}]
  /\ \A e \in Entries : EntAt(entries[e], SetFor(e), Holders("client", e))

\* Session data is vouched for by the entry of tab that has it, and what a
\* context x offered and was shown by the entry it holds.
CtxAt(tab, x) ==
  /\ x \in CtxType
  /\ x.side = "server" => x.holds \in Credentials
  /\ x.side = "client" => /\ x.holds \in Entries
                          /\ Vouched(tab[x.holds], x.offered)
  /\ x.side = "client" /\ x.hs = "TLS_HS_DONE" =>
       client_verify_certificate(tab[x.holds], x.chain)

DataInv ==
  /\ \A e \in Entries : Vouched(entries[e], entries[e].data)
  /\ ctx \in [Sessions -> CtxType] /\ \A s \in Sessions : CtxAt(entries, ctx[s])

AuthInv == CredsInv(credentials, net_credentials) /\ EntriesInv /\ DataInv

-----------------------------------------------------------------------------
(* Who holds what                                                          *)

\* A context without a holder is given something to hold.
LEMMA Joins ==
  ASSUME ctx \in [Sessions -> CtxType], NEW s \in Sessions, ctx[s] = NoCtx,
         NEW n \in CtxType, ctx' = [ctx EXCEPT ![s] = n], n.side # None
  PROVE  /\ s \notin Holders(n.side, n.holds)
         /\ Holders(n.side, n.holds)' = Holders(n.side, n.holds) \cup {s}
         /\ \A side \in {"server", "client"} : \A x :
              side # n.side \/ x # n.holds => Holders(side, x)' = Holders(side, x)
<1>1. ctx[s].side = None /\ None # "server" /\ None # "client"
  BY DEF NoCtx, None
<1>2. ctx'[s] = n /\ \A z \in Sessions : z # s => ctx'[z] = ctx[z]
  BY Zenon
<1> QED
  BY <1>1, <1>2 DEF Holders

\* tls_free() and tls_client_ctx_free() end the hold.
LEMMA Departs ==
  ASSUME ctx \in [Sessions -> CtxType], NEW s \in Sessions,
         ctx' = [ctx EXCEPT ![s] = NoCtx]
  PROVE  \A side \in {"server", "client"} : \A x :
           /\ Holders(side, x)' = Holders(side, x) \ {s}
           /\ s \in Holders(side, x) <=> (side = ctx[s].side /\ x = ctx[s].holds)
<1>1. NoCtx.side = None /\ None # "server" /\ None # "client"
  BY DEF NoCtx, None
<1>2. ctx'[s] = NoCtx /\ \A z \in Sessions : z # s => ctx'[z] = ctx[z]
  BY Zenon
<1> HIDE DEF NoCtx
<1>3. ASSUME NEW side \in {"server", "client"}, NEW x, NEW z \in Sessions
      PROVE  z \in Holders(side, x)' <=> (z \in Holders(side, x) /\ z # s)
  BY Zenon, <1>1, <1>2 DEF Holders
<1>4. \A side, x : Holders(side, x)' \subseteq Sessions /\ Holders(side, x) \subseteq Sessions
  BY Zenon DEF Holders
<1>5. \A side, x : s \in Holders(side, x) <=> (side = ctx[s].side /\ x = ctx[s].holds)
  BY Zenon DEF Holders
<1> QED
  BY <1>3, <1>4, <1>5

\* The steps of a handshake leave the holds alone.
LEMMA Stays ==
  ASSUME \A s \in Sessions : ctx'[s].side = ctx[s].side /\ ctx'[s].holds = ctx[s].holds
  PROVE  \A side, x : Holders(side, x)' = Holders(side, x)
BY DEF Holders

\* What the sessions hold of the server's side is as before.
LEMMA CredsKept ==
  ASSUME CredsInv(credentials', net_credentials'),
         \A x : Holders("server", x)' = Holders("server", x)
  PROVE  CredsInv(credentials, net_credentials)'
BY DEF CredsInv, None

\* Nothing happens on the side of the targets.
LEMMA EntriesKept ==
  ASSUME EntriesInv, UNCHANGED <<entries, params>>,
         \A x : Holders("client", x)' = Holders("client", x)
  PROVE  EntriesInv'
BY DEF EntriesInv, SetFor

\* A context keeps its assurance while the entry it holds says the same.
LEMMA CtxKept ==
  ASSUME NEW tab, NEW upd, NEW x, CtxAt(tab, x),
         x.side = "client" => /\ upd[x.holds].insecure = tab[x.holds].insecure
                              /\ upd[x.holds].hostname = tab[x.holds].hostname
                              /\ upd[x.holds].pins = tab[x.holds].pins
  PROVE  CtxAt(upd, x)
BY Zenon, SameVerdict DEF CtxAt

-----------------------------------------------------------------------------
(* Every step of the server's side keeps the invariant                     *)

\* tls_certificate_set() and network_new_hostname() exchange the credentials.
LEMMA SetKeeps ==
  ASSUME AuthInv, tls_certificate_set \/ network_new_hostname
  PROVE  AuthInv'
<1>1. PICK new \in Unused(credentials), b \in BOOLEAN :
        /\ credentials' = Exchange(credentials, net_credentials, new, b)
        /\ net_credentials' = new
  <2>1. TRUE \in BOOLEAN /\ FALSE \in BOOLEAN
    OBVIOUS
  <2> QED
    BY Zenon, <2>1 DEF tls_certificate_set, network_new_hostname
<1>2. UNCHANGED <<entries, params, ctx>>
  BY DEF tls_certificate_set, network_new_hostname
<1>3. \A side, x : Holders(side, x)' = Holders(side, x)
  BY <1>2, Stays
<1>4. CredsInv(credentials, net_credentials)'
  <2>1. CredsInv(credentials', net_credentials')
    BY Zenon, <1>1, ExchangeKeeps DEF AuthInv
  <2> QED
    BY Zenon, <1>3, <2>1, CredsKept
<1>5. EntriesInv'
  BY Zenon, <1>2, <1>3, EntriesKept DEF AuthInv
<1>6. DataInv'
  BY Zenon, <1>2 DEF AuthInv, DataInv
<1> QED
  BY Zenon, <1>4, <1>5, <1>6 DEF AuthInv

\* Credentials that come due are the same otherwise.
LEMMA ExpireKeeps ==
  ASSUME AuthInv, CredentialsExpire
  PROVE  AuthInv'
<1> DEFINE c == net_credentials
<1>1. None \notin Credentials /\ c \in Credentials /\ credentials \in [Credentials -> CredentialsType]
  BY Zenon DEF AuthInv, CredsInv, CredentialsExpire
<1>2. /\ credentials' = [credentials EXCEPT ![c].due = TRUE]
      /\ UNCHANGED <<net_credentials, entries, params, ctx>>
  BY Zenon DEF CredentialsExpire
<1>3. \A side, x : Holders(side, x)' = Holders(side, x)
  BY <1>2, Stays
<1>4. CredsInv(credentials, net_credentials)'
  <2>1. /\ credentials' \in [Credentials -> CredentialsType]
        /\ \A x \in Credentials : /\ credentials'[x].live = credentials[x].live
                                  /\ credentials'[x].count = credentials[x].count
    BY <1>1, <1>2 DEF CredentialsType
  <2>2. ASSUME NEW x \in Credentials
        PROVE  CredAt(credentials'[x], x = net_credentials', Holders("server", x))
    <3>1. CredAt(credentials[x], x = net_credentials, Holders("server", x))
      BY Zenon DEF AuthInv, CredsInv
    <3>2. credentials'[x] \in CredentialsType
      BY Zenon, <2>1
    <3>3. net_credentials' = net_credentials
      BY Zenon, <1>2
    <3> QED
      BY Zenon, <2>1, <3>1, <3>2, <3>3 DEF CredAt
  <2>3. CredsInv(credentials', net_credentials')
    BY Zenon, <1>1, <1>2, <2>1, <2>2 DEF CredsInv
  <2> QED
    BY Zenon, <1>3, <2>3, CredsKept
<1>5. EntriesInv'
  BY Zenon, <1>2, <1>3, EntriesKept DEF AuthInv
<1>6. DataInv'
  BY Zenon, <1>2 DEF AuthInv, DataInv
<1> QED
  BY Zenon, <1>4, <1>5, <1>6 DEF AuthInv

\* Releasing what was just reserved leaves all as it was.
LEMMA ReserveUndone ==
  ASSUME NEW creds, NEW c \in Credentials, CredsInv(creds, c)
  PROVE  tls_credentials_release(tls_credentials_reserve(creds, c), c) = creds
<1> DEFINE mid == tls_credentials_reserve(creds, c)
           r == creds[c]
<1>1. creds \in [Credentials -> CredentialsType] /\ None \notin Credentials
  BY Zenon DEF CredsInv
<1>2. /\ r.count \in Nat /\ r \in CredentialsType
  <2>1. CredAt(creds[c], c = c, Holders("server", c))
    BY Zenon DEF CredsInv
  <2>2. IsFiniteSet(Holders("server", c)) /\ r.live = TRUE /\ r.count = Cardinality(Holders("server", c)) - 0
    BY <2>1 DEF CredAt
  <2>3. Cardinality(Holders("server", c)) \in Nat
    BY Zenon, <2>2, FS_CardinalityType
  <2> QED
    BY <1>1, <2>2, <2>3
<1>3. /\ mid \in [Credentials -> CredentialsType] /\ mid[c].count = r.count + 1
      /\ mid = [creds EXCEPT ![c] = [r EXCEPT !.count = @ + 1]]
  BY <1>1, <1>2 DEF tls_credentials_reserve, CredentialsType
<1>4. tls_credentials_release(mid, c) = [mid EXCEPT ![c] = Released(mid[c])]
  BY Zenon, <1>1, <1>3, ReleaseOne
<1>5. Released(mid[c]) = r
  <2>1. ~(mid[c].count - 1 < 0) /\ mid[c].count - 1 = r.count
    BY <1>2, <1>3
  <2>2. mid[c] = [r EXCEPT !.count = @ + 1]
    BY Zenon, <1>1, <1>3
  <2>3. [mid[c] EXCEPT !.count = @ - 1] = r
    <3> HIDE DEF mid, r
    <3> QED  BY <1>2, <2>1, <2>2 DEF CredentialsType
  <2> QED
    BY Zenon, <2>1, <2>3 DEF Released
<1> QED
  BY Zenon, <1>1, <1>3, <1>4, <1>5

\* tls_new() reserves the current credentials for its session, or fails.
LEMMA NewKeeps ==
  ASSUME AuthInv, NEW s \in Sessions, tls_new(s)
  PROVE  AuthInv'
<1>1. PICK cur \in Current :
        /\ net_credentials' = cur.cur
        /\ \/ /\ cur.cur # None
              /\ credentials' = tls_credentials_reserve(cur.creds, cur.cur)
              /\ ctx' = [ctx EXCEPT ![s] = [NoCtx EXCEPT !.side = "server", !.holds = cur.cur,
                                                           !.hs = "TLS_HS_IN_PROGRESS"]]
           \/ /\ credentials' = IF cur.cur = None THEN cur.creds
                                ELSE tls_credentials_release(
                                       tls_credentials_reserve(cur.creds, cur.cur), cur.cur)
              /\ UNCHANGED ctx
  BY Zenon DEF tls_new
<1>2. ctx[s] = NoCtx /\ UNCHANGED <<entries, params>>
  BY Zenon DEF tls_new
<1> DEFINE creds == cur.creds
           c == cur.cur
<1>3. CredsInv(creds, c)
  BY Zenon, CurrentKeeps DEF AuthInv
<1>4. None \notin Credentials /\ creds \in [Credentials -> CredentialsType] /\ c \in Credentials \cup {None}
  BY Zenon, <1>3 DEF CredsInv
<1>5. ctx \in [Sessions -> CtxType]
  BY Zenon DEF AuthInv, DataInv
<1> HIDE DEF creds, c
<1>6. CASE UNCHANGED ctx /\ credentials' = IF c = None THEN creds
             ELSE tls_credentials_release(tls_credentials_reserve(creds, c), c)
  <2>1. credentials' = creds /\ net_credentials' = c
    BY Zenon, <1>1, <1>3, <1>4, <1>6, ReserveUndone DEF c
  <2>2. \A side, x : Holders(side, x)' = Holders(side, x)
    BY <1>6, Stays
  <2>3. CredsInv(credentials, net_credentials)'
    BY Zenon, <1>3, <2>1, <2>2, CredsKept
  <2>4. EntriesInv'
    BY Zenon, <1>2, <2>2, EntriesKept DEF AuthInv
  <2>5. DataInv'
    BY Zenon, <1>2, <1>6 DEF AuthInv, DataInv
  <2> QED
    BY Zenon, <2>3, <2>4, <2>5 DEF AuthInv
<1>7. CASE /\ c # None /\ credentials' = tls_credentials_reserve(creds, c)
           /\ ctx' = [ctx EXCEPT ![s] = [NoCtx EXCEPT !.side = "server", !.holds = c,
                                                        !.hs = "TLS_HS_IN_PROGRESS"]]
  <2> DEFINE n == [NoCtx EXCEPT !.side = "server", !.holds = c, !.hs = "TLS_HS_IN_PROGRESS"]
  <2>1. c \in Credentials /\ net_credentials' = c
    BY Zenon, <1>1, <1>4, <1>7 DEF c
  <2>2. n \in CtxType /\ n.side = "server" /\ n.holds = c /\ n.side # None
    BY <2>1 DEF NoCtx, CtxType, None
  <2> HIDE DEF n
  <2>3. ctx' = [ctx EXCEPT ![s] = n]
    BY Zenon, <1>7 DEF n
  <2>4. /\ s \notin Holders("server", c)
        /\ Holders(n.side, n.holds)' = Holders("server", c) \cup {s}
        /\ \A x : x # c => Holders("server", x)' = Holders("server", x)
        /\ \A x : Holders("client", x)' = Holders("client", x)
    BY <1>2, <1>5, <2>2, <2>3, Joins
  <2>5. /\ credentials' = [creds EXCEPT ![c] = [creds[c] EXCEPT !.count = @ + 1]]
    BY Zenon, <1>7 DEF tls_credentials_reserve
  <2>6. CredAt(credentials'[c], TRUE, Holders(n.side, n.holds)')
    <3>1. CredAt(creds[c], TRUE, Holders("server", c))
      BY <1>3, <2>1 DEF CredsInv
    <3>2. creds[c].live = TRUE
      BY Zenon, <3>1 DEF CredAt
    <3>3. CredAt([creds[c] EXCEPT !.count = @ + 1], TRUE, Holders("server", c) \cup {s})
      BY Zenon, <2>4, <3>1, <3>2, ReserveKeeps, TRUE \in BOOLEAN
    <3> QED
      BY Zenon, <1>4, <2>1, <2>4, <2>5, <3>3
  <2>7. ASSUME NEW x \in Credentials
        PROVE  CredAt(credentials'[x], x = net_credentials', Holders("server", x)')
    <3>1. CASE x = c
      BY <2>1, <2>2, <2>6, <3>1
    <3>2. CASE x # c
      <4>1. CredAt(creds[x], x = c, Holders("server", x))
        BY Zenon, <1>3 DEF CredsInv
      <4>2. credentials'[x] = creds[x] /\ Holders("server", x)' = Holders("server", x)
        BY Zenon, <1>4, <2>4, <2>5, <3>2
      <4> QED
        BY Zenon, <2>1, <4>1, <4>2
    <3> QED
      BY Zenon, <3>1, <3>2
  <2>8. CredsInv(credentials, net_credentials)'
    <3>1. credentials'[c] \in CredentialsType
      BY Zenon, <2>6 DEF CredAt
    <3>2. credentials' \in [Credentials -> CredentialsType]
      BY Zenon, <1>4, <2>1, <2>5, <3>1
    <3> QED
      BY Zenon, <1>4, <2>1, <2>7, <3>2 DEF CredsInv
  <2>9. EntriesInv'
    BY Zenon, <1>2, <2>4, EntriesKept DEF AuthInv
  <2>10. DataInv'
    <3>1. CtxAt(entries', n)
      BY <2>1, <2>2 DEF CtxAt
    <3> QED
      BY Zenon, <1>2, <1>5, <2>2, <2>3, <3>1 DEF AuthInv, DataInv
  <2> QED
    BY Zenon, <2>8, <2>9, <2>10 DEF AuthInv
<1> QED
  BY Zenon, <1>1, <1>6, <1>7 DEF c, creds

\* tls_free() releases what the session held.
LEMMA FreeKeeps ==
  ASSUME AuthInv, NEW s \in Sessions, tls_free(s)
  PROVE  AuthInv'
<1> DEFINE c == ctx[s].holds
<1>1. /\ ctx[s].side = "server" /\ credentials' = tls_credentials_release(credentials, c)
      /\ ctx' = [ctx EXCEPT ![s] = NoCtx] /\ UNCHANGED <<net_credentials, entries, params>>
  BY Zenon DEF tls_free
<1>2. /\ None \notin Credentials
      /\ ctx \in [Sessions -> CtxType] /\ c \in Credentials
      /\ credentials \in [Credentials -> CredentialsType]
  BY Zenon, <1>1 DEF AuthInv, DataInv, CredsInv, CtxAt
<1>3. /\ credentials' = [credentials EXCEPT ![c] = Released(credentials[c])]
  BY Zenon, <1>1, <1>2, ReleaseOne
<1>4. \A side \in {"server", "client"} : \A x :
        /\ Holders(side, x)' = Holders(side, x) \ {s}
        /\ s \in Holders(side, x) <=> (side = "server" /\ x = c)
  BY Zenon, <1>1, <1>2, Departs
<1>5. ASSUME NEW x \in Credentials
      PROVE  CredAt(credentials'[x], x = net_credentials', Holders("server", x)')
  <2>1. /\ CredAt(credentials[x], x = net_credentials, Holders("server", x))
        /\ net_credentials' = net_credentials
    BY Zenon, <1>1 DEF AuthInv, CredsInv
  <2>2. CASE x = c
    <3>1. credentials'[x] = Released(credentials[x])
      BY Zenon, <1>2, <1>3, <2>2
    <3>2. s \in Holders("server", x) /\ Holders("server", x)' = Holders("server", x) \ {s}
      BY <1>4, <2>2
    <3>3. (x = net_credentials) \in BOOLEAN
      OBVIOUS
    <3>4. CredAt(Released(credentials[x]), x = net_credentials, Holders("server", x) \ {s})
      BY Zenon, <2>1, <3>2, <3>3, ReleaseKeeps
    <3> QED
      BY Zenon, <2>1, <3>1, <3>2, <3>4
  <2>3. CASE x # c
    <3>1. credentials'[x] = credentials[x]
      BY Zenon, <1>2, <1>3, <2>3
    <3>2. s \notin Holders("server", x) /\ Holders("server", x)' = Holders("server", x) \ {s}
      BY <1>4, <2>3
    <3>3. Holders("server", x)' = Holders("server", x)
      BY <3>2
    <3> QED
      BY Zenon, <2>1, <3>1, <3>3
  <2> QED
    BY Zenon, <2>2, <2>3
<1>6. CredsInv(credentials, net_credentials)'
  <2>1. Released(credentials[c]) \in CredentialsType
    BY Zenon, <1>2, <1>3, <1>5 DEF CredAt
  <2>2. credentials' \in [Credentials -> CredentialsType]
    BY Zenon, <1>2, <1>3, <2>1
  <2> QED
    BY Zenon, <1>1, <1>5, <2>2 DEF AuthInv, CredsInv
<1>7. EntriesInv'
  <2>1. \A x : Holders("client", x)' = Holders("client", x)
    BY <1>4
  <2> QED
    BY Zenon, <1>1, <2>1, EntriesKept DEF AuthInv
<1>8. DataInv'
  <2>1. NoCtx \in CtxType /\ CtxAt(entries', NoCtx)
    BY DEF NoCtx, None, CtxType, CtxAt
  <2> QED
    BY Zenon, <1>1, <1>2, <2>1 DEF AuthInv, DataInv
<1> QED
  BY Zenon, <1>6, <1>7, <1>8 DEF AuthInv

-----------------------------------------------------------------------------
(* Every step of the targets' side keeps the invariant                     *)

\* tls_client_param_unref() changes the one entry it is given.
LEMMA UnrefOne ==
  ASSUME None \notin Entries, NEW tab \in [Entries -> EntryType], NEW e \in Entries
  PROVE  tls_client_param_unref(tab, e) = [tab EXCEPT ![e] = Unreferred(tab[e])]
<1>1. e # None
  OBVIOUS
<1>2. tls_client_param_unref(tab, e) =
        IF tab[e].refs = 1 THEN [tab EXCEPT ![e] = NoEntry]
        ELSE [tab EXCEPT ![e].refs = @ - 1]
  BY Zenon, <1>1 DEF tls_client_param_unref
<1> QED
  BY Zenon, <1>2 DEF Unreferred

\* The addresses an entry is set for when address a is given the entry new.
LEMMA AddressStep ==
  ASSUME EntriesInv, NEW a \in Addrs, NEW new, params' = [params EXCEPT ![a] = new]
  PROVE  /\ SetFor(new)' = SetFor(new) \cup {a}
         /\ \A e : e # new => /\ SetFor(e)' = SetFor(e) \ {a}
                              /\ a \in SetFor(e) <=> e = params[a]
<1>1. params'[a] = new /\ \A b \in Addrs : b # a => params'[b] = params[b]
  BY Zenon DEF EntriesInv
<1> QED
  BY <1>1 DEF SetFor

\* r may be what entry e has become: its count is right, its session data is
\* vouched for, and whoever holds it would accept the same targets.
Fine(e, r) ==
  /\ EntAt(r, SetFor(e)', Holders("client", e)')
  /\ Vouched(r, r.data)
  /\ Holders("client", e)' # {} =>
       /\ r.insecure = entries[e].insecure /\ r.hostname = entries[e].hostname
       /\ r.pins = entries[e].pins

\* The entry old loses one reference, of an address or of a session.
LEMMA UnrefFine ==
  ASSUME NEW old \in Entries, NEW r, EntAt(r, SetFor(old), Holders("client", old)),
         Vouched(r, r.data), r.insecure = entries[old].insecure,
         r.hostname = entries[old].hostname, r.pins = entries[old].pins,
         \/ /\ SetFor(old)' = SetFor(old)
            /\ \E x \in Holders("client", old) :
                 Holders("client", old)' = Holders("client", old) \ {x}
         \/ /\ Holders("client", old)' = Holders("client", old)
            /\ \E x \in SetFor(old) : SetFor(old)' = SetFor(old) \ {x}
  PROVE  Fine(old, Unreferred(r))
<1>1. /\ EntAt(Unreferred(r), SetFor(old)', Holders("client", old)')
      /\ \/ Unreferred(r) = NoEntry /\ Holders("client", old)' = {}
         \/ /\ Unreferred(r).insecure = r.insecure /\ Unreferred(r).hostname = r.hostname
            /\ Unreferred(r).pins = r.pins /\ Unreferred(r).data = r.data
  <2> DEFINE At == SetFor(old)
             H == Holders("client", old)
             B == SetFor(old)'
             K == Holders("client", old)'
  <2>1. /\ EntAt(r, At, H)
        /\ \/ B = At /\ \E x \in H : K = H \ {x}
           \/ K = H /\ \E x \in At : B = At \ {x}
    BY Zenon
  <2> HIDE DEF At, H, B, K
  <2>2. /\ EntAt(Unreferred(r), B, K)
        /\ \/ Unreferred(r) = NoEntry /\ K = {}
           \/ /\ Unreferred(r).insecure = r.insecure /\ Unreferred(r).hostname = r.hostname
              /\ Unreferred(r).pins = r.pins /\ Unreferred(r).data = r.data
    BY <2>1, UnreferKeeps
  <2> QED
    BY Zenon, <2>2 DEF B, K
<1>2. Vouched(Unreferred(r), Unreferred(r).data)
  <2>1. NoEntry.data = NoData
    BY DEF NoEntry
  <2>2. CASE Unreferred(r) = NoEntry
    BY Zenon, <2>1, <2>2 DEF Vouched
  <2>3. CASE /\ Unreferred(r).insecure = r.insecure /\ Unreferred(r).hostname = r.hostname
             /\ Unreferred(r).pins = r.pins /\ Unreferred(r).data = r.data
    <3>1. Vouched(Unreferred(r), r.data) <=> Vouched(r, r.data)
      BY Zenon, <2>3, SameVerdict
    <3> QED
      BY Zenon, <2>3, <3>1
  <2> QED
    BY Zenon, <1>1, <2>2, <2>3
<1> QED
  BY Zenon, <1>1, <1>2 DEF Fine

\* When all entries are fine and the contexts keep what they hold, the
\* targets' side of the invariant is kept.
LEMMA FineKeeps ==
  ASSUME AuthInv, entries' \in [Entries -> EntryType],
         params' \in [Addrs -> Entries \cup {None}],
         \A e \in Entries : Fine(e, entries'[e]),
         ctx' \in [Sessions -> CtxType],
         \A s \in Sessions : ctx'[s] = ctx[s] \/ CtxAt(entries', ctx'[s])
  PROVE  EntriesInv' /\ DataInv'
<1>1. EntriesInv'
  BY Zenon DEF Fine, AuthInv, EntriesInv
<1>2. ASSUME NEW s \in Sessions
      PROVE  CtxAt(entries', ctx'[s])
  <2>1. CASE CtxAt(entries', ctx'[s])
    BY <2>1
  <2>2. CASE ctx'[s] = ctx[s] /\ ctx[s].side # "client"
    BY Zenon, <2>2 DEF AuthInv, DataInv, CtxAt
  <2>3. CASE ctx'[s] = ctx[s] /\ ctx[s].side = "client"
    <3>1. CtxAt(entries, ctx[s])
      BY Zenon DEF AuthInv, DataInv
    <3>2. PICK e \in Entries : e = ctx[s].holds
      BY Zenon, <2>3, <3>1 DEF CtxAt
    <3>3. s \in Holders("client", e)'
      BY Zenon, <2>3, <3>2 DEF Holders
    <3>4. Holders("client", e)' # {}
      BY <3>3
    <3>5. /\ entries'[e].insecure = entries[e].insecure
          /\ entries'[e].hostname = entries[e].hostname /\ entries'[e].pins = entries[e].pins
      BY Zenon, <3>4 DEF Fine
    <3>6. CtxAt(entries', ctx[s])
      BY Zenon, <3>1, <3>2, <3>5, CtxKept
    <3> QED
      BY Zenon, <2>3, <3>6
  <2> QED
    BY Zenon, <2>1, <2>2, <2>3
<1>3. DataInv'
  BY Zenon, <1>2 DEF Fine, DataInv
<1> QED
  BY Zenon, <1>1, <1>3

\* Address a is given the entry new, or none, and its old one loses a
\* reference.
LEMMA ReplaceKeeps ==
  ASSUME AuthInv, NEW a \in Addrs, NEW old \in Entries \cup {None}, params[a] = old,
         NEW new \in Entries \cup {None}, new # old, NEW tab \in [Entries -> EntryType],
         params' = [params EXCEPT ![a] = new], UNCHANGED <<credentials, net_credentials, ctx>>,
         entries' = tls_client_param_unref(tab, old),
         \A e \in Entries : e # new => tab[e] = entries[e],
         new \in Entries => Fine(new, tab[new])
  PROVE  AuthInv'
<1>1. /\ None \notin Entries
      /\ entries \in [Entries -> EntryType] /\ params \in [Addrs -> Entries \cup {None}]
      /\ \A e \in Entries : EntAt(entries[e], SetFor(e), Holders("client", e))
      /\ \A e \in Entries : Vouched(entries[e], entries[e].data)
      /\ ctx \in [Sessions -> CtxType]
  BY Zenon DEF AuthInv, EntriesInv, DataInv
<1>2. \A side, x : Holders(side, x)' = Holders(side, x)
  BY Stays
<1>3. \A e : e # new => SetFor(e)' = SetFor(e) \ {a} /\ (a \in SetFor(e) <=> e = old)
  BY Zenon, AddressStep DEF AuthInv
<1>4. ASSUME NEW e \in Entries, e # new, e # old
      PROVE  Fine(e, tab[e])
  <2>1. SetFor(e)' = SetFor(e)
    BY <1>3, <1>4
  <2>2. tab[e] = entries[e] /\ Holders("client", e)' = Holders("client", e)
    BY Zenon, <1>2, <1>4
  <2> QED
    BY Zenon, <1>1, <2>1, <2>2 DEF Fine
<1>5. params' \in [Addrs -> Entries \cup {None}]
  BY Zenon, <1>1
<1>6. /\ entries' \in [Entries -> EntryType]
      /\ \A e \in Entries : Fine(e, entries'[e])
  <2>1. CASE old = None
    <3>1. entries' = tab
      BY Zenon, <2>1 DEF tls_client_param_unref
    <3>2. \A e \in Entries : e # old
      BY <1>1, <2>1
    <3> QED
      BY Zenon, <1>4, <3>1, <3>2
  <2>2. CASE old \in Entries
    <3>1. entries' = [tab EXCEPT ![old] = Unreferred(tab[old])]
      BY Zenon, <1>1, <2>2, UnrefOne
    <3>2. tab[old] = entries[old]
      BY Zenon, <2>2
    <3>3. a \in SetFor(old) /\ SetFor(old)' = SetFor(old) \ {a}
      BY Zenon, <1>3
    <3>4. Fine(old, Unreferred(tab[old]))
      <4>1. Holders("client", old)' = Holders("client", old)
        BY Zenon, <1>2
      <4>2. EntAt(tab[old], SetFor(old), Holders("client", old)) /\ Vouched(tab[old], tab[old].data)
        BY Zenon, <1>1, <2>2, <3>2
      <4> QED
        BY <2>2, <3>2, <3>3, <4>1, <4>2, UnrefFine
    <3>5. Unreferred(tab[old]) \in EntryType
      BY Zenon, <3>4 DEF Fine, EntAt
    <3>6. entries' \in [Entries -> EntryType]
      BY Zenon, <2>2, <3>1, <3>5
    <3>7. \A e \in Entries : Fine(e, entries'[e])
      BY Zenon, <1>4, <2>2, <3>1, <3>4
    <3> QED
      BY Zenon, <3>6, <3>7
  <2> QED
    BY Zenon, <2>1, <2>2
<1>7. EntriesInv' /\ DataInv'
  <2>1. ctx' = ctx
    OBVIOUS
  <2> QED
    BY Zenon, <1>1, <1>5, <1>6, <2>1, FineKeeps
<1>8. CredsInv(credentials, net_credentials)'
  BY Zenon, <1>2, CredsKept DEF AuthInv
<1> QED
  BY Zenon, <1>7, <1>8 DEF AuthInv

\* net.tls_client_clear()
LEMMA ClearKeeps ==
  ASSUME AuthInv, NEW a \in Addrs, net_tls_client_clear(a)
  PROVE  AuthInv'
<1>1. /\ None \notin Entries
      /\ entries \in [Entries -> EntryType] /\ params \in [Addrs -> Entries \cup {None}]
  BY Zenon DEF AuthInv, EntriesInv
<1>2. PICK old \in Entries : params[a] = old
  BY Zenon, <1>1 DEF net_tls_client_clear
<1>3. old # None /\ None \notin Entries
  BY <1>1, <1>2
<1>4. /\ params' = [params EXCEPT ![a] = None]
      /\ UNCHANGED <<credentials, net_credentials, ctx>>
      /\ entries' = tls_client_param_unref(entries, old)
  BY Zenon, <1>2 DEF net_tls_client_clear
<1> QED
  BY Zenon, <1>1, <1>2, <1>3, <1>4, ReplaceKeeps

\* net.tls_client(): the new entry starts without session data.
LEMMA ConfigureKeeps ==
  ASSUME AuthInv, NEW a \in Addrs, NEW cfg \in Configs, net_tls_client(a, cfg)
  PROVE  AuthInv'
<1>1. /\ entries \in [Entries -> EntryType] /\ params \in [Addrs -> Entries \cup {None}]
      /\ \A e \in Entries : EntAt(entries[e], SetFor(e), Holders("client", e))
  BY Zenon DEF AuthInv, EntriesInv
<1> DEFINE r == [live |-> TRUE, refs |-> 1, insecure |-> cfg.insecure,
                 hostname |-> cfg.hostname, pins |-> cfg.pins, data |-> NoData]
<1>2. PICK new \in Unused(entries) :
        /\ entries' = tls_client_param_unref([entries EXCEPT ![new] = r], params[a])
        /\ params' = [params EXCEPT ![a] = new]
  BY Zenon DEF net_tls_client
<1>3. PICK old \in Entries \cup {None} : params[a] = old
  BY Zenon, <1>1
<1>4. UNCHANGED <<credentials, net_credentials, ctx>>
  BY Zenon DEF net_tls_client
<1>5. /\ r \in EntryType /\ r.live = TRUE /\ r.refs = 1 /\ r.data = NoData
  <2>1. /\ cfg.insecure \in {FALSE} \cup {c.insecure : c \in Configs}
        /\ cfg.hostname \in {None} \cup {c.hostname : c \in Configs}
        /\ cfg.pins \in {{}} \cup {c.pins : c \in Configs}
        /\ NoData \in {NoData} \cup Chains
    BY Zenon
  <2>2. TRUE \in BOOLEAN /\ 1 \in Int
    OBVIOUS
  <2> QED
    BY Zenon, <2>1, <2>2 DEF EntryType
<1> HIDE DEF r
<1>6. new \in Entries /\ entries[new].live # TRUE
  BY Zenon, <1>1 DEF Unused
<1>7. SetFor(new) = {} /\ Holders("client", new) = {}
  BY Zenon, <1>1, <1>6 DEF EntAt
<1>8. new # old
  <2>1. a \notin SetFor(new)
    BY <1>7
  <2> QED
    BY Zenon, <1>3, <2>1 DEF SetFor
<1> DEFINE tab == [entries EXCEPT ![new] = r]
<1>9. /\ tab \in [Entries -> EntryType] /\ tab[new] = r
      /\ \A e \in Entries : e # new => tab[e] = entries[e]
  BY Zenon, <1>1, <1>5, <1>6
<1>10. Fine(new, r)
  <2>1. SetFor(new)' = {a}
    <3>1. SetFor(new)' = SetFor(new) \cup {a}
      BY Zenon, <1>2, AddressStep DEF AuthInv
    <3> QED  BY <1>7, <3>1
  <2>2. Holders("client", new)' = {}
    <3>1. Holders("client", new)' = Holders("client", new)
      BY <1>4, Stays
    <3> QED  BY Zenon, <1>7, <3>1
  <2>3. /\ IsFiniteSet({a}) /\ IsFiniteSet({}) /\ Cardinality({a}) = 1 /\ Cardinality({}) = 0
    BY FS_EmptySet, FS_Singleton
  <2>4. r.refs = Cardinality({a}) + Cardinality({})
    BY <1>5, <2>3
  <2>5. EntAt(r, {a}, {})
    BY Zenon, <1>5, <2>3, <2>4 DEF EntAt
  <2> QED
    BY Zenon, <1>5, <2>1, <2>2, <2>5 DEF Fine, Vouched
<1>11. entries' = tls_client_param_unref(tab, old)
  BY Zenon, <1>2, <1>3
<1> HIDE DEF tab
<1> QED
  BY <1>2, <1>3, <1>4, <1>6, <1>8, <1>9, <1>10, <1>11, ReplaceKeeps

\* tls_client_ctx_new() takes a reference for its session.
LEMMA CtxNewKeeps ==
  ASSUME AuthInv, NEW s \in Sessions, NEW a \in Addrs, tls_client_ctx_new(s, a)
  PROVE  AuthInv'
<1>1. /\ entries \in [Entries -> EntryType] /\ params \in [Addrs -> Entries \cup {None}]
      /\ \A e \in Entries : EntAt(entries[e], SetFor(e), Holders("client", e))
      /\ \A e \in Entries : Vouched(entries[e], entries[e].data)
      /\ ctx \in [Sessions -> CtxType]
  BY Zenon DEF AuthInv, EntriesInv, DataInv
<1>2. PICK e \in Entries : params[a] = e
  BY Zenon, <1>1 DEF tls_client_ctx_new
<1> DEFINE n == [NoCtx EXCEPT !.side = "client", !.holds = e]
           q == [entries[e] EXCEPT !.refs = @ + 1]
<1>3. /\ ctx[s] = NoCtx /\ entries' = [entries EXCEPT ![e] = q] /\ ctx' = [ctx EXCEPT ![s] = n]
      /\ UNCHANGED <<credentials, net_credentials, params>>
  BY Zenon, <1>2 DEF tls_client_ctx_new
<1>4. n \in CtxType /\ n.side = "client" /\ n.holds = e /\ n.side # None
      /\ n.offered = NoData /\ n.hs # "TLS_HS_DONE"
  BY DEF NoCtx, CtxType, None
<1> HIDE DEF n
<1>5. /\ s \notin Holders("client", e)
      /\ Holders("client", e)' = Holders("client", e) \cup {s}
      /\ \A x : x # e => Holders("client", x)' = Holders("client", x)
      /\ \A x : Holders("server", x)' = Holders("server", x)
  BY <1>1, <1>3, <1>4, Joins
<1>6. \A x : SetFor(x)' = SetFor(x)
  BY <1>3 DEF SetFor
<1>7. EntAt(q, SetFor(e)', Holders("client", e)')
  <2>1. EntAt(entries[e], SetFor(e), Holders("client", e))
    BY Zenon, <1>1
  <2>2. entries[e].live = TRUE
    <3>1. a \in SetFor(e)
      BY Zenon, <1>2 DEF SetFor
    <3>2. SetFor(e) # {}
      BY <3>1
    <3> QED  BY Zenon, <2>1, <3>2 DEF EntAt
  <2>3. EntAt(q, SetFor(e), Holders("client", e) \cup {s})
    BY Zenon, <1>5, <2>1, <2>2, ReferKeeps
  <2> QED
    BY Zenon, <1>5, <1>6, <2>3
<1>8. /\ q \in EntryType /\ q.insecure = entries[e].insecure /\ q.hostname = entries[e].hostname
      /\ q.pins = entries[e].pins /\ q.data = entries[e].data
  <2>1. entries[e] \in EntryType
    BY Zenon, <1>1
  <2>2. entries[e].refs \in Int
    <3>1. 0 \in Int
      OBVIOUS
    <3> QED  BY Zenon, <2>1, <3>1, Recounted DEF EntryType
  <2>3. entries[e].refs + 1 \in Int
    BY <2>2
  <2> QED
    BY Zenon, <2>1, <2>3, Recounted DEF EntryType
<1> HIDE DEF q
<1>9. entries' \in [Entries -> EntryType] /\ entries'[e] = q
      /\ \A x \in Entries : x # e => entries'[x] = entries[x]
  BY Zenon, <1>1, <1>3, <1>8
<1>10. Fine(e, q)
  <2>1. Vouched(q, q.data)
    <3>1. Vouched(q, entries[e].data) <=> Vouched(entries[e], entries[e].data)
      BY Zenon, <1>8, SameVerdict
    <3> QED  BY Zenon, <1>1, <1>8, <3>1
  <2> QED
    BY Zenon, <1>7, <1>8, <2>1 DEF Fine
<1>11. ASSUME NEW x \in Entries
       PROVE  Fine(x, entries'[x])
  <2>1. CASE x = e
    BY Zenon, <1>9, <1>10, <2>1
  <2>2. CASE x # e
    BY Zenon, <1>1, <1>5, <1>6, <1>9, <2>2 DEF Fine
  <2> QED  BY Zenon, <2>1, <2>2
<1>12. /\ ctx' \in [Sessions -> CtxType]
       /\ \A z \in Sessions : ctx'[z] = ctx[z] \/ CtxAt(entries', ctx'[z])
  <2>1. CtxAt(entries', n)
    BY <1>4 DEF CtxAt, Vouched
  <2> QED
    BY Zenon, <1>1, <1>3, <1>4, <2>1
<1>13. EntriesInv' /\ DataInv'
  <2>1. params' \in [Addrs -> Entries \cup {None}]
    BY Zenon, <1>1, <1>3
  <2> QED
    BY Zenon, <1>9, <1>11, <1>12, <2>1, FineKeeps
<1>14. CredsInv(credentials, net_credentials)'
  BY Zenon, <1>3, <1>5, CredsKept DEF AuthInv
<1> QED
  BY Zenon, <1>13, <1>14 DEF AuthInv

\* tls_client_ctx_free() gives it back.
LEMMA CtxFreeKeeps ==
  ASSUME AuthInv, NEW s \in Sessions, tls_client_ctx_free(s)
  PROVE  AuthInv'
<1>1. /\ None \notin Entries
      /\ entries \in [Entries -> EntryType] /\ params \in [Addrs -> Entries \cup {None}]
      /\ \A e \in Entries : EntAt(entries[e], SetFor(e), Holders("client", e))
      /\ \A e \in Entries : Vouched(entries[e], entries[e].data)
      /\ ctx \in [Sessions -> CtxType] /\ CtxAt(entries, ctx[s])
  BY Zenon DEF AuthInv, EntriesInv, DataInv
<1>2. ctx[s].side = "client"
  BY Zenon DEF tls_client_ctx_free
<1>3. PICK e \in Entries : ctx[s].holds = e
  BY Zenon, <1>1, <1>2 DEF CtxAt
<1>4. /\ entries' = tls_client_param_unref(entries, e) /\ ctx' = [ctx EXCEPT ![s] = NoCtx]
      /\ UNCHANGED <<credentials, net_credentials, params>>
  BY Zenon, <1>3 DEF tls_client_ctx_free
<1>5. \A side \in {"server", "client"} : \A x :
        /\ Holders(side, x)' = Holders(side, x) \ {s}
        /\ s \in Holders(side, x) <=> (side = "client" /\ x = e)
  BY Zenon, <1>1, <1>2, <1>3, <1>4, Departs
<1>6. /\ \A x : Holders("server", x)' = Holders("server", x)
      /\ \A x : x # e => Holders("client", x)' = Holders("client", x)
      /\ s \in Holders("client", e) /\ Holders("client", e)' = Holders("client", e) \ {s}
  BY <1>5
<1>7. \A x : SetFor(x)' = SetFor(x)
  BY <1>4 DEF SetFor
<1>8. entries' = [entries EXCEPT ![e] = Unreferred(entries[e])]
  BY Zenon, <1>1, <1>4, UnrefOne
<1>9. Fine(e, Unreferred(entries[e]))
  <2>1. /\ EntAt(entries[e], SetFor(e), Holders("client", e)) /\ Vouched(entries[e], entries[e].data)
        /\ SetFor(e)' = SetFor(e)
    BY Zenon, <1>1, <1>7
  <2> QED
    BY <1>6, <2>1, UnrefFine
<1>10. Unreferred(entries[e]) \in EntryType
  BY Zenon, <1>9 DEF Fine, EntAt
<1>11. entries' \in [Entries -> EntryType]
  BY Zenon, <1>1, <1>8, <1>10
<1>12. ASSUME NEW x \in Entries
       PROVE  Fine(x, entries'[x])
  <2>1. CASE x = e
    BY Zenon, <1>1, <1>8, <1>9, <2>1
  <2>2. CASE x # e
    <3>1. entries'[x] = entries[x]
      BY Zenon, <1>1, <1>8, <2>2
    <3> QED
      BY Zenon, <1>1, <1>6, <1>7, <2>2, <3>1 DEF Fine
  <2> QED  BY Zenon, <2>1, <2>2
<1>13. /\ ctx' \in [Sessions -> CtxType]
       /\ \A z \in Sessions : ctx'[z] = ctx[z] \/ CtxAt(entries', ctx'[z])
  <2>1. NoCtx \in CtxType /\ CtxAt(entries', NoCtx)
    BY DEF NoCtx, None, CtxType, CtxAt
  <2> QED
    BY Zenon, <1>1, <1>4, <2>1
<1>14. EntriesInv' /\ DataInv'
  <2>1. params' \in [Addrs -> Entries \cup {None}]
    BY Zenon, <1>1, <1>4
  <2> QED
    BY Zenon, <1>11, <1>12, <1>13, <2>1, FineKeeps
<1>15. CredsInv(credentials, net_credentials)'
  BY Zenon, <1>4, <1>6, CredsKept DEF AuthInv
<1> QED
  BY Zenon, <1>14, <1>15 DEF AuthInv

\* A context further on in its handshake.
Started(x, d) == [x EXCEPT !.hs = "TLS_HS_IN_PROGRESS", !.offered = d]
Done(x, d) == [x EXCEPT !.hs = "TLS_HS_DONE", !.chain = d]

\* What changed in it.
LEMMA HandshakeStep ==
  ASSUME NEW x \in CtxType, NEW d \in {NoData} \cup Chains
  PROVE  /\ Started(x, d) \in CtxType
         /\ Started(x, d).side = x.side /\ Started(x, d).holds = x.holds
         /\ Started(x, d).hs = "TLS_HS_IN_PROGRESS" /\ Started(x, d).offered = d
         /\ Done(x, d) \in CtxType
         /\ Done(x, d).side = x.side /\ Done(x, d).holds = x.holds
         /\ Done(x, d).offered = x.offered /\ Done(x, d).chain = d
         /\ x.offered \in {NoData} \cup Chains
<1>1. {"TLS_HS_IN_PROGRESS", "TLS_HS_DONE"} \subseteq
        {"TLS_HS_NOT_STARTED", "TLS_HS_IN_PROGRESS", "TLS_HS_DONE"}
  OBVIOUS
<1>2. /\ Started(x, d) \in CtxType
      /\ Started(x, d).side = x.side /\ Started(x, d).holds = x.holds
      /\ Started(x, d).hs = "TLS_HS_IN_PROGRESS" /\ Started(x, d).offered = d
  BY Zenon, <1>1 DEF CtxType, Started
<1>3. /\ Done(x, d) \in CtxType
      /\ Done(x, d).side = x.side /\ Done(x, d).holds = x.holds
      /\ Done(x, d).offered = x.offered /\ Done(x, d).chain = d
  BY Zenon, <1>1 DEF CtxType, Done
<1>4. x.offered \in {NoData} \cup Chains
  BY Zenon DEF CtxType
<1> QED
  BY Zenon, <1>2, <1>3, <1>4

\* A record like those of Entries, with other session data.
LEMMA DataStep ==
  ASSUME NEW I, NEW N, NEW P, NEW D,
         NEW r \in [live : BOOLEAN, refs : Int, insecure : I, hostname : N, pins : P, data : D],
         NEW d \in D
  PROVE  /\ [r EXCEPT !.data = d] \in
              [live : BOOLEAN, refs : Int, insecure : I, hostname : N, pins : P, data : D]
         /\ [r EXCEPT !.data = d].live = r.live /\ [r EXCEPT !.data = d].refs = r.refs
         /\ [r EXCEPT !.data = d].insecure = r.insecure
         /\ [r EXCEPT !.data = d].hostname = r.hostname
         /\ [r EXCEPT !.data = d].pins = r.pins /\ [r EXCEPT !.data = d].data = d
BY Zenon

\* A handshake goes on for session s, whose context becomes n; the session
\* data of the entry e it holds becomes d.
Shake(s, e, n, d) ==
  /\ ctx[s].side = "client" /\ ctx[s].holds = e
  /\ n.side = "client" /\ n.holds = e /\ ctx' = [ctx EXCEPT ![s] = n]
  /\ UNCHANGED <<credentials, net_credentials, params>>
  /\ entries' = [entries EXCEPT ![e] = [entries[e] EXCEPT !.data = d]]
  /\ Vouched(entries[e], d) /\ Vouched(entries[e], n.offered)
  /\ n.hs = "TLS_HS_DONE" => client_verify_certificate(entries[e], n.chain)

\* It keeps the invariant.
LEMMA ShakeKeeps ==
  ASSUME AuthInv, NEW s \in Sessions, NEW e \in Entries, NEW n \in CtxType,
         NEW d \in {NoData} \cup Chains, Shake(s, e, n, d)
  PROVE  AuthInv'
<1>1. /\ entries \in [Entries -> EntryType] /\ params \in [Addrs -> Entries \cup {None}]
      /\ \A x \in Entries : EntAt(entries[x], SetFor(x), Holders("client", x))
      /\ \A x \in Entries : Vouched(entries[x], entries[x].data)
      /\ ctx \in [Sessions -> CtxType]
  BY Zenon DEF AuthInv, EntriesInv, DataInv
<1>2. ctx'[s] = n /\ \A z \in Sessions : z # s => ctx'[z] = ctx[z]
  BY Zenon, <1>1 DEF Shake
<1>3. \A side, x : Holders(side, x)' = Holders(side, x)
  <2>1. \A z \in Sessions : ctx'[z].side = ctx[z].side /\ ctx'[z].holds = ctx[z].holds
    BY Zenon, <1>2 DEF Shake
  <2> QED  BY Zenon, <2>1, Stays
<1>4. \A x : SetFor(x)' = SetFor(x)
  BY DEF SetFor, Shake
<1> DEFINE q == [entries[e] EXCEPT !.data = d]
<1>5. /\ q \in EntryType /\ q.live = entries[e].live /\ q.refs = entries[e].refs
      /\ q.insecure = entries[e].insecure /\ q.hostname = entries[e].hostname
      /\ q.pins = entries[e].pins /\ q.data = d
  <2>1. entries[e] \in EntryType
    BY Zenon, <1>1
  <2> QED
    BY Zenon, <2>1, DataStep DEF EntryType
<1> HIDE DEF q
<1>6. /\ entries' \in [Entries -> EntryType] /\ entries'[e] = q
      /\ \A x \in Entries : x # e => entries'[x] = entries[x]
  BY Zenon, <1>1, <1>5 DEF q, Shake
<1>7. Fine(e, q)
  <2>1. Vouched(q, d) <=> Vouched(entries[e], d)
    BY Zenon, <1>5, SameVerdict
  <2>2. EntAt(q, SetFor(e), Holders("client", e))
    BY Zenon, <1>1, <1>5 DEF EntAt
  <2> QED
    BY Zenon, <1>3, <1>4, <1>5, <2>1, <2>2 DEF Fine, Shake
<1>8. ASSUME NEW x \in Entries
      PROVE  Fine(x, entries'[x])
  <2>1. CASE x = e
    BY Zenon, <1>6, <1>7, <2>1
  <2>2. CASE x # e
    BY Zenon, <1>1, <1>3, <1>4, <1>6, <2>2 DEF Fine
  <2> QED  BY Zenon, <2>1, <2>2
<1>9. CtxAt(entries', n)
  <2>1. CtxAt(entries, n)
    BY Zenon DEF CtxAt, Shake
  <2>2. /\ entries'[n.holds].insecure = entries[n.holds].insecure
        /\ entries'[n.holds].hostname = entries[n.holds].hostname
        /\ entries'[n.holds].pins = entries[n.holds].pins
    BY Zenon, <1>5, <1>6 DEF Shake
  <2> QED
    BY Zenon, <2>1, <2>2, CtxKept
<1>10. /\ ctx' \in [Sessions -> CtxType]
       /\ \A z \in Sessions : ctx'[z] = ctx[z] \/ CtxAt(entries', ctx'[z])
  BY Zenon, <1>1, <1>2, <1>9 DEF Shake
<1>11. EntriesInv' /\ DataInv'
  <2>1. params' \in [Addrs -> Entries \cup {None}]
    BY Zenon, <1>1 DEF Shake
  <2> QED
    BY Zenon, <1>6, <1>8, <1>10, <2>1, FineKeeps
<1>12. CredsInv(credentials, net_credentials)'
  BY Zenon, <1>3, CredsKept DEF AuthInv, Shake
<1> QED
  BY Zenon, <1>11, <1>12 DEF AuthInv

\* The start of a handshake and its two ends.
LEMMA HandshakeKeeps ==
  ASSUME AuthInv, NEW s \in Sessions,
         \/ tls_client_connect_start(s) \/ HandshakeResumed(s)
         \/ \E chain \in Chains : HandshakeFull(s, chain)
  PROVE  AuthInv'
<1>1. /\ entries \in [Entries -> EntryType] /\ CtxAt(entries, ctx[s]) /\ ctx[s] \in CtxType
      /\ \A e \in Entries : Vouched(entries[e], entries[e].data)
      /\ ctx \in [Sessions -> CtxType]
  BY Zenon DEF AuthInv, EntriesInv, DataInv
<1>2. ctx[s].side = "client"
  BY Zenon DEF tls_client_connect_start, HandshakeResumed, HandshakeFull
<1>3. PICK e \in Entries : ctx[s].holds = e
  BY Zenon, <1>1, <1>2 DEF CtxAt
<1>4. "TLS_HS_IN_PROGRESS" # "TLS_HS_DONE"
  OBVIOUS
<1>5. Vouched(entries[e], ctx[s].offered) /\ ctx[s].offered \in {NoData} \cup Chains
  BY Zenon, <1>1, <1>2, <1>3, HandshakeStep, NoData \in {NoData} \cup Chains DEF CtxAt
<1>6. PICK d \in {NoData} \cup Chains : d = entries[e].data
  BY Zenon, <1>1 DEF EntryType
<1>7. Vouched(entries[e], d)
  BY Zenon, <1>1, <1>6
<1>8. entries = [entries EXCEPT ![e] = [entries[e] EXCEPT !.data = d]]
  <2>1. entries[e] \in EntryType
    BY Zenon, <1>1
  <2>2. [entries[e] EXCEPT !.data = d] = entries[e]
    BY Zenon, <1>6, <2>1 DEF EntryType
  <2> QED
    BY Zenon, <1>1, <2>2
<1>9. UNCHANGED <<credentials, net_credentials, params>>
  BY DEF tls_client_connect_start, HandshakeResumed, HandshakeFull
<1>10. CASE tls_client_connect_start(s)
  <2>1. ctx' = [ctx EXCEPT ![s] = Started(ctx[s], d)]
    BY Zenon, <1>3, <1>6, <1>10 DEF tls_client_connect_start, Started
  <2>2. PICK n \in CtxType :
          /\ n = Started(ctx[s], d)
          /\ n.side = ctx[s].side /\ n.holds = ctx[s].holds
          /\ n.hs = "TLS_HS_IN_PROGRESS" /\ n.offered = d
    BY Zenon, <1>1, HandshakeStep
  <2>3. entries' = [entries EXCEPT ![e] = [entries[e] EXCEPT !.data = d]]
    BY Zenon, <1>8, <1>10 DEF tls_client_connect_start
  <2>9. Shake(s, e, n, d)
    BY Zenon, <1>2, <1>3, <1>4, <1>7, <1>9, <2>1, <2>2, <2>3 DEF Shake
  <2> QED
    BY Zenon, <2>9, ShakeKeeps
<1>11. CASE HandshakeResumed(s)
  <2>1. PICK n \in CtxType :
          /\ n = Done(ctx[s], ctx[s].offered)
          /\ n.side = ctx[s].side /\ n.holds = ctx[s].holds
          /\ n.offered = ctx[s].offered /\ n.chain = ctx[s].offered
    BY Zenon, <1>1, <1>5, HandshakeStep
  <2>2. ctx' = [ctx EXCEPT ![s] = n] /\ ctx[s].offered # NoData
    BY Zenon, <1>11, <2>1 DEF HandshakeResumed, Done
  <2>3. entries' = [entries EXCEPT ![e] = [entries[e] EXCEPT !.data = d]]
    BY Zenon, <1>8, <1>11 DEF HandshakeResumed
  <2>4. client_verify_certificate(entries[e], n.chain)
    BY Zenon, <1>5, <2>1, <2>2 DEF Vouched
  <2>9. Shake(s, e, n, d)
    BY Zenon, <1>2, <1>3, <1>5, <1>7, <1>9, <2>1, <2>2, <2>3, <2>4 DEF Shake
  <2> QED
    BY Zenon, <2>9, ShakeKeeps
<1>12. CASE \E chain \in Chains : HandshakeFull(s, chain)
  <2>1. PICK chain \in Chains : HandshakeFull(s, chain)
    BY Zenon, <1>12
  <2>2. client_verify_certificate(entries[e], chain)
    BY Zenon, <1>3, <2>1 DEF HandshakeFull
  <2>3. PICK data \in {chain, NoData} : entries' = [entries EXCEPT ![e].data = data]
    BY Zenon, <1>3, <2>1 DEF HandshakeFull
  <2>4. PICK n \in CtxType :
          /\ n = Done(ctx[s], chain)
          /\ n.side = ctx[s].side /\ n.holds = ctx[s].holds
          /\ n.offered = ctx[s].offered /\ n.chain = chain
    BY Zenon, <1>1, HandshakeStep, chain \in {NoData} \cup Chains
  <2>5. ctx' = [ctx EXCEPT ![s] = n]
    BY Zenon, <2>1, <2>4 DEF HandshakeFull, Done
  <2>6. data \in {NoData} \cup Chains /\ Vouched(entries[e], data)
    BY Zenon, <2>2, <2>3 DEF Vouched
  <2>9. Shake(s, e, n, data)
    BY Zenon, <1>2, <1>3, <1>5, <1>9, <2>2, <2>3, <2>4, <2>5, <2>6 DEF Shake
  <2> QED
    BY Zenon, <2>9, ShakeKeeps, <2>6
<1> QED
  BY Zenon, <1>10, <1>11, <1>12

-----------------------------------------------------------------------------
(* The theorems                                                            *)

\* No credentials, no entries and no contexts.
LEMMA AuthInit ==
  ASSUME None \notin Credentials, None \notin Entries, Init
  PROVE  AuthInv
<1>1. /\ NoCtx \in CtxType /\ NoCtx.side = None /\ NoCtx.side # "server"
      /\ NoCtx.side # "client"
  BY DEF NoCtx, CtxType, None
<1>2. /\ NoCredentials \in CredentialsType /\ NoCredentials.live = FALSE
      /\ NoEntry.live = FALSE /\ NoEntry.refs = 0 /\ NoEntry.data = NoData
      /\ NoEntry \in EntryType
  BY DEF NoCredentials, CredentialsType, NoEntry, EntryType
<1>3. \A side \in {"server", "client"} : \A x : Holders(side, x) = {}
  BY <1>1 DEF Init, Holders
<1>4. \A e \in Entries : SetFor(e) = {}
  BY DEF Init, SetFor
<1>5. IsFiniteSet({}) /\ Cardinality({}) = 0 /\ Cardinality({}) + Cardinality({}) = 0
  BY FS_EmptySet
<1>6. /\ credentials = [c \in Credentials |-> NoCredentials] /\ net_credentials = None
      /\ entries = [e \in Entries |-> NoEntry] /\ params = [a \in Addrs |-> None]
      /\ ctx = [s \in Sessions |-> NoCtx]
  BY Zenon DEF Init
<1>7. CredsInv(credentials, net_credentials)
  <2>1. \A c \in Credentials : c # net_credentials /\ credentials[c] = NoCredentials
    BY <1>6
  <2>2. \A c \in Credentials : CredAt(credentials[c], c = net_credentials, Holders("server", c))
    BY Zenon, <1>2, <1>3, <1>5, <2>1 DEF CredAt
  <2> QED
    BY Zenon, <1>2, <1>6, <2>2 DEF CredsInv
<1>8. EntriesInv
  BY Zenon, <1>2, <1>3, <1>4, <1>5, <1>6 DEF EntriesInv, EntAt
<1>9. DataInv
  BY Zenon, <1>1, <1>2, <1>6 DEF DataInv, CtxAt, Vouched
<1> QED
  BY Zenon, <1>7, <1>8, <1>9 DEF AuthInv

\* Every step of TlsAuth keeps the invariant.
LEMMA AuthNext == AuthInv /\ [Next]_vars => AuthInv'
<1> SUFFICES ASSUME AuthInv, [Next]_vars PROVE AuthInv'
  OBVIOUS
<1>1. CASE UNCHANGED vars
  <2>1. UNCHANGED <<credentials, net_credentials, entries, params, ctx>>
    BY <1>1 DEF vars
  <2>2. \A side, x : Holders(side, x)' = Holders(side, x)
    BY <2>1, Stays
  <2>3. EntriesInv' /\ CredsInv(credentials, net_credentials)'
    BY Zenon, <2>1, <2>2, EntriesKept, CredsKept DEF AuthInv
  <2>4. DataInv'
    BY Zenon, <2>1 DEF AuthInv, DataInv
  <2> QED
    BY Zenon, <2>3, <2>4 DEF AuthInv
<1>2. CASE tls_certificate_set \/ network_new_hostname
  BY Zenon, <1>2, SetKeeps
<1>3. CASE CredentialsExpire
  BY Zenon, <1>3, ExpireKeeps
<1>4. CASE \E a \in Addrs : net_tls_client_clear(a)
  BY Zenon, <1>4, ClearKeeps
<1>5. CASE \E a \in Addrs : \E cfg \in Configs : net_tls_client(a, cfg)
  BY Zenon, <1>5, ConfigureKeeps
<1>6. CASE \E s \in Sessions : tls_new(s)
  BY Zenon, <1>6, NewKeeps
<1>7. CASE \E s \in Sessions : tls_free(s)
  BY Zenon, <1>7, FreeKeeps
<1>8. CASE \E s \in Sessions : tls_client_ctx_free(s)
  BY Zenon, <1>8, CtxFreeKeeps
<1>9. CASE \E s \in Sessions : \E a \in Addrs : tls_client_ctx_new(s, a)
  BY Zenon, <1>9, CtxNewKeeps
<1>10. CASE \E s \in Sessions :
              \/ tls_client_connect_start(s) \/ HandshakeResumed(s)
              \/ \E chain \in Chains : HandshakeFull(s, chain)
  BY Zenon, <1>10, HandshakeKeeps
<1> QED
  BY Zenon, <1>1, <1>2, <1>3, <1>4, <1>5, <1>6, <1>7, <1>8, <1>9, <1>10 DEF Next

\* The invariant holds throughout.
THEOREM AuthInductive ==
  ASSUME None \notin Credentials, None \notin Entries
  PROVE  Spec => []AuthInv
<1>1. Init => AuthInv
  BY AuthInit
<1> QED
  BY <1>1, AuthNext, PTL DEF Spec

\* Credentials and parameters live exactly as long as struct network, an
\* address or a session needs them, and are counted right: neither a renewal
\* in tls_new() nor net.tls_client() frees what a session still uses, and what
\* nobody uses is freed.
THEOREM HeldAreAlive ==
  ASSUME None \notin Credentials, None \notin Entries
  PROVE  Spec => []HeldIsAlive
<1>1. AuthInv => HeldIsAlive
  <2> SUFFICES ASSUME AuthInv PROVE HeldIsAlive
    OBVIOUS
  <2>1. ASSUME NEW c \in Credentials
        PROVE  /\ credentials[c].live <=> (c = net_credentials \/ Holders("server", c) # {})
               /\ credentials[c].live => credentials[c].count =
                    Cardinality(Holders("server", c)) - (IF c = net_credentials THEN 0 ELSE 1)
    <3>1. CredAt(credentials[c], c = net_credentials, Holders("server", c))
      BY Zenon DEF AuthInv, CredsInv
    <3>2. credentials[c].live \in BOOLEAN
      BY <3>1 DEF CredAt, CredentialsType
    <3> QED
      BY <3>1, <3>2 DEF CredAt
  <2>2. ASSUME NEW e \in Entries
        PROVE  /\ entries[e].live <=> (SetFor(e) # {} \/ Holders("client", e) # {})
               /\ entries[e].refs = Cardinality(SetFor(e)) + Cardinality(Holders("client", e))
    <3>1. EntAt(entries[e], SetFor(e), Holders("client", e))
      BY Zenon DEF AuthInv, EntriesInv
    <3>2. entries[e].live \in BOOLEAN
      BY Zenon, <3>1 DEF EntAt, EntryType
    <3> QED
      BY <3>1, <3>2 DEF EntAt
  <2> QED
    BY Zenon, <2>1, <2>2 DEF HeldIsAlive, SetFor
<1> QED
  BY <1>1, AuthInductive, PTL

\* A client whose handshake is done, by session_tls_hs_cb() with a chain that
\* client_verify_certificate() accepted or by a resumption, talks to a target
\* that the parameters it holds accept, whatever was configured, replaced and
\* cleared since the session data was stored.
THEOREM PeersAreVerified ==
  ASSUME None \notin Credentials, None \notin Entries
  PROVE  Spec => []PeerIsVerified
<1>1. AuthInv => PeerIsVerified
  BY Zenon DEF AuthInv, DataInv, CtxAt, PeerIsVerified
<1> QED
  BY <1>1, AuthInductive, PTL
-----------------------------------------------------------------------------
(* The write callbacks of a connection, in module TlsStream: the requests  *)
(* libuv was handed and whose callback is to come are the ones that        *)
(* write_queue_size counts, however the socket cuts, fails or delays them. *)

CONSTANTS Records, MaxBytes
VARIABLES pushed, wire, uvq, written, write_queue_size, handshake_state, session, broken, reset
W == INSTANCE TlsStream

\* Some queue of requests.
IsQueue(q) == \E T : q \in Seq(T)

\* A request is in libuv's queue or waits for its callback, and is counted once.
CountInv ==
  /\ IsQueue(uvq) /\ written \in Nat
  /\ W!CallbacksFindContext

(* What the operations on a queue leave of its length.                     *)
LEMMA AppendIsQueue ==
  ASSUME NEW q, NEW x, IsQueue(q)
  PROVE  IsQueue(Append(q, x)) /\ Len(Append(q, x)) = Len(q) + 1 /\ Len(q) \in Nat
<1>1. PICK T : q \in Seq(T)
  BY Zenon DEF IsQueue
<1> DEFINE U == T \cup {x}
<1>2. q \in Seq(U) /\ x \in U
  BY SMTT(30), <1>1
<1> HIDE DEF U
<1>3. Append(q, x) \in Seq(U) /\ Len(Append(q, x)) = Len(q) + 1 /\ Len(q) \in Nat
  BY SMTT(30), <1>2
<1> QED
  BY Zenon, <1>3 DEF IsQueue

LEMMA TailIsQueue ==
  ASSUME NEW q, IsQueue(q), q # <<>>
  PROVE  IsQueue(Tail(q)) /\ Len(Tail(q)) = Len(q) - 1 /\ Len(q) \in Nat
<1>1. PICK T : q \in Seq(T)
  BY Zenon DEF IsQueue
<1>2. Tail(q) \in Seq(T) /\ Len(Tail(q)) = Len(q) - 1 /\ Len(q) \in Nat
  BY SMTT(30), <1>1
<1> QED
  BY Zenon, <1>2 DEF IsQueue

LEMMA FirstIsQueue ==
  ASSUME NEW q, NEW x, IsQueue(q), q # <<>>
  PROVE  IsQueue(<<x>> \o Tail(q)) /\ Len(<<x>> \o Tail(q)) = Len(q)
<1>1. PICK T : q \in Seq(T)
  BY Zenon DEF IsQueue
<1> DEFINE U == T \cup {x}
<1>2. q \in Seq(U) /\ <<x>> \in Seq(U)
  BY SMTT(30), <1>1
<1> HIDE DEF U
<1>3. Tail(q) \in Seq(U) /\ Len(Tail(q)) = Len(q) - 1 /\ Len(q) \in Nat
  BY SMTT(30), <1>2
<1>4. <<x>> \o Tail(q) \in Seq(U) /\ Len(<<x>> \o Tail(q)) = 1 + Len(Tail(q))
  BY SMTT(30), <1>2, <1>3
<1>5. Len(<<x>> \o Tail(q)) = Len(q)
  BY SMTT(30), <1>3, <1>4
<1> QED
  BY Zenon, <1>4, <1>5 DEF IsQueue

(* kres_gnutls_vec_push() hands over one request at most.                  *)
LEMMA PushCounts ==
  ASSUME CountInv, NEW lens, W!VecPush(lens)
  PROVE  IsQueue(uvq') /\ write_queue_size' = Len(uvq') + written
<1>1. \/ UNCHANGED <<uvq, write_queue_size>>
      \/ \E rest : uvq' = Append(uvq, rest) /\ write_queue_size' = write_queue_size + 1
  BY Zenon DEF W!VecPush, W!WriteAsync
<1>2. CASE UNCHANGED <<uvq, write_queue_size>>
  BY Zenon, <1>2 DEF CountInv, W!CallbacksFindContext
<1>3. ASSUME NEW rest, uvq' = Append(uvq, rest), write_queue_size' = write_queue_size + 1
      PROVE  IsQueue(uvq') /\ write_queue_size' = Len(uvq') + written
  <2>1. IsQueue(uvq') /\ Len(uvq') = Len(uvq) + 1 /\ Len(uvq) \in Nat
    BY Zenon, <1>3, AppendIsQueue DEF CountInv
  <2>2. written \in Nat /\ write_queue_size = Len(uvq) + written
    BY Zenon DEF CountInv, W!CallbacksFindContext
  <2> QED
    BY SMTT(30), <1>3, <2>1, <2>2
<1> QED
  BY Zenon, <1>1, <1>2, <1>3

\* The first request of the queue is through, or failed.
Through ==
  /\ uvq # <<>> /\ uvq' = Tail(uvq) /\ written' = written + 1
  /\ UNCHANGED <<write_queue_size, session>>

(* Its callback is to come.                                                *)
LEMMA ThroughCounts ==
  ASSUME CountInv, Through
  PROVE  CountInv'
<1>1. IsQueue(uvq') /\ Len(uvq') = Len(uvq) - 1 /\ Len(uvq) \in Nat
  BY Zenon, TailIsQueue DEF CountInv, Through
<1>2. written \in Nat /\ written' = written + 1
  BY Zenon DEF CountInv, Through
<1>3. written' \in Nat /\ Len(uvq') + written' = Len(uvq) + written
  BY SMTT(30), <1>1, <1>2
<1>4. UNCHANGED <<write_queue_size, session>> /\ session # "freed"
  BY Zenon DEF CountInv, W!CallbacksFindContext, Through
<1> QED
  BY Zenon, <1>1, <1>3, <1>4 DEF CountInv, W!CallbacksFindContext

(* Every step keeps the count.                                             *)
LEMMA CountStep ==
  ASSUME CountInv, [W!Next]_W!vars
  PROVE  CountInv'
<1>1. CASE W!Write
  <2>1. PICK lens : W!VecPush(lens)
    BY Zenon, <1>1 DEF W!Write
  <2> QED
    BY Zenon, <1>1, <2>1, PushCounts DEF W!Write, CountInv, W!CallbacksFindContext
<1>2. CASE W!SessionClose
  <2>1. CASE W!VecPush(<<1>>)
    BY Zenon, <1>2, <2>1, PushCounts DEF W!SessionClose, CountInv, W!CallbacksFindContext
  <2>2. CASE UNCHANGED <<uvq, write_queue_size>>
    BY Zenon, <1>2, <2>2 DEF W!SessionClose, CountInv, W!CallbacksFindContext
  <2> QED
    BY Zenon, <1>2, <2>1, <2>2 DEF W!SessionClose
<1>3. CASE W!OnSessionTimerClose \/ W!OnSessionClose \/ W!PeerResets
  BY Zenon, <1>3
  DEF W!OnSessionTimerClose, W!OnSessionClose, W!PeerResets, CountInv, W!CallbacksFindContext
<1>4. CASE W!on_write_complete
  <2>1. PICK T : uvq \in Seq(T)
    BY Zenon DEF IsQueue, CountInv
  <2>2. Len(uvq) \in Nat
    BY SMTT(30), <2>1
  <2>3. /\ written \in Nat /\ written > 0 /\ written' = written - 1
        /\ write_queue_size = Len(uvq) + written /\ write_queue_size' = write_queue_size - 1
    BY Zenon, <1>4 DEF W!on_write_complete, CountInv, W!CallbacksFindContext
  <2>4. written # 0 /\ written' \in Nat /\ write_queue_size' = Len(uvq) + written'
    BY SMTT(30), <2>2, <2>3
  <2> QED
    BY Zenon, <1>4, <2>4 DEF W!on_write_complete, CountInv, W!CallbacksFindContext
<1>5. CASE W!SocketTakes
  <2>1. PICK n :
             /\ uvq' = IF n = Len(Head(uvq)) THEN Tail(uvq)
                       ELSE <<SubSeq(Head(uvq), n + 1, Len(Head(uvq)))>> \o Tail(uvq)
             /\ written' = IF n = Len(Head(uvq)) THEN written + 1 ELSE written
    BY Zenon, <1>5 DEF W!SocketTakes
  <2>2. uvq # <<>> /\ UNCHANGED <<write_queue_size, session>>
    BY Zenon, <1>5 DEF W!SocketTakes
  <2>3. CASE n = Len(Head(uvq))
    BY Zenon, <2>1, <2>2, <2>3, ThroughCounts DEF Through
  <2>4. CASE n # Len(Head(uvq))
    <3>1. PICK x : uvq' = <<x>> \o Tail(uvq) /\ written' = written
      BY Zenon, <2>1, <2>4
    <3>2. IsQueue(uvq') /\ Len(uvq') = Len(uvq)
      BY Zenon, <2>2, <3>1, FirstIsQueue DEF CountInv
    <3> QED
      BY Zenon, <2>2, <3>1, <3>2 DEF CountInv, W!CallbacksFindContext
  <2> QED
    BY Zenon, <2>3, <2>4
<1>6. CASE W!RequestFails
  BY Zenon, <1>6, ThroughCounts DEF W!RequestFails, Through
<1>7. CASE UNCHANGED W!vars
  BY Zenon, <1>7 DEF W!vars, CountInv, W!CallbacksFindContext
<1> QED
  BY Zenon, <1>1, <1>2, <1>3, <1>4, <1>5, <1>6, <1>7 DEF W!Next

\* Each write that libuv has not called back for is counted in write_queue_size
\* of the context, and the session is not freed before the last callback, so
\* on_write_complete() finds the context it decrements: for any list of records
\* and any way the socket takes them, also when the peer resets, a request
\* fails or the session is closed in between.
THEOREM CallbacksHaveContext == W!Spec => []W!CallbacksFindContext
<1>1. W!Init => CountInv
  <2> SUFFICES ASSUME W!Init PROVE CountInv
    OBVIOUS
  <2>1. uvq = <<>> /\ written = 0 /\ write_queue_size = 0 /\ session = "open"
    BY Zenon DEF W!Init
  <2>2. <<>> \in Seq({}) /\ Len(<<>>) = 0
    OBVIOUS
  <2>3. IsQueue(uvq) /\ written \in Nat /\ write_queue_size = Len(uvq) + written
    BY SMTT(30), <2>1, <2>2 DEF IsQueue
  <2> QED
    BY Zenon, <2>1, <2>3 DEF CountInv, W!CallbacksFindContext
<1>2. CountInv => W!CallbacksFindContext
  BY Zenon DEF CountInv
<1> QED
  BY <1>1, <1>2, CountStep, PTL DEF W!Spec
-----------------------------------------------------------------------------
(* The timer of the session ticket key, in module Ticket.  The solvers     *)
(* take numbers as large as Second only in leaves of their own.            *)

CONSTANTS TST_KEY_LIFETIME, Starts, Delays, MaxChecks
VARIABLES now, key, hash_epoch, wake, checks, early
K == INSTANCE Ticket

(* What \div and % are.                                                    *)
LEMMA Division ==
  ASSUME NEW a \in Nat, NEW b \in Nat, b > 0
  PROVE  /\ a \div b \in Nat /\ a % b \in Nat /\ a % b < b
         /\ a = (a \div b) * b + (a % b)
BY SMTT(30)

LEMMA Quotient ==
  ASSUME NEW a \in Nat, NEW b \in Nat, b > 0, NEW n \in Nat, n * b <= a
  PROVE  n <= a \div b
<1>1. PICK q \in Nat, r \in Nat : q = a \div b /\ a = q * b + r /\ r < b
  BY Zenon, Division
<1>2. CASE n <= q
  BY Zenon, <1>1, <1>2
<1>3. CASE q + 1 <= n
  <2>1. PICK d \in Nat : n = q + 1 + d
    <3>1. n - (q + 1) \in Nat /\ n = q + 1 + (n - (q + 1))
      BY SMTT(30), <1>1, <1>3
    <3> QED BY Zenon, <3>1
  <2>2. n * b = q * b + b + d * b /\ d * b \in Nat /\ q * b \in Nat
    BY SMTT(30), <1>1, <2>1
  <2> QED BY SMTT(30), <1>1, <2>2
<1> QED BY SMTT(30), <1>1, <1>2, <1>3

\* When the timer set at time t is due.
WakeAt(t) == t + K!RemainMs(t) * 1000

\* A check at time t that has the timer wake the daemon up at time w is in time.
WakesAfter(t, w) ==
  /\ K!Epoch(t) \in Nat /\ w \in Nat
  /\ (K!Epoch(t) + 1) * TST_KEY_LIFETIME * K!Second <= w
  /\ w <= (K!Epoch(t) + 1) * TST_KEY_LIFETIME * K!Second + 2000
  /\ K!RemainMs(t) < (TST_KEY_LIFETIME + 1) * 1000

(* The rounding of tst_key_check() ends in the two milliseconds after the *)
(* epoch.                                                                  *)
LEMMA RemainSums ==
  ASSUME TST_KEY_LIFETIME \in Nat \ {0}, NEW t \in Nat
  PROVE  WakesAfter(t, WakeAt(t))
<1>1. PICK s \in Nat, u \in Nat : /\ s = t \div K!Second /\ u = t % K!Second
                                 /\ u < K!Second /\ t = s * K!Second + u
  BY SMTT(30) DEF K!Second
<1>2. PICK e \in Nat, m \in Nat :
        e = s \div TST_KEY_LIFETIME /\ m < TST_KEY_LIFETIME /\ s = e * TST_KEY_LIFETIME + m
  <2>1. TST_KEY_LIFETIME \in Nat /\ TST_KEY_LIFETIME > 0
    BY SMTT(30)
  <2>2. /\ s \div TST_KEY_LIFETIME \in Nat /\ s % TST_KEY_LIFETIME \in Nat
        /\ s % TST_KEY_LIFETIME < TST_KEY_LIFETIME
        /\ s = (s \div TST_KEY_LIFETIME) * TST_KEY_LIFETIME + (s % TST_KEY_LIFETIME)
    BY Zenon, <2>1, Division
  <2> QED BY Zenon, <2>2
<1>3. PICK N \in Nat : N = (e + 1) * TST_KEY_LIFETIME
  BY SMTT(30)
<1>4. s < N /\ N <= s + TST_KEY_LIFETIME
  <2>1. N = e * TST_KEY_LIFETIME + TST_KEY_LIFETIME /\ e * TST_KEY_LIFETIME \in Nat
    BY SMTT(30), <1>3
  <2> QED BY SMTT(30), <1>2, <2>1
<1>5. PICK q \in Nat : q = (u + 501) \div 1000 /\ u - 1000 * q >= -501 /\ u - 1000 * q <= 499
  BY SMTT(30)
<1>6. PICK w \in Int : w = (N - s - 1) * 1000 + (1000 - q) + 1
  BY SMTT(30)
<1>7. K!Epoch(t) = e
  BY Zenon, <1>1, <1>2 DEF K!Epoch
<1>8. K!RemainMs(t) = w
  <2> DEFINE Ms(a, b, c) == (a - b - 1) * 1000 + (1000 - (c + 501) \div 1000) + 1
  <2>1. K!RemainMs(t) =
          Ms(((t \div K!Second) \div TST_KEY_LIFETIME + 1) * TST_KEY_LIFETIME,
             t \div K!Second, t % K!Second)
    BY SMTT(30) DEF K!RemainMs, K!Second
  <2>2. Ms(N, s, u) = w
    BY SMTT(30), <1>5, <1>6
  <2> HIDE DEF Ms
  <2>3. K!RemainMs(t) = Ms(N, s, u)
    BY Zenon, <1>1, <1>2, <1>3, <2>1
  <2> QED BY Zenon, <2>2, <2>3
<1>9. /\ N * K!Second <= t + w * 1000 /\ t + w * 1000 <= N * K!Second + 2000
      /\ w < (TST_KEY_LIFETIME + 1) * 1000 /\ t + w * 1000 \in Nat
  <2>1. N * 1000000 <= t + w * 1000 /\ t + w * 1000 <= N * 1000000 + 2000
    BY SMTT(30), <1>1, <1>5, <1>6 DEF K!Second
  <2>2. w < (TST_KEY_LIFETIME + 1) * 1000 /\ t + w * 1000 \in Nat
    BY SMTT(30), <1>4, <1>5, <1>6, <2>1
  <2> QED BY SMTT(30), <2>1, <2>2 DEF K!Second
<1> QED BY SMTT(30), <1>3, <1>7, <1>8, <1>9 DEF WakesAfter, WakeAt

(* An instant past the end of an epoch is in another one.                  *)
LEMMA EpochEnds ==
  ASSUME TST_KEY_LIFETIME \in Nat \ {0}, NEW e \in Nat, NEW t \in Nat,
         (e + 1) * TST_KEY_LIFETIME * K!Second <= t
  PROVE  K!Epoch(t) # e
<1>1. PICK N \in Nat : N = (e + 1) * TST_KEY_LIFETIME
  BY SMTT(30)
<1>2. PICK s \in Nat : s = t \div K!Second /\ N <= s
  BY SMTT(30), <1>1 DEF K!Second
<1>3. TST_KEY_LIFETIME \in Nat /\ TST_KEY_LIFETIME > 0 /\ e + 1 \in Nat
  BY SMTT(30)
<1>4. e + 1 <= s \div TST_KEY_LIFETIME /\ s \div TST_KEY_LIFETIME \in Nat
  BY Zenon, <1>1, <1>2, <1>3, Quotient, Division
<1> QED BY SMTT(30), <1>2, <1>4 DEF K!Epoch

\* The key in use is that of the epoch of the last check.
TicketInv ==
  /\ now \in Nat /\ early = 0
  /\ wake # -1 => hash_epoch = K!Epoch(now) /\ WakesAfter(now, wake)

\* tst_key_check() never sets a timer that fires before the epoch is over, or
\* more than two milliseconds after its end, and never fails its assertion on
\* remain_ms, for every lifetime of a key in whole seconds, every instant at
\* which the daemon starts and however late the loop runs the callbacks.
THEOREM TicketsRotate ==
  ASSUME TST_KEY_LIFETIME \in Nat \ {0}, Starts \subseteq Nat, Delays \subseteq Nat
  PROVE  K!Spec => []K!RotatesInTime
<1>1. K!Init => TicketInv
  BY Zenon DEF K!Init, TicketInv
<1>2. TicketInv => K!RotatesInTime
  BY SMTT(30) DEF TicketInv, WakesAfter, K!RotatesInTime
<1>3. ASSUME TicketInv, [K!Next]_K!vars PROVE TicketInv'
  <2>1. ASSUME NEW t \in Nat, NEW force, NEW works, K!tst_key_check(t, force, works), early' = 0
        PROVE  TicketInv'
    <3>1. now' = t /\ hash_epoch' = K!Epoch(t) /\ wake' = WakeAt(t)
      BY Zenon, <2>1 DEF K!tst_key_check, K!tst_key_update, WakeAt
    <3>2. WakesAfter(t, WakeAt(t))
      BY Zenon, RemainSums
    <3>3. hash_epoch' = K!Epoch(now') /\ WakesAfter(now', wake')
      BY Zenon, <3>1, <3>2
    <3> QED BY Zenon, <2>1, <3>1, <3>3 DEF TicketInv
  <2>2. CASE K!tls_session_ticket_ctx_create
    BY Zenon, <1>3, <2>1, <2>2 DEF K!tls_session_ticket_ctx_create, TicketInv
  <2>3. CASE K!tst_timer_callback
    <3>1. PICK d \in Delays, works \in BOOLEAN : K!tst_key_check(wake + d, FALSE, works)
      BY Zenon, <2>3 DEF K!tst_timer_callback
    <3>2. wake # -1 /\ (K!Epoch(now') # hash_epoch => early' = early)
      BY Zenon, <2>3 DEF K!tst_timer_callback
    <3>3. early = 0 /\ hash_epoch = K!Epoch(now) /\ WakesAfter(now, wake)
      BY Zenon, <1>3, <3>2 DEF TicketInv
    <3>4. PICK e \in Nat : /\ e = K!Epoch(now) /\ wake \in Nat
                           /\ (e + 1) * TST_KEY_LIFETIME * K!Second <= wake
      BY SMTT(30), <3>3 DEF WakesAfter
    <3>5. PICK t \in Nat : t = wake + d /\ (e + 1) * TST_KEY_LIFETIME * K!Second <= t
      <4>1. PICK N \in Nat : N = (e + 1) * TST_KEY_LIFETIME * K!Second
        BY SMTT(30) DEF K!Second
      <4>2. wake + d \in Nat /\ N <= wake + d
        BY SMTT(30), <3>1, <3>4, <4>1
      <4> QED BY Zenon, <4>1, <4>2
    <3>6. K!tst_key_check(t, FALSE, works)
      BY Zenon, <3>1, <3>5
    <3>7. K!Epoch(t) # e
      BY Zenon, <3>5, EpochEnds
    <3>8. early' = 0
      <4>1. now' = t
        BY Zenon, <3>6 DEF K!tst_key_check
      <4>2. K!Epoch(now') # hash_epoch
        BY Zenon, <3>3, <3>4, <3>7, <4>1
      <4> QED BY Zenon, <3>2, <3>3, <4>2
    <3> QED BY Zenon, <2>1, <3>6, <3>8
  <2>4. CASE UNCHANGED K!vars
    <3>1. /\ UNCHANGED <<now, early, wake, hash_epoch>>
      BY Zenon, <2>4 DEF K!vars
    <3>2. wake' # -1 => hash_epoch' = K!Epoch(now') /\ WakesAfter(now', wake')
      BY Zenon, <1>3, <3>1 DEF TicketInv
    <3> QED BY Zenon, <1>3, <3>1, <3>2 DEF TicketInv
  <2> QED BY Zenon, <1>3, <2>2, <2>3, <2>4 DEF K!Next
<1> QED BY <1>1, <1>2, <1>3, PTL DEF K!Spec
=============================================================================
