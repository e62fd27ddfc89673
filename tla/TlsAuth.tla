------------------------------ MODULE TlsAuth ------------------------------
(***************************************************************************)
(* Who owns the credentials of TLS sessions, and who is talked to          *)
(* (daemon/tls.c, daemon/bindings/net.c): the server's certificate, which  *)
(* is set, renewed or made anew while sessions use it; the authentication  *)
(* parameters of forwarding targets, which are replaced or cleared while   *)
(* connections use them; the check of a target's certificate chain, and    *)
(* the session data by which a later connection resumes without a check.   *)
(* GnuTLS is external: its calls fail at will, a handshake ends with the   *)
(* chain the target presents or with a resumption the target agrees to.    *)
(***************************************************************************)
EXTENDS Integers, FiniteSets, Sequences

CONSTANTS
  Sessions, Addrs,
  Credentials,      \* struct tls_credentials that may be allocated
  Entries,          \* tls_client_param_t that may be allocated
  Chains,           \* certificate chains, sequences of certificates
  Configs,          \* tables given to net.tls_client()
  CertsFor,         \* the first certificates of chains valid for a host name
  MaxOps            \* bound on the length of a behaviour

None == "none"
NoData == <<>>
Certs == UNION {{c[i] : i \in DOMAIN c} : c \in Chains}

VARIABLES
  credentials,      \* [Credentials -> struct tls_credentials]
  net_credentials,  \* net->tls_credentials
  entries,          \* [Entries -> tls_client_param_t]
  params,           \* net->tls_client_params: [Addrs -> entry or None]
  ctx,              \* [Sessions -> its TLS context]
  ops
vars == <<credentials, net_credentials, entries, params, ctx, ops>>

NoCredentials == [live |-> FALSE, count |-> 0, ephemeral |-> FALSE, due |-> FALSE]
NoEntry == [live |-> FALSE, refs |-> 0, insecure |-> FALSE, hostname |-> None, pins |-> {}, data |-> NoData]
NoCtx == [side |-> None, holds |-> None, hs |-> "TLS_HS_NOT_STARTED", offered |-> NoData, chain |-> NoData]

Init ==
  /\ credentials = [c \in Credentials |-> NoCredentials]
  /\ net_credentials = None
  /\ entries = [e \in Entries |-> NoEntry]
  /\ params = [a \in Addrs |-> None]
  /\ ctx = [s \in Sessions |-> NoCtx]
  /\ ops = 0

Step == ops < MaxOps /\ ops' = ops + 1

-----------------------------------------------------------------------------
(* The server's credentials                                                *)

Unused(table) == {x \in DOMAIN table : ~table[x].live}

\* The owner in struct network is not counted: the last release goes below zero.
tls_credentials_reserve(creds, c) == [creds EXCEPT ![c].count = @ + 1]

\* Mutant: as if the owner were counted.
tls_credentials_release_early(creds, c) ==
  IF c = None THEN creds
  ELSE IF creds[c].count - 1 <= 0 THEN [creds EXCEPT ![c] = NoCredentials]
  ELSE [creds EXCEPT ![c].count = @ - 1]

tls_credentials_release(creds, c) ==
  IF c = None THEN creds
  ELSE IF creds[c].count - 1 < 0 THEN [creds EXCEPT ![c] = NoCredentials]
  ELSE [creds EXCEPT ![c].count = @ - 1]

\* New credentials take the place of those of struct network.
Exchange(creds, old, new, ephemeral) ==
  tls_credentials_release([creds EXCEPT ![new] = [live |-> TRUE, count |-> 0, ephemeral |-> ephemeral, due |-> FALSE]],
                          old)

\* tls_certificate_set(); what fails before the exchange frees the new ones only.
tls_certificate_set ==
  /\ Step
  /\ \E new \in Unused(credentials) :
       /\ credentials' = Exchange(credentials, net_credentials, new, FALSE)
       /\ net_credentials' = new
  /\ UNCHANGED <<entries, params, ctx>>

\* network_new_hostname()
network_new_hostname ==
  /\ Step
  /\ net_credentials # None /\ credentials[net_credentials].ephemeral
  /\ \E new \in Unused(credentials) :
       /\ credentials' = Exchange(credentials, net_credentials, new, TRUE)
       /\ net_credentials' = new
  /\ UNCHANGED <<entries, params, ctx>>

\* The ephemeral credentials come within a week of their end.
CredentialsExpire ==
  /\ net_credentials # None /\ ~credentials[net_credentials].due
  /\ credentials' = [credentials EXCEPT ![net_credentials].due = TRUE]
  /\ UNCHANGED <<net_credentials, entries, params, ctx, ops>>

\* What tls_new() finds or makes: missing ones are made, ephemeral ones that are due are
\* renewed; when that fails there are none, or still the old ones.
Current ==
  LET make == net_credentials = None
      renew == ~make /\ credentials[net_credentials].due /\ credentials[net_credentials].ephemeral
      made == {[creds |-> Exchange(credentials, net_credentials, new, TRUE), cur |-> new] :
                 new \in IF make \/ renew THEN Unused(credentials) ELSE {}}
  IN made \cup {[creds |-> credentials, cur |-> net_credentials]}

\* tls_new() for an accepted connection, or its failure before or after the reservation,
\* which tls_free() undoes.
tls_new(s) ==
  /\ Step
  /\ ctx[s] = NoCtx
  /\ \E now \in Current :
       /\ net_credentials' = now.cur
       /\ \/ /\ now.cur # None
             /\ credentials' = tls_credentials_reserve(now.creds, now.cur)
             /\ ctx' = [ctx EXCEPT ![s] = [NoCtx EXCEPT !.side = "server", !.holds = now.cur,
                                                        !.hs = "TLS_HS_IN_PROGRESS"]]
          \/ /\ credentials' = IF now.cur = None THEN now.creds
                               ELSE tls_credentials_release(tls_credentials_reserve(now.creds, now.cur), now.cur)
             /\ UNCHANGED ctx
  /\ UNCHANGED <<entries, params>>

tls_free(s) ==
  /\ ctx[s].side = "server"
  /\ credentials' = tls_credentials_release(credentials, ctx[s].holds)
  /\ ctx' = [ctx EXCEPT ![s] = NoCtx]
  /\ UNCHANGED <<net_credentials, entries, params, ops>>

-----------------------------------------------------------------------------
(* Authentication of forwarding targets                                    *)

tls_client_param_unref(tab, e) ==
  IF e = None THEN tab
  ELSE IF tab[e].refs = 1 THEN [tab EXCEPT ![e] = NoEntry]
  ELSE [tab EXCEPT ![e].refs = @ - 1]

\* The checks of net_tls_client() on its table.
Accepted(cfg) ==
  /\ cfg.insecure => cfg.pins = {} /\ ~cfg.ca_file
  /\ ~cfg.insecure => cfg.hostname # None \/ cfg.pins # {}
  /\ cfg.ca_file => cfg.hostname # None /\ cfg.pins = {}

\* Mutant: the session data of the old entry is kept.
net_tls_client_inherits(a, cfg) ==
  /\ Step
  /\ Accepted(cfg)
  /\ \E new \in Unused(entries) :
       /\ entries' = tls_client_param_unref(
            [entries EXCEPT ![new] = [live |-> TRUE, refs |-> 1, insecure |-> cfg.insecure,
                                      hostname |-> cfg.hostname, pins |-> cfg.pins,
                                      data |-> IF params[a] = None THEN NoData ELSE entries[params[a]].data]],
            params[a])
       /\ params' = [params EXCEPT ![a] = new]
  /\ UNCHANGED <<credentials, net_credentials, ctx>>

\* net.tls_client(): the new entry replaces that of the address.
net_tls_client(a, cfg) ==
  /\ Step
  /\ Accepted(cfg)
  /\ \E new \in Unused(entries) :
       /\ entries' = tls_client_param_unref(
            [entries EXCEPT ![new] = [live |-> TRUE, refs |-> 1, insecure |-> cfg.insecure,
                                      hostname |-> cfg.hostname, pins |-> cfg.pins, data |-> NoData]],
            params[a])
       /\ params' = [params EXCEPT ![a] = new]
  /\ UNCHANGED <<credentials, net_credentials, ctx>>

net_tls_client_clear(a) ==
  /\ Step
  /\ params[a] # None
  /\ entries' = tls_client_param_unref(entries, params[a])
  /\ params' = [params EXCEPT ![a] = None]
  /\ UNCHANGED <<credentials, net_credentials, ctx>>

\* tls_client_ctx_new() for a connection; what fails after the reference is taken
\* is undone by tls_client_ctx_free().
tls_client_ctx_new(s, a) ==
  /\ Step
  /\ ctx[s] = NoCtx /\ params[a] # None
  /\ entries' = [entries EXCEPT ![params[a]].refs = @ + 1]
  /\ ctx' = [ctx EXCEPT ![s] = [NoCtx EXCEPT !.side = "client", !.holds = params[a]]]
  /\ UNCHANGED <<credentials, net_credentials, params>>

tls_client_ctx_free(s) ==
  /\ ctx[s].side = "client"
  /\ entries' = tls_client_param_unref(entries, ctx[s].holds)
  /\ ctx' = [ctx EXCEPT ![s] = NoCtx]
  /\ UNCHANGED <<credentials, net_credentials, params, ops>>

\* tls_client_connect_start() offers the session data the entry has by then.
tls_client_connect_start(s) ==
  /\ ctx[s].side = "client" /\ ctx[s].hs = "TLS_HS_NOT_STARTED"
  /\ ctx' = [ctx EXCEPT ![s].hs = "TLS_HS_IN_PROGRESS", ![s].offered = entries[ctx[s].holds].data]
  /\ UNCHANGED <<credentials, net_credentials, entries, params, ops>>

\* client_verify_pin(): some certificate of the chain has a pin, whatever else it is.
client_verify_pin(chain, pins) == \E i \in DOMAIN chain : chain[i] \in pins

\* client_verify_certchain(), by the verdict of GnuTLS.
client_verify_certchain(chain, hostname) == hostname # None /\ chain[1] \in CertsFor[hostname]

client_verify_certificate(e, chain) ==
  \/ e.insecure
  \/ /\ chain # <<>>
     /\ IF e.pins # {} THEN client_verify_pin(chain, e.pins)
        ELSE client_verify_certchain(chain, e.hostname)

\* A full handshake that verifies; session_tls_hs_cb() keeps the new session data,
\* or none when GnuTLS has none.
HandshakeFull(s, chain) ==
  LET e == ctx[s].holds
  IN /\ ctx[s].side = "client" /\ ctx[s].hs = "TLS_HS_IN_PROGRESS"
     /\ client_verify_certificate(entries[e], chain)
     /\ ctx' = [ctx EXCEPT ![s].hs = "TLS_HS_DONE", ![s].chain = chain]
     /\ \E data \in {chain, NoData} : entries' = [entries EXCEPT ![e].data = data]
     /\ UNCHANGED <<credentials, net_credentials, params, ops>>

\* The target resumes the session that was offered: no certificate is presented.
HandshakeResumed(s) ==
  /\ ctx[s].side = "client" /\ ctx[s].hs = "TLS_HS_IN_PROGRESS" /\ ctx[s].offered # NoData
  /\ ctx' = [ctx EXCEPT ![s].hs = "TLS_HS_DONE", ![s].chain = ctx[s].offered]
  /\ UNCHANGED <<credentials, net_credentials, entries, params, ops>>

Next ==
  \/ tls_certificate_set \/ network_new_hostname \/ CredentialsExpire
  \/ \E a \in Addrs : net_tls_client_clear(a) \/ \E cfg \in Configs : net_tls_client(a, cfg)
  \/ \E s \in Sessions :
       \/ tls_new(s) \/ tls_free(s) \/ tls_client_ctx_free(s) \/ tls_client_connect_start(s)
       \/ HandshakeResumed(s)
       \/ \E a \in Addrs : tls_client_ctx_new(s, a)
       \/ \E chain \in Chains : HandshakeFull(s, chain)

Spec == Init /\ [][Next]_vars

-----------------------------------------------------------------------------
Holders(side, x) == {s \in Sessions : ctx[s].side = side /\ ctx[s].holds = x}

(* Credentials and parameters live exactly as long as someone needs them:    *)
(* those of struct network and of each session are not freed under it,       *)
(* however they are set, renewed, replaced and cleared meanwhile, and those  *)
(* nobody needs are gone.                                                    *)
HeldIsAlive ==
  /\ \A c \in Credentials :
       LET held == Holders("server", c)
       IN /\ credentials[c].live <=> (c = net_credentials \/ held # {})
          /\ credentials[c].live =>
               credentials[c].count = Cardinality(held) - (IF c = net_credentials THEN 0 ELSE 1)
  /\ \A e \in Entries :
       LET held == Holders("client", e)
           at == {a \in Addrs : params[a] = e}
       IN /\ entries[e].live <=> (at # {} \/ held # {})
          /\ entries[e].refs = Cardinality(at) + Cardinality(held)

(* A connection whose handshake is done is with a target its parameters      *)
(* accept, also when it resumed an older session and no certificate was      *)
(* shown: session data never outlives the parameters it was checked against. *)
PeerIsVerified ==
  \A s \in Sessions : ctx[s].side = "client" /\ ctx[s].hs = "TLS_HS_DONE" =>
    client_verify_certificate(entries[ctx[s].holds], ctx[s].chain)
=============================================================================
