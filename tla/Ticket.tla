------------------------------- MODULE Ticket -------------------------------
(***************************************************************************)
(* daemon/tls_session_ticket-srv.c: the key of the TLS session tickets is  *)
(* replaced at every multiple of TST_KEY_LIFETIME seconds, by a timer that *)
(* computes in milliseconds how long the epoch still lasts.  Time is       *)
(* counted in microseconds, as gettimeofday() does.  Secrets shared by     *)
(* several instances are compiled out, so a key is a random one, named     *)
(* here by the number of the generation that made it.                      *)
(***************************************************************************)
EXTENDS Integers

CONSTANTS TST_KEY_LIFETIME, \* seconds of an epoch
          Starts,           \* instants at which the daemon is started
          Delays,           \* how late the loop runs a timer
          MaxChecks         \* bound: timer callbacks in one behaviour

VARIABLES now, key, hash_epoch, wake, checks, early

vars == <<now, key, hash_epoch, wake, checks, early>>

Second == 1000000

\* The time between microsecond t and the next check.
\* Mutant: without the millisecond added at the end.
RemainMsShort(t) ==
  LET sec == t \div Second
      next == (sec \div TST_KEY_LIFETIME + 1) * TST_KEY_LIFETIME
  IN (next - sec - 1) * 1000 + (1000 - ((t % Second) + 501) \div 1000)

RemainMs(t) ==
  LET sec == t \div Second
      next == (sec \div TST_KEY_LIFETIME + 1) * TST_KEY_LIFETIME
  IN (next - sec - 1) * 1000 + (1000 - ((t % Second) + 501) \div 1000) + 1

Epoch(t) == (t \div Second) \div TST_KEY_LIFETIME

\* tst_key_update(): the epoch is noted before the key is generated, so that
\* a generation that fails leaves the old key in place until the next epoch.
tst_key_update(epoch, force, works) ==
  IF ~force /\ hash_epoch = epoch THEN UNCHANGED <<key, hash_epoch>>
  ELSE hash_epoch' = epoch /\ key' = (IF works THEN epoch ELSE key)

tst_key_check(t, force, works) ==
  /\ now' = t
  /\ tst_key_update(Epoch(t), force, works)
  /\ wake' = t + RemainMs(t) * 1000

Init ==
  /\ now \in Starts /\ key = -1 /\ hash_epoch = -1
  /\ wake = -1 /\ checks = 0 /\ early = 0

tls_session_ticket_ctx_create ==
  /\ wake = -1
  /\ tst_key_check(now, TRUE, TRUE)
  /\ UNCHANGED <<checks, early>>

tst_timer_callback ==
  /\ wake # -1 /\ checks < MaxChecks
  /\ \E d \in Delays, works \in BOOLEAN : tst_key_check(wake + d, FALSE, works)
  /\ checks' = checks + 1
  /\ early' = IF Epoch(now') = hash_epoch THEN early + 1 ELSE early

Next == tls_session_ticket_ctx_create \/ tst_timer_callback

Spec == Init /\ [][Next]_vars

\* The rounding of RemainMs never wakes the daemon before the epoch is over
\* ("we don't want to wake up half a millisecond before the epoch!"), nor more
\* than two milliseconds after its end; and the delay always passes the
\* assertion on remain_ms.
RotatesInTime ==
  wake # -1 =>
    LET end == (Epoch(now) + 1) * TST_KEY_LIFETIME * Second
    IN /\ early = 0
       /\ end <= wake /\ wake <= end + 2000
       /\ RemainMs(now) < (TST_KEY_LIFETIME + 1) * 1000
=============================================================================
