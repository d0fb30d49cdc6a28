----------------------------- MODULE RateLimiter -----------------------------
(***************************************************************************)
(* The fixed-window limiter in front of sign-in, compilation and assistant *)
(* requests (internal/ratelimit).  Allow and the collector run under one   *)
(* mutex: each is a step.                                                  *)
(***************************************************************************)
EXTENDS Naturals, FiniteSets, Functions

CONSTANTS
  Clients,      \* client addresses or users
  Limit, Period,
  MaxTime    \* bound: the time a behaviour takes

ASSUME LimiterConstants ==
  Limit \in Nat \ {0} /\ Period \in Nat \ {0} /\ MaxTime \in Nat

VARIABLES
  time,
  windows,   \* the map: [count, reset] of the keys that are there
  log,       \* history: the requests admitted, those of a key numbered from 0
  refused    \* history: the key refused by the last step, if any

limiterVars == <<time, windows, log, refused>>

Times  == 0 .. MaxTime

LimiterInit ==
  /\ time = 0 /\ windows = [k \in {} |-> 0] /\ log = {} /\ refused = {}

\* No window, or one that is over.
Expired(k) == k \in DOMAIN windows => time > windows[k].reset

Of(k) == {e \in log : e.key = k}

Admit(k, w) ==
  /\ windows' = [q \in DOMAIN windows \cup {k} |-> IF q = k THEN w ELSE windows[q]]
  /\ log' = log \cup {[key |-> k, at |-> time, window |-> w.reset, number |-> Cardinality(Of(k))]}
  /\ refused' = {}

Allow(k) ==
  /\ \/ /\ Expired(k)
        /\ Admit(k, [count |-> 1, reset |-> time + Period])
     \/ /\ ~Expired(k)
        /\ \/ /\ windows[k].count < Limit
              /\ Admit(k, [windows[k] EXCEPT !.count = @ + 1])
           \/ /\ windows[k].count >= Limit
              /\ refused' = {k} /\ UNCHANGED <<windows, log>>
  /\ UNCHANGED time

\* Mutant: the windows that are over are kept, the others dropped.
gcOthers ==
  /\ windows' = Restrict(windows, {k \in DOMAIN windows : Expired(k)})
  /\ refused' = {}
  /\ UNCHANGED <<time, log>>

\* Every five minutes; the period of a limiter may be longer.
gc ==
  /\ windows' = Restrict(windows, {k \in DOMAIN windows : ~Expired(k)})
  /\ refused' = {}
  /\ UNCHANGED <<time, log>>

Tick ==
  /\ time < MaxTime /\ time' = time + 1
  /\ refused' = {}
  /\ UNCHANGED <<windows, log>>

LimiterNext == (\E k \in Clients : Allow(k)) \/ gc \/ Tick

LimiterSpec == LimiterInit /\ [][LimiterNext]_limiterVars

-----------------------------------------------------------------------------

Admitted(k, from, to) == {e \in Of(k) : from <= e.at /\ e.at <= to}

\* ratelimit.go:26 "allowing `limit` requests per `period` per key": no interval as long as
\* the period admits more than twice the limit, the worst two adjacent windows do, and a
\* request is refused only when the limit has been admitted in the period that ends now.
LimitKept ==
  \A k \in Clients :
    /\ \A t \in Times : Cardinality(Admitted(k, t, t + Period)) <= 2 * Limit
    /\ k \in refused => \E t \in Times : t + Period >= time /\ Cardinality(Admitted(k, t, time)) >= Limit
=============================================================================
