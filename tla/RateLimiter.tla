---------------------------- MODULE RateLimiter ----------------------------
(***************************************************************************)
(* The rate limiter at the head of jsonrpc_handler (rpc/src/server.rs):    *)
(* one counter and one window for each address, behind one lock.  The      *)
(* handler reads the clock before it awaits the lock, so handlers take it  *)
(* with clocks of different ages, in any order.                            *)
(*                                                                         *)
(* Addresses share nothing but the lock: this is the entry of one address. *)
(* Time is relative: every instant is kept by its age in ticks.            *)
(***************************************************************************)
EXTENDS Integers, FiniteSets, FiniteSetsExt, Functions

CONSTANTS
  Handlers,    \* concurrent requests of the address
  Limit,       \* RATE_LIMIT_PER_SEC
  TickRate,    \* the ticks of a second
  MaxDelay     \* bound: the ticks a handler may wait for the lock

ASSUME RateLimiterAssumption ==
  /\ Limit \in Nat \ {0}
  /\ TickRate \in Nat \ {0}
  /\ MaxDelay \in 0 .. TickRate

VARIABLES
  entry,    \* the address's entry, if there is one: [count, age of window_start]
  asked,    \* handler waiting for the lock -> the age of its `now'
  passed    \* history: age -> how many requests passed, within a second

limiter == <<entry, asked, passed>>

OldestStart == TickRate + MaxDelay

LimiterTypeOK ==
  /\ entry \subseteq [count : 0 .. Limit + 1, age : 0 .. OldestStart]
  /\ Cardinality(entry) <= 1
  /\ DOMAIN asked \subseteq Handlers
  /\ \A h \in DOMAIN asked : asked[h] \in 0 .. MaxDelay
  /\ passed \in [0 .. TickRate - 1 -> Nat]

LimiterInit ==
  /\ entry = {}
  /\ asked = [h \in {} |-> 0]
  /\ passed = [k \in 0 .. TickRate - 1 |-> 0]

(* Instant::now, before the lock is awaited.                               *)
ReadClock(h) ==
  /\ h \notin DOMAIN asked
  /\ asked' = [g \in DOMAIN asked \cup {h} |-> IF g = h THEN 0 ELSE asked[g]]
  /\ UNCHANGED <<entry, passed>>

New(now) == [count |-> 0, age |-> now]

(* duration_since: zero when the window began after this handler's `now'.  *)
Elapsed(e, now) == Max({e.age - now, 0})

(* Mutant: the count is reset, the window is not moved.                    *)
CountReset(e, now) == IF Elapsed(e, now) >= TickRate THEN [e EXCEPT !.count = 0] ELSE e

Window(e, now) == IF Elapsed(e, now) >= TickRate THEN New(now) ELSE e

(* The lock is held from or_insert to the comparison with the limit.  More *)
(* than one above it is no different from one.                             *)
Admit(h) ==
  /\ h \in DOMAIN asked
  /\ \E e \in IF entry = {} THEN {New(asked[h])} ELSE entry :
    LET w == Window(e, asked[h]) IN
    /\ asked' = Restrict(asked, DOMAIN asked \ {h})
    /\ entry' = {[w EXCEPT !.count = Min({@ + 1, Limit + 1})]}
    /\ passed' = IF w.count + 1 <= Limit THEN [passed EXCEPT ![0] = @ + 1] ELSE passed

Older(n, most) == Min({n + 1, most})

TickOver ==
  /\ \A h \in DOMAIN asked : asked[h] < MaxDelay
  /\ asked' = [h \in DOMAIN asked |-> asked[h] + 1]
  /\ entry' = {[e EXCEPT !.age = Older(@, OldestStart)] : e \in entry}
  /\ passed' = [k \in DOMAIN passed |-> IF k = 0 THEN 0 ELSE passed[k - 1]]

LimiterNext == TickOver \/ \E h \in Handlers : ReadClock(h) \/ Admit(h)

-----------------------------------------------------------------------------
(* "Max RPC requests per IP per second" (server.rs:36) is the limit of a   *)
(* window.  A second may touch three of them, because the handlers that    *)
(* waited for the lock close the first one late, and never a fourth.       *)
AtMostThreeLimits ==
  MapThenSumSet(LAMBDA k : passed[k], DOMAIN passed) <= 3 * Limit

=============================================================================
