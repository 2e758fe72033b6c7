---------------------------- MODULE TokenBucket ----------------------------
(***************************************************************************)
(* The token bucket that limits joins, Room commands and Guest reads:      *)
(* src/server/src/modules/listen_together/limits.rs.  Every bucket is used *)
(* behind a lock inside which Instant::now() is read, so time does not go  *)
(* back between two calls.                                                 *)
(*                                                                         *)
(* The code counts tokens in f64.  Here a token is `Token` units, of which *)
(* a tick earns `PerTick`: a fraction of a token is kept, and no rounding  *)
(* is modelled.                                                            *)
(***************************************************************************)
EXTENDS Integers

CONSTANTS
  Token,    \* units in a token
  Burst,    \* Rate.burst, in units
  PerTick,  \* Rate.per_second, in units per tick
  MaxClock  \* bound: ticks

ASSUME TokenBucketAssumption ==
  /\ Token \in Nat \ {0}
  /\ Burst \in Nat /\ Burst >= Token
  /\ PerTick \in Nat
  /\ MaxClock \in Nat

VARIABLES
  tokens, refilledAt,  \* the bucket
  clock,
  since, passed,       \* history: how many requests passed since some instant
  passedAt             \* history: when the last one passed

vars == <<tokens, refilledAt, clock, since, passed, passedAt>>

Init ==
  /\ tokens = Burst
  /\ clock = 0
  /\ refilledAt = clock
  /\ since = clock /\ passed = 0 /\ passedAt = clock

\* What `take` finds: what was there and what was earned, at most a burst.
Refilled ==
  LET earned == tokens + PerTick * (clock - refilledAt)
  IN  IF earned < Burst THEN earned ELSE Burst

Pass ==
  /\ Refilled >= Token
  /\ tokens' = Refilled - Token
  /\ refilledAt' = clock
  /\ passed' = passed + 1
  /\ passedAt' = clock
  /\ UNCHANGED <<clock, since>>

RefuseForgetting ==  \* mutant: a refusal moves the instant but keeps no fraction
  /\ Refilled < Token
  /\ refilledAt' = clock
  /\ UNCHANGED <<tokens, clock, since, passed, passedAt>>

Refuse ==
  /\ Refilled < Token
  /\ tokens' = Refilled
  /\ refilledAt' = clock
  /\ UNCHANGED <<clock, since, passed, passedAt>>

Tick ==
  /\ clock < MaxClock
  /\ clock' = clock + 1
  /\ UNCHANGED <<tokens, refilledAt, since, passed, passedAt>>

\* History only: start counting here.
Observe ==
  /\ since' = clock
  /\ passed' = 0
  /\ UNCHANGED <<tokens, refilledAt, clock, passedAt>>

Next == Pass \/ Refuse \/ Tick \/ Observe

Spec == Init /\ [][Next]_vars

-----------------------------------------------------------------------------
(* Properties *)

\* The bucket holds between nothing and a burst, and was last refilled in the
\* past.
TypeOK ==
  /\ tokens \in 0..Burst
  /\ clock \in Nat
  /\ refilledAt \in 0..clock /\ since \in 0..clock /\ passedAt \in 0..clock
  /\ passed \in Nat

\* "A burst of `burst` requests passes; then `per_second`" (limits.rs, Rate):
\* from any instant on, no more than a burst and what was earned since passes,
\* however attempts, refusals and pauses alternate.
AtMostRate == passed * Token <= Burst + PerTick * (clock - since)

\* Whoever waited as long as a token takes since the last request that passed is
\* not refused, however many attempts were refused in between.
PatientPasses == Refilled < Token => PerTick * (clock - passedAt) < Token

\* The limit is neither passed nor a trap: no window lets more through than its rate,
\* and who waits for a token gets it (limits.rs, TokenBucket::take).
KeepsRate == TypeOK /\ AtMostRate /\ PatientPasses

-----------------------------------------------------------------------------
(* What makes them inductive *)

\* What passed in the window and what is left of it was there or was earned.
SpentAndLeft ==
  IF refilledAt >= since
  THEN passed * Token + tokens <= Burst + PerTick * (refilledAt - since)
  ELSE passed = 0

\* Everything earned since the last request that passed is still there.
EarnedIsKept ==
  /\ passedAt <= refilledAt
  /\ tokens < Burst => tokens >= PerTick * (refilledAt - passedAt)

Accounting == TypeOK /\ SpentAndLeft /\ EarnedIsKept
=============================================================================
