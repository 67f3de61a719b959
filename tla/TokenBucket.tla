---------------------------- MODULE TokenBucket ----------------------------
(***************************************************************************)
(* cve_http.go, the rate limiter of one host: a bucket that is refilled     *)
(* from the time elapsed whenever somebody asks, and callers that sleep     *)
(* outside its lock until a token should be there and then ask again.       *)
(*                                                                         *)
(* Tokens are counted in units, Unit to a token, and time in ticks, so that *)
(* the fractions of a token that a float64 holds are whole numbers.         *)
(***************************************************************************)
EXTENDS Integers

CONSTANTS
    Callers,    \* the calls of wait
    Unit,       \* units to a token
    Rate,       \* units gained in a tick: perSec
    Burst,      \* tokens a full bucket holds: max
    MaxClock,   \* bound: ticks
    LastCall,   \* bound: the tick of the last call
    Oversleep   \* bound: ticks a caller may be late in waking

ASSUME BucketAssumption ==
    /\ Unit \in Nat \ {0} /\ Rate \in Nat \ {0} /\ Burst \in Nat \ {0}
    /\ MaxClock \in Nat /\ LastCall \in Nat /\ Oversleep \in Nat \ {0}

VARIABLES
    now,
    tokens,    \* of the bucket, in units
    lastFill,  \* Never until the first caller
    call,      \* idle, waiting, granted or cancelled, for every caller
    wake,      \* the tick at which a waiting caller asks (again)
    slept,     \* the callers that have slept
    expired,   \* the callers whose context has ended
    granted,   \* ghost: tokens handed out
    before     \* ghost: of every tick so far, the tokens handed out before it

bucketVars == <<now, tokens, lastFill, call, wake, slept, expired, granted, before>>

Never == -1
Full == Burst * Unit

BucketInit ==
    /\ now = 0
    /\ tokens = Full
    /\ lastFill = Never
    /\ call = [c \in Callers |-> "idle"]
    /\ wake = [c \in Callers |-> 0]
    /\ slept = {} /\ expired = {}
    /\ granted = 0
    /\ before = [t \in 0 .. MaxClock |-> 0]

-----------------------------------------------------------------------------
(* One pass through the loop of wait, under the lock *)

Elapsed == IF lastFill = Never THEN 0 ELSE now - lastFill

Capped(t) == IF t > Full THEN Full ELSE t

(* A mutant: a refill of whole tokens only. *)
RefilledByTokens == Capped(tokens + ((Elapsed * Rate) \div Unit) * Unit)

Refilled == Capped(tokens + Elapsed * Rate)

(* A mutant: a fill that yields no token is not noted, and is made again. *)
FilledAtUnlessShort == IF Refilled < Unit /\ lastFill # Never THEN lastFill ELSE now

FilledAt == now

(* At least one tick; the truncation to a Duration may wake it early. *)
Nap(t) == IF (Unit - t) \div Rate < 1 THEN 1 ELSE (Unit - t) \div Rate

(* It has slept and finds its context ended. *)
MustLeave(c) == c \in slept /\ c \in expired

Asks(c) == call[c] = "waiting" /\ now >= wake[c] /\ ~MustLeave(c)

Call(c) ==
    /\ call[c] = "idle" /\ now <= LastCall
    /\ call' = [call EXCEPT ![c] = "waiting"]
    /\ wake' = [wake EXCEPT ![c] = now]
    /\ UNCHANGED <<now, tokens, lastFill, slept, expired, granted, before>>

Take(c) ==
    /\ Asks(c) /\ Refilled >= Unit
    /\ tokens' = Refilled - Unit
    /\ lastFill' = FilledAt
    /\ granted' = granted + 1
    /\ call' = [call EXCEPT ![c] = "granted"]
    /\ UNCHANGED <<now, wake, slept, expired, before>>

(* No token: the lock is released, and the caller leaves or sleeps. *)
Sleep(c) ==
    /\ Asks(c) /\ Refilled < Unit
    /\ tokens' = Refilled
    /\ lastFill' = FilledAt
    /\ IF c \in expired
       THEN call' = [call EXCEPT ![c] = "cancelled"] /\ UNCHANGED <<wake, slept>>
       ELSE /\ wake' = [wake EXCEPT ![c] = now + Nap(Refilled)]
            /\ slept' = slept \cup {c}
            /\ UNCHANGED call
    /\ UNCHANGED <<now, expired, granted, before>>

Leave(c) ==
    /\ call[c] = "waiting" /\ now >= wake[c] /\ MustLeave(c)
    /\ call' = [call EXCEPT ![c] = "cancelled"]
    /\ UNCHANGED <<now, tokens, lastFill, wake, slept, expired, granted, before>>

(* The caller's context ends. *)
Expire(c) ==
    /\ c \notin expired
    /\ expired' = expired \cup {c}
    /\ UNCHANGED <<now, tokens, lastFill, call, wake, slept, granted, before>>

(* Time passes, but nobody sleeps Oversleep ticks too long. *)
Tick ==
    /\ now < MaxClock
    /\ \A c \in Callers : call[c] = "waiting" => now < wake[c] + Oversleep
    /\ now' = now + 1
    /\ before' = [before EXCEPT ![now + 1] = granted]
    /\ UNCHANGED <<tokens, lastFill, call, wake, slept, expired, granted>>

Wait(c) == Take(c) \/ Sleep(c) \/ Leave(c)

BucketNext == (\E c \in Callers : Call(c) \/ Wait(c) \/ Expire(c)) \/ Tick

BucketSpec == BucketInit /\ [][BucketNext]_bucketVars

(* Goroutines run and time passes; nobody need call, and no context end. *)
BucketFairSpec == BucketSpec /\ WF_bucketVars(Tick) /\ \A c \in Callers : WF_bucketVars(Wait(c))

-----------------------------------------------------------------------------
(* Properties *)

(* Every variable has its type, and the bucket never holds more than Burst. *)
BucketTypeOK ==
    /\ now \in 0 .. MaxClock
    /\ tokens \in 0 .. Full
    /\ lastFill \in {Never} \cup (0 .. now)
    /\ call \in [Callers -> {"idle", "waiting", "granted", "cancelled"}]
    /\ wake \in [Callers -> Nat]
    /\ slept \subseteq Callers /\ expired \subseteq Callers
    /\ granted \in Nat
    /\ before \in [0 .. MaxClock -> Nat]

(* What the limiter is for: in no window of time, however many callers wake
   together, are more tokens handed out than a full bucket and what the window
   earns.  The window starts with tick t and ends now. *)
WindowBound ==
    \A t \in 0 .. now : (granted - before[t]) * Unit <= Full + Rate * (now - t)

(* Every call ends, with a token or with its context: a caller that wakes too
   early, or to find the token taken, gets a later one. *)
WaitEnds == \A c \in Callers : call[c] = "waiting" ~> call[c] \in {"granted", "cancelled"}
=============================================================================
