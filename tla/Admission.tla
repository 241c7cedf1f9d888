----------------------------- MODULE Admission -----------------------------
(***************************************************************************)
(* Worker-local admission control (src/src/Admission.zig) together with    *)
(* the way the event loop drives it: every permit is taken and returned on *)
(* the worker's own thread, with times the worker has read from the        *)
(* monotonic clock.  tick() reads the clock on entry but refills only      *)
(* after finishApplications (worker.zig 3936-3940).  With an application   *)
(* that runs on its own threads, finishApplications may itself admit at    *)
(* later times: HTTP/2 streams (http2.zig 618), and the pipelined HTTP/1   *)
(* head behind a streamed response that ends without bytes of its own.     *)
(***************************************************************************)
EXTENDS Integers

CONSTANTS
  MaxActive,          \* options.max_active
  MaxRejecting,       \* options.max_rejecting
  RequestsPerSecond,  \* options.requests_per_second, 0 disables the bucket
  Burst,              \* options.burst
  RejectionsPerSecond,\* options.rejections_per_second
  TokenScale,         \* token_scale: balance of one token, ns in a second
  MaxU32, MaxU64,     \* largest values of the integer types in use
  Isolated,           \* isolated_application: hooks run on executor threads
  MaxClock            \* bound: the last instant the model reaches

ASSUME AdmissionAssumption ==
  /\ MaxActive \in Nat /\ MaxRejecting \in Nat
  /\ MaxU32 \in Nat /\ MaxU64 \in Nat
  /\ RequestsPerSecond \in 0 .. MaxU32
  /\ RejectionsPerSecond \in 0 .. MaxU32
  /\ Burst \in 0 .. MaxU32
  /\ TokenScale \in Nat \ {0}
  /\ 2 * (MaxU32 * TokenScale) <= MaxU64    \* 2 (2^32 - 1) 10^9 < 2^64
  /\ Isolated \in BOOLEAN
  /\ MaxClock \in Nat

VARIABLES
  active, rejecting, tokens, rejection_tokens, last_refill_ns, \* Admission fields
  clock,              \* platform.monotonicNs()
  draining,           \* the flag processInput derives from the worker's shutdown
  in_tick, tick_now,  \* tick() is running, and the time it read on entry
  spent, rejection_spent, \* history: tokens ever taken from each bucket
  rewound             \* history: how far refills moved last_refill_ns backwards

fields == <<active, rejecting, tokens, rejection_tokens, last_refill_ns>>
vars == <<fields, clock, draining, in_tick, tick_now, spent, rejection_spent,
          rewound>>

Least(a, b) == IF a <= b THEN a ELSE b

\* Zig's +|, *| and -| on u64.
SatAdd(a, b) == Least(a + b, MaxU64)
SatMul(a, b) == Least(a * b, MaxU64)
SatSub(a, b) == IF a <= b THEN 0 ELSE a - b

Capacity(burst) == burst * TokenScale

\* Mutant of refillBucket: the long path wraps.
refillBucketWraps(balance, burst, rate, elapsed) ==
  IF balance >= Capacity(burst) THEN Capacity(burst)
  ELSE IF elapsed <= TokenScale
       THEN Least(Capacity(burst), balance + elapsed * rate)
       ELSE Least(Capacity(burst),
                  (balance + elapsed * rate) % (MaxU64 + 1))

refillBucket(balance, burst, rate, elapsed) ==
  IF balance >= Capacity(burst) THEN Capacity(burst)
  ELSE IF elapsed <= TokenScale
       THEN Least(Capacity(burst), balance + elapsed * rate)
       ELSE Least(Capacity(burst), SatAdd(balance, SatMul(elapsed, rate)))

Elapsed(now) == SatSub(now, last_refill_ns)

\* The balances that refill(now) leaves behind.
Refilled(now) == refillBucket(tokens, Burst, RequestsPerSecond, Elapsed(now))
RefilledRejections(now) ==
  refillBucket(rejection_tokens, RejectionsPerSecond, RejectionsPerSecond,
               Elapsed(now))

CanAdmit(balance, drain) ==
  /\ ~drain
  /\ active < MaxActive
  /\ RequestsPerSecond = 0 \/ balance >= TokenScale

CanReject(balance) == rejecting # MaxRejecting /\ balance >= TokenScale

exhausted(drain) ==
  /\ ~CanAdmit(tokens, drain)
  /\ ~(rejecting < MaxRejecting /\ rejection_tokens >= TokenScale)

(***************************************************************************)
(* Steps of the worker.  now is always a clock value the worker has read.  *)
(***************************************************************************)
Cost == IF RequestsPerSecond # 0 THEN TokenScale ELSE 0

\* Mutant of refill: the time of the refill is not recorded.
refillForgets(now) ==
  /\ now \in Nat
  /\ UNCHANGED <<last_refill_ns, rewound>>

refill(now) ==
  /\ last_refill_ns' = now
  /\ rewound' = rewound + SatSub(last_refill_ns, now)

Admit(now, drain) ==
  /\ CanAdmit(Refilled(now), drain)
  /\ active' = active + 1
  /\ tokens' = Refilled(now) - Cost
  /\ rejection_tokens' = RefilledRejections(now)
  /\ refill(now)
  /\ spent' = spent + Cost
  /\ UNCHANGED <<rejecting, rejection_spent>>

acquireRejection(now) ==
  /\ tokens' = Refilled(now)
  /\ refill(now)
  /\ \/ /\ CanReject(RefilledRejections(now))
        /\ rejecting' = rejecting + 1
        /\ rejection_tokens' = RefilledRejections(now) - TokenScale
        /\ rejection_spent' = rejection_spent + TokenScale
     \/ /\ ~CanReject(RefilledRejections(now))
        /\ rejection_tokens' = RefilledRejections(now)
        /\ UNCHANGED <<rejecting, rejection_spent>>
  /\ UNCHANGED <<active, spent>>

acquire(now, drain) ==
  \/ Admit(now, drain)
  \/ ~CanAdmit(Refilled(now), drain) /\ acquireRejection(now)

\* Handlers run to completion one after another, so only what finishApplications
\* does can fall between tick's reading of the clock and its refill.
MayAdmit == in_tick => Isolated

AcquireHead ==
  /\ MayAdmit
  /\ acquire(clock, draining)
  /\ UNCHANGED <<clock, draining, in_tick, tick_now>>

\* drive() admits HTTP/2 streams whether or not the worker is draining.
AcquireStream ==
  /\ MayAdmit
  /\ acquire(clock, FALSE)
  /\ UNCHANGED <<clock, draining, in_tick, tick_now>>

\* reject() and status() of a request that never reached admission.
RejectUnadmitted ==
  /\ MayAdmit
  /\ acquireRejection(clock)
  /\ UNCHANGED <<clock, draining, in_tick, tick_now>>

\* processInput refills before it gives up on a head for want of budget.
CloseBeforeHead ==
  /\ MayAdmit
  /\ exhausted(draining)
  /\ tokens' = Refilled(clock)
  /\ rejection_tokens' = RefilledRejections(clock)
  /\ refill(clock)
  /\ UNCHANGED <<active, rejecting, spent, rejection_spent, clock, draining,
                 in_tick, tick_now>>

release ==
  /\ \/ active > 0 /\ active' = active - 1 /\ UNCHANGED rejecting
     \/ rejecting > 0 /\ rejecting' = rejecting - 1 /\ UNCHANGED active
  /\ UNCHANGED <<tokens, rejection_tokens, last_refill_ns, clock, draining,
                 in_tick, tick_now, spent, rejection_spent, rewound>>

TickBegin ==
  /\ ~in_tick
  /\ in_tick' = TRUE
  /\ tick_now' = clock
  /\ UNCHANGED <<fields, clock, draining, spent, rejection_spent, rewound>>

TickRefill ==
  /\ in_tick
  /\ in_tick' = FALSE
  /\ tokens' = Refilled(tick_now)
  /\ rejection_tokens' = RefilledRejections(tick_now)
  /\ refill(tick_now)
  /\ UNCHANGED <<active, rejecting, clock, draining, tick_now, spent,
                 rejection_spent>>

BeginDrain ==
  /\ ~draining
  /\ draining' = TRUE
  /\ UNCHANGED <<fields, clock, in_tick, tick_now, spent, rejection_spent,
                 rewound>>

Advance ==
  /\ clock < MaxClock
  /\ clock' = clock + 1
  /\ UNCHANGED <<fields, draining, in_tick, tick_now, spent, rejection_spent,
                 rewound>>

Init ==
  /\ active = 0 /\ rejecting = 0
  /\ tokens = Capacity(Burst)
  /\ rejection_tokens = Capacity(RejectionsPerSecond)
  /\ last_refill_ns = 0 /\ clock = 0
  /\ draining = FALSE
  /\ in_tick = FALSE /\ tick_now = 0
  /\ spent = 0 /\ rejection_spent = 0
  /\ rewound = 0

Next ==
  \/ AcquireHead \/ AcquireStream \/ RejectUnadmitted \/ CloseBeforeHead
  \/ release \/ TickBegin \/ TickRefill \/ BeginDrain \/ Advance

Spec == Init /\ [][Next]_vars
-----------------------------------------------------------------------------
(***************************************************************************)
(* Properties                                                              *)
(***************************************************************************)
\* The fields keep their types: permits stay within their limits and no
\* balance exceeds its bucket (Admission.zig 42, 64, 106).
TypeOK ==
  /\ active \in 0 .. MaxActive
  /\ rejecting \in 0 .. MaxRejecting
  /\ tokens \in 0 .. Capacity(Burst)
  /\ rejection_tokens \in 0 .. Capacity(RejectionsPerSecond)
  /\ last_refill_ns \in Nat /\ clock \in 0 .. MaxClock /\ tick_now \in Nat
  /\ draining \in BOOLEAN /\ in_tick \in BOOLEAN
  /\ spent \in Nat /\ rejection_spent \in Nat /\ rewound \in Nat

\* Everything ever taken from a bucket, and what is left in it, was either
\* there at the start or credited once for each elapsed nanosecond, except
\* for the time that stale refills rewound (refill, Admission.zig 87-102).
CreditBound ==
  /\ tokens + spent
       <= Capacity(Burst) + RequestsPerSecond * (last_refill_ns + rewound)
  /\ rejection_tokens + rejection_spent
       <= Capacity(RejectionsPerSecond)
            + RejectionsPerSecond * (last_refill_ns + rewound)

\* Both rate limits hold over the whole life of the worker: no more tokens
\* are spent than the initial burst plus the rate times the time elapsed.
RateBound ==
  /\ spent <= Capacity(Burst) + RequestsPerSecond * clock
  /\ rejection_spent
       <= Capacity(RejectionsPerSecond) + RejectionsPerSecond * clock

\* In every configuration what stale refills hand out beyond the rate limits
\* is exactly what they rewound: spending is bounded by the burst and the rate
\* over the time elapsed plus the time rewound (tick, worker.zig 3936-3940).
RateKept ==
  /\ spent <= Capacity(Burst) + RequestsPerSecond * (clock + rewound)
  /\ rejection_spent
       <= Capacity(RejectionsPerSecond)
            + RejectionsPerSecond * (clock + rewound)

\* From every balance the worker can hold, refillBucket computes the exact
\* credit for every elapsed u64, fast path and saturating path alike.
RefillExact ==
  \A elapsed \in 0 .. MaxU64 :
    /\ refillBucket(tokens, Burst, RequestsPerSecond, elapsed)
         = Least(Capacity(Burst), tokens + elapsed * RequestsPerSecond)
    /\ refillBucket(rejection_tokens, RejectionsPerSecond,
                    RejectionsPerSecond, elapsed)
         = Least(Capacity(RejectionsPerSecond),
                 rejection_tokens + elapsed * RejectionsPerSecond)

\* The unchecked addition of the fast path cannot overflow u64 (the comment
\* at Admission.zig 107).
NoOverflow ==
  /\ tokens + TokenScale * RequestsPerSecond <= MaxU64
  /\ rejection_tokens + TokenScale * RejectionsPerSecond <= MaxU64

\* refillBucket's u64 arithmetic: exact where it saturates, and within u64
\* where it does not.
ArithmeticExact == RefillExact /\ NoOverflow
=============================================================================
