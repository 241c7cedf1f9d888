-------------------------- MODULE AdmissionProofs --------------------------
(***************************************************************************)
(* Proofs about Admission for every configuration: permit and balance      *)
(* bounds, exactness of refillBucket, and the rate limits.                 *)
(***************************************************************************)
EXTENDS Admission, TLAPS

(***************************************************************************)
(* Arithmetic of the buckets                                               *)
(***************************************************************************)

\* Products of naturals are naturals and distribute over sums.
LEMMA Product ==
  ASSUME NEW a \in Nat, NEW b \in Nat, NEW c \in Nat
  PROVE  a * b \in Nat /\ a * (b + c) = a * b + c * a /\ a * b = b * a
BY SMT

\* A bucket's capacity, and one second of credit, fit twice into a u64.
LEMMA CapacityFits ==
  ASSUME NEW burst \in 0 .. MaxU32
  PROVE  /\ Capacity(burst) \in Nat
         /\ TokenScale * burst = Capacity(burst)
         /\ 2 * Capacity(burst) <= MaxU64
         /\ Capacity(burst) <= MaxU32 * TokenScale
<1>1. burst \in Nat /\ MaxU32 - burst \in Nat /\ TokenScale \in Nat
  BY AdmissionAssumption
<1>2. burst * TokenScale \in Nat /\ TokenScale * burst = burst * TokenScale
  BY <1>1, Product
<1>3. /\ TokenScale * (burst + (MaxU32 - burst))
           = TokenScale * burst + (MaxU32 - burst) * TokenScale
      /\ (MaxU32 - burst) * TokenScale \in Nat
  BY <1>1, Product
<1>4. /\ burst + (MaxU32 - burst) = MaxU32
      /\ TokenScale * MaxU32 = MaxU32 * TokenScale
  BY <1>1, Product, AdmissionAssumption
<1>5. burst * TokenScale <= MaxU32 * TokenScale
  BY <1>2, <1>3, <1>4
<1> QED
  BY <1>2, <1>5, AdmissionAssumption DEF Capacity

\* From any balance within capacity refillBucket gives the exact credit: the
\* saturating arithmetic of long intervals never shows.
LEMMA RefillBucketExact ==
  ASSUME NEW burst \in 0 .. MaxU32, NEW rate \in 0 .. MaxU32,
         NEW balance \in 0 .. Capacity(burst), NEW elapsed \in Nat
  PROVE  /\ refillBucket(balance, burst, rate, elapsed)
              = Least(Capacity(burst), balance + elapsed * rate)
         /\ refillBucket(balance, burst, rate, elapsed) \in 0 .. Capacity(burst)
         /\ refillBucket(balance, burst, rate, elapsed)
              <= balance + elapsed * rate
<1>1. /\ Capacity(burst) \in Nat /\ Capacity(burst) <= MaxU64
      /\ balance \in Nat /\ balance <= Capacity(burst)
  BY CapacityFits, AdmissionAssumption
<1>2. elapsed * rate \in Nat
  BY Product
<1>3. MaxU64 \in Nat
  BY AdmissionAssumption
<1> DEFINE credit == elapsed * rate
           cap == Capacity(burst)
<1>4. /\ cap \in Nat /\ cap <= MaxU64 /\ balance \in Nat /\ balance <= cap
      /\ credit \in Nat /\ MaxU64 \in Nat
  BY <1>1, <1>2, <1>3
<1>5. refillBucket(balance, burst, rate, elapsed)
        = IF balance >= cap THEN cap
          ELSE IF elapsed <= TokenScale THEN Least(cap, balance + credit)
               ELSE Least(cap, SatAdd(balance, Least(credit, MaxU64)))
  BY DEF refillBucket, SatMul
<1> HIDE DEF credit, cap
<1>6. Least(cap, SatAdd(balance, Least(credit, MaxU64)))
        = Least(cap, balance + credit)
  BY <1>4 DEF Least, SatAdd
<1>7. balance >= cap => Least(cap, balance + credit) = cap
  BY <1>4 DEF Least
<1>8. refillBucket(balance, burst, rate, elapsed) = Least(cap, balance + credit)
  BY <1>5, <1>6, <1>7
<1>9. /\ Least(cap, balance + credit) \in 0 .. cap
      /\ Least(cap, balance + credit) <= balance + credit
  BY <1>4 DEF Least
<1> QED
  BY <1>8, <1>9 DEF cap, credit

\* Steps that refill at a time now credit exactly the elapsed time, and the
\* new last_refill_ns plus the rewound time has grown by as much.
LEMMA RefillStep ==
  ASSUME TypeOK, NEW now \in Nat, refill(now)
  PROVE  /\ Refilled(now) \in 0 .. Capacity(Burst)
         /\ Refilled(now) <= tokens + Elapsed(now) * RequestsPerSecond
         /\ RefilledRejections(now) \in 0 .. Capacity(RejectionsPerSecond)
         /\ RefilledRejections(now)
              <= rejection_tokens + Elapsed(now) * RejectionsPerSecond
         /\ Elapsed(now) \in Nat
         /\ last_refill_ns' = now /\ rewound' \in Nat
         /\ last_refill_ns' + rewound'
              = (last_refill_ns + rewound) + Elapsed(now)
<1>1. Elapsed(now) \in Nat
  BY DEF Elapsed, SatSub, TypeOK
<1>2. /\ RequestsPerSecond \in 0 .. MaxU32 /\ Burst \in 0 .. MaxU32
      /\ RejectionsPerSecond \in 0 .. MaxU32
  BY AdmissionAssumption
<1>3. /\ Refilled(now) \in 0 .. Capacity(Burst)
      /\ Refilled(now) <= tokens + Elapsed(now) * RequestsPerSecond
  BY <1>1, <1>2, RefillBucketExact DEF Refilled, TypeOK
<1>4. /\ RefilledRejections(now) \in 0 .. Capacity(RejectionsPerSecond)
      /\ RefilledRejections(now)
           <= rejection_tokens + Elapsed(now) * RejectionsPerSecond
  BY <1>1, <1>2, RefillBucketExact DEF RefilledRejections, TypeOK
<1> QED
  BY <1>1, <1>3, <1>4 DEF refill, Elapsed, SatSub, TypeOK

(***************************************************************************)
(* The inductive invariant                                                 *)
(***************************************************************************)

\* Clock reads lie in the past; when hooks run inline nothing refills between
\* a tick's clock read and its refill, so nothing is ever rewound.
Reads ==
  /\ last_refill_ns <= clock /\ tick_now <= clock
  /\ ~Isolated => rewound = 0 /\ (in_tick => last_refill_ns <= tick_now)

IInv == TypeOK /\ CreditBound /\ Reads

\* Crediting elapsed time keeps the account balanced for any rate.
LEMMA CreditStep ==
  ASSUME NEW rate \in Nat, NEW cap \in Nat, NEW time \in Nat, NEW e \in Nat,
         NEW balance \in Nat, NEW used \in Nat,
         balance + used <= cap + rate * time,
         NEW refilled \in Nat, refilled <= balance + e * rate
  PROVE  refilled + used <= cap + rate * (time + e)
<1>1. rate * (time + e) = rate * time + e * rate /\ rate * time \in Nat
  BY Product
<1>2. e * rate \in Nat
  BY Product
<1> QED
  BY <1>1, <1>2

\* A step that refills at now and then takes paid and rejection_paid tokens
\* keeps both accounts and the types of the fields it writes.
LEMMA SpendStep ==
  ASSUME TypeOK, CreditBound, NEW now \in Nat, refill(now),
         NEW paid \in Nat, NEW rejection_paid \in Nat,
         paid <= Refilled(now), rejection_paid <= RefilledRejections(now),
         tokens' = Refilled(now) - paid, spent' = spent + paid,
         rejection_tokens' = RefilledRejections(now) - rejection_paid,
         rejection_spent' = rejection_spent + rejection_paid
  PROVE  /\ CreditBound'
         /\ tokens' \in 0 .. Capacity(Burst)
         /\ rejection_tokens' \in 0 .. Capacity(RejectionsPerSecond)
         /\ spent' \in Nat /\ rejection_spent' \in Nat
         /\ last_refill_ns' = now /\ rewound' \in Nat
<1>1. /\ RequestsPerSecond \in Nat /\ RejectionsPerSecond \in Nat
      /\ Capacity(Burst) \in Nat /\ Capacity(RejectionsPerSecond) \in Nat
  BY AdmissionAssumption, CapacityFits
<1>2. /\ Refilled(now) \in 0 .. Capacity(Burst)
      /\ Refilled(now) <= tokens + Elapsed(now) * RequestsPerSecond
      /\ RefilledRejections(now) \in 0 .. Capacity(RejectionsPerSecond)
      /\ RefilledRejections(now)
           <= rejection_tokens + Elapsed(now) * RejectionsPerSecond
      /\ Elapsed(now) \in Nat /\ last_refill_ns' = now /\ rewound' \in Nat
      /\ last_refill_ns' + rewound' = (last_refill_ns + rewound) + Elapsed(now)
  BY RefillStep
<1>3. /\ tokens \in Nat /\ spent \in Nat /\ rejection_tokens \in Nat
      /\ rejection_spent \in Nat /\ last_refill_ns + rewound \in Nat
  BY <1>1 DEF TypeOK
<1>4. Refilled(now) + spent
        <= Capacity(Burst)
             + RequestsPerSecond * (last_refill_ns' + rewound')
  BY <1>1, <1>2, <1>3, CreditStep DEF CreditBound
<1>5. RefilledRejections(now) + rejection_spent
        <= Capacity(RejectionsPerSecond)
             + RejectionsPerSecond * (last_refill_ns' + rewound')
  BY <1>1, <1>2, <1>3, CreditStep DEF CreditBound
<1>6. /\ tokens' + spent' = Refilled(now) + spent
      /\ rejection_tokens' + rejection_spent'
           = RefilledRejections(now) + rejection_spent
  BY <1>1, <1>2, <1>3
<1>7. CreditBound'
  <2>1. Capacity(Burst)' = Capacity(Burst)
        /\ Capacity(RejectionsPerSecond)' = Capacity(RejectionsPerSecond)
    BY DEF Capacity
  <2> QED BY <1>4, <1>5, <1>6, <2>1 DEF CreditBound
<1> QED
  BY <1>1, <1>2, <1>3, <1>7

\* A refused request refills at now and takes at most one rejection token.
LEMMA RejectionStep ==
  ASSUME IInv, NEW now \in Nat, acquireRejection(now)
  PROVE  /\ CreditBound' /\ refill(now)
         /\ active' \in 0 .. MaxActive /\ rejecting' \in 0 .. MaxRejecting
         /\ tokens' \in 0 .. Capacity(Burst)
         /\ rejection_tokens' \in 0 .. Capacity(RejectionsPerSecond)
         /\ spent' \in Nat /\ rejection_spent' \in Nat
         /\ last_refill_ns' = now /\ rewound' \in Nat
<1> USE DEF IInv
<1>1. /\ Refilled(now) \in Nat /\ RefilledRejections(now) \in Nat
      /\ refill(now)
  BY RefillStep, CapacityFits, AdmissionAssumption DEF acquireRejection
<1>2. /\ active' \in 0 .. MaxActive /\ rejecting' \in 0 .. MaxRejecting
  BY AdmissionAssumption DEF acquireRejection, TypeOK, CanReject
<1>3. CASE CanReject(RefilledRejections(now))
  <2>1. /\ tokens' = Refilled(now) - 0 /\ spent' = spent + 0
        /\ TokenScale \in Nat /\ TokenScale <= RefilledRejections(now)
        /\ rejection_tokens' = RefilledRejections(now) - TokenScale
        /\ rejection_spent' = rejection_spent + TokenScale
    BY <1>1, <1>3, AdmissionAssumption DEF acquireRejection, CanReject, TypeOK
  <2> QED BY <1>1, <1>2, <2>1, SpendStep
<1>4. CASE ~CanReject(RefilledRejections(now))
  <2>1. /\ tokens' = Refilled(now) - 0 /\ spent' = spent + 0
        /\ rejection_tokens' = RefilledRejections(now) - 0
        /\ rejection_spent' = rejection_spent + 0
    BY <1>1, <1>4 DEF acquireRejection, TypeOK
  <2> QED BY <1>1, <1>2, <2>1, SpendStep
<1> QED BY <1>3, <1>4

\* Both outcomes of acquire.
LEMMA AcquireStep ==
  ASSUME IInv, NEW now \in Nat, NEW drain \in BOOLEAN, acquire(now, drain)
  PROVE  /\ CreditBound' /\ refill(now)
         /\ active' \in 0 .. MaxActive /\ rejecting' \in 0 .. MaxRejecting
         /\ tokens' \in 0 .. Capacity(Burst)
         /\ rejection_tokens' \in 0 .. Capacity(RejectionsPerSecond)
         /\ spent' \in Nat /\ rejection_spent' \in Nat
         /\ last_refill_ns' = now /\ rewound' \in Nat
<1>1. CASE acquireRejection(now)
  BY <1>1, RejectionStep
<1>2. CASE Admit(now, drain)
  <2>1. /\ Refilled(now) \in Nat /\ RefilledRejections(now) \in Nat
        /\ refill(now)
    BY <1>2, RefillStep, CapacityFits, AdmissionAssumption DEF Admit, IInv
  <2>2. Cost \in Nat /\ Cost <= Refilled(now)
    BY <1>2, <2>1, AdmissionAssumption DEF Cost, Admit, CanAdmit
  <2>3. /\ tokens' = Refilled(now) - Cost /\ spent' = spent + Cost
        /\ rejection_tokens' = RefilledRejections(now) - 0
        /\ rejection_spent' = rejection_spent + 0
    BY <1>2, <2>1 DEF Admit, IInv, TypeOK
  <2>4. active' \in 0 .. MaxActive /\ rejecting' \in 0 .. MaxRejecting
    BY <1>2, AdmissionAssumption DEF Admit, CanAdmit, IInv, TypeOK
  <2> QED
    BY <2>1, <2>2, <2>3, <2>4, SpendStep DEF IInv
<1> QED BY <1>1, <1>2 DEF acquire

\* The initial balances and clocks satisfy the inductive invariant.
LEMMA InitIInv == Init => IInv
<1> SUFFICES ASSUME Init PROVE IInv
  OBVIOUS
<1>1. /\ Capacity(Burst) \in Nat /\ Capacity(RejectionsPerSecond) \in Nat
  BY CapacityFits, AdmissionAssumption
<1>2. TypeOK
  <2>1. draining \in BOOLEAN /\ in_tick \in BOOLEAN
    BY Zenon DEF Init
  <2>2. /\ active \in 0 .. MaxActive /\ rejecting \in 0 .. MaxRejecting
        /\ tokens \in 0 .. Capacity(Burst) /\ clock \in 0 .. MaxClock
        /\ rejection_tokens \in 0 .. Capacity(RejectionsPerSecond)
    BY <1>1, AdmissionAssumption DEF Init
  <2>3. /\ last_refill_ns \in Nat /\ tick_now \in Nat /\ spent \in Nat
        /\ rejection_spent \in Nat /\ rewound \in Nat
    BY DEF Init
  <2> QED BY <2>1, <2>2, <2>3, Zenon DEF TypeOK
<1>3. /\ RequestsPerSecond * (0 + 0) \in Nat
      /\ RejectionsPerSecond * (0 + 0) \in Nat
  BY AdmissionAssumption, Product
<1>4. CreditBound
  BY <1>1, <1>3 DEF Init, CreditBound
<1> QED
  BY <1>2, <1>4 DEF Init, IInv, Reads

\* Every step, of a request, a tick or the clock, preserves the inductive invariant.
LEMMA NextIInv == IInv /\ [Next]_vars => IInv'
<1> SUFFICES ASSUME IInv, [Next]_vars PROVE IInv'
  OBVIOUS
<1> USE DEF IInv
<1>1. /\ clock \in Nat /\ tick_now \in Nat /\ draining \in BOOLEAN
      /\ Capacity(Burst)' = Capacity(Burst)
      /\ Capacity(RejectionsPerSecond)' = Capacity(RejectionsPerSecond)
  BY DEF TypeOK, Capacity
<1>2. CASE AcquireHead
  BY <1>1, <1>2, AcquireStep DEF AcquireHead, MayAdmit, TypeOK, Reads, refill, SatSub
<1>3. CASE AcquireStream
  <2>1. /\ CreditBound' /\ refill(clock)
        /\ active' \in 0 .. MaxActive /\ rejecting' \in 0 .. MaxRejecting
        /\ tokens' \in 0 .. Capacity(Burst)
        /\ rejection_tokens' \in 0 .. Capacity(RejectionsPerSecond)
        /\ spent' \in Nat /\ rejection_spent' \in Nat
        /\ last_refill_ns' = clock /\ rewound' \in Nat
    <3>1. acquire(clock, FALSE) /\ FALSE \in BOOLEAN
      BY <1>3, Zenon DEF AcquireStream
    <3> QED BY <1>1, <3>1, AcquireStep, Zenon
  <2>2. Reads'
    BY <1>1, <1>3, <2>1 DEF AcquireStream, MayAdmit, TypeOK, Reads, refill, SatSub
  <2> QED
    BY <1>1, <1>3, <2>1, <2>2 DEF AcquireStream, TypeOK
<1>4. CASE RejectUnadmitted
  BY <1>1, <1>4, RejectionStep DEF RejectUnadmitted, MayAdmit, TypeOK, Reads, refill, SatSub
<1>5. CASE CloseBeforeHead
  <2>1. /\ Refilled(clock) \in Nat /\ RefilledRejections(clock) \in Nat
    BY <1>1, <1>5, RefillStep, CapacityFits, AdmissionAssumption
    DEF CloseBeforeHead
  <2>2. /\ tokens' = Refilled(clock) - 0 /\ spent' = spent + 0
        /\ rejection_tokens' = RefilledRejections(clock) - 0
        /\ rejection_spent' = rejection_spent + 0 /\ refill(clock)
    BY <1>5, <2>1 DEF CloseBeforeHead, TypeOK
  <2>3. /\ CreditBound' /\ tokens' \in 0 .. Capacity(Burst)
        /\ rejection_tokens' \in 0 .. Capacity(RejectionsPerSecond)
        /\ spent' \in Nat /\ rejection_spent' \in Nat
        /\ last_refill_ns' = clock /\ rewound' \in Nat
    <3>1. 0 \in Nat /\ 0 <= Refilled(clock) /\ 0 <= RefilledRejections(clock)
      BY <2>1
    <3> QED BY <1>1, <2>2, <3>1, SpendStep
  <2>4. Reads'
    BY <1>1, <1>5, <2>2, <2>3 DEF CloseBeforeHead, MayAdmit, TypeOK, Reads, refill, SatSub
  <2> QED
    BY <1>1, <1>5, <2>3, <2>4 DEF CloseBeforeHead, TypeOK
<1>6. CASE release
  BY <1>6, AdmissionAssumption DEF release, TypeOK, CreditBound, Reads, Capacity
<1>7. CASE TickBegin
  BY <1>7 DEF TickBegin, fields, TypeOK, CreditBound, Reads, Capacity
<1>8. CASE TickRefill
  <2>1. /\ Refilled(tick_now) \in Nat /\ RefilledRejections(tick_now) \in Nat
    BY <1>1, <1>8, RefillStep, CapacityFits, AdmissionAssumption
    DEF TickRefill
  <2>2. /\ tokens' = Refilled(tick_now) - 0 /\ spent' = spent + 0
        /\ rejection_tokens' = RefilledRejections(tick_now) - 0
        /\ rejection_spent' = rejection_spent + 0 /\ refill(tick_now)
    BY <1>8, <2>1 DEF TickRefill, TypeOK
  <2>3. /\ CreditBound' /\ tokens' \in 0 .. Capacity(Burst)
        /\ rejection_tokens' \in 0 .. Capacity(RejectionsPerSecond)
        /\ spent' \in Nat /\ rejection_spent' \in Nat
        /\ last_refill_ns' = tick_now /\ rewound' \in Nat
    <3>1. 0 \in Nat /\ 0 <= Refilled(tick_now) /\ 0 <= RefilledRejections(tick_now)
      BY <2>1
    <3> QED BY <1>1, <2>2, <3>1, SpendStep
  <2>4. Reads'
    BY <1>1, <1>8, <2>2, <2>3 DEF TickRefill, TypeOK, Reads, refill, SatSub
  <2> QED
    BY <1>1, <1>8, <2>3, <2>4, Zenon DEF TickRefill, TypeOK
<1>9. CASE BeginDrain
  BY <1>9 DEF BeginDrain, fields, TypeOK, CreditBound, Reads, Capacity
<1>10. CASE Advance
  BY <1>10, AdmissionAssumption DEF Advance, fields, TypeOK, CreditBound, Reads, Capacity
<1>11. CASE UNCHANGED vars
  BY <1>11 DEF vars, fields, TypeOK, CreditBound, Reads, Capacity
<1> QED
  BY <1>2, <1>3, <1>4, <1>5, <1>6, <1>7, <1>8, <1>9, <1>10, <1>11 DEF Next

(***************************************************************************)
(* Theorems                                                                *)
(***************************************************************************)

\* In every configuration the permit counts and balances stay in range.
THEOREM TypeCorrect == Spec => []TypeOK
BY InitIInv, NextIInv, PTL DEF Spec, IInv

\* In every configuration each bucket pays out only what it held at first
\* and what elapsed or rewound time credited to it.
THEOREM CreditCorrect == Spec => []CreditBound
BY InitIInv, NextIInv, PTL DEF Spec, IInv

\* In every configuration both rates bound what is spent, up to the time that
\* stale refills rewound.
THEOREM RateKeptCorrect == Spec => []RateKept
<1>1. IInv => RateKept
  <2> SUFFICES ASSUME IInv PROVE RateKept
    OBVIOUS
  <2> USE DEF IInv
  <2> DEFINE then == last_refill_ns + rewound
             now == clock + rewound
  <2>1. then \in Nat /\ now \in Nat /\ now - then \in Nat
    BY DEF Reads, TypeOK
  <2>2. /\ RequestsPerSecond \in Nat /\ RejectionsPerSecond \in Nat
        /\ Capacity(Burst) \in Nat /\ Capacity(RejectionsPerSecond) \in Nat
    BY AdmissionAssumption, CapacityFits
  <2>3. /\ tokens \in Nat /\ spent \in Nat
        /\ rejection_tokens \in Nat /\ rejection_spent \in Nat
    BY <2>2 DEF TypeOK
  <2>4. /\ tokens + spent <= Capacity(Burst) + RequestsPerSecond * then
        /\ rejection_tokens + rejection_spent
             <= Capacity(RejectionsPerSecond) + RejectionsPerSecond * then
    BY Zenon DEF CreditBound
  <2> HIDE DEF then, now
  <2>5. ASSUME NEW rate \in Nat
        PROVE  /\ rate * then <= rate * now
               /\ rate * then \in Nat /\ rate * now \in Nat
    <3>1. rate * (then + (now - then)) = rate * then + (now - then) * rate
      BY <2>1, Product
    <3>2. /\ (now - then) * rate \in Nat
          /\ rate * then \in Nat /\ rate * now \in Nat
      BY <2>1, Product
    <3>3. then + (now - then) = now
      BY <2>1
    <3> QED BY <3>1, <3>2, <3>3
  <2>6. spent <= Capacity(Burst) + RequestsPerSecond * now
    <3>1. /\ RequestsPerSecond * then <= RequestsPerSecond * now
          /\ RequestsPerSecond * then \in Nat /\ RequestsPerSecond * now \in Nat
      BY <2>2, <2>5
    <3> QED BY <2>2, <2>3, <2>4, <3>1
  <2>7. rejection_spent
          <= Capacity(RejectionsPerSecond) + RejectionsPerSecond * now
    <3>1. /\ RejectionsPerSecond * then <= RejectionsPerSecond * now
          /\ RejectionsPerSecond * then \in Nat /\ RejectionsPerSecond * now \in Nat
      BY <2>2, <2>5
    <3> QED BY <2>2, <2>3, <2>4, <3>1
  <2> QED
    BY <2>6, <2>7 DEF RateKept, now
<1> QED
  BY <1>1, InitIInv, NextIInv, PTL DEF Spec

\* On a worker whose tick admits nothing before its refill, both configured
\* rates bound what is spent over the worker's whole life.
THEOREM RateLimited == ~Isolated => (Spec => []RateBound)
<1> SUFFICES ASSUME ~Isolated PROVE Spec => []RateBound
  OBVIOUS
<1>1. IInv /\ RateKept => RateBound
  <2> SUFFICES ASSUME IInv, RateKept PROVE RateBound
    OBVIOUS
  <2>1. clock + rewound = clock
    BY DEF IInv, Reads, TypeOK
  <2> QED BY <2>1, Zenon DEF RateKept, RateBound
<1> QED
  BY <1>1, RateKeptCorrect, InitIInv, NextIInv, PTL DEF Spec

\* refillBucket is exact from every reachable balance and its fast path
\* never overflows.
THEOREM RefillCorrect == Spec => []ArithmeticExact
<1>1. TypeOK => ArithmeticExact
  <2> SUFFICES ASSUME TypeOK PROVE ArithmeticExact
    OBVIOUS
  <2>1. /\ RequestsPerSecond \in 0 .. MaxU32 /\ Burst \in 0 .. MaxU32
        /\ RejectionsPerSecond \in 0 .. MaxU32 /\ MaxU64 \in Nat
    BY AdmissionAssumption
  <2>2. RefillExact
    <3> SUFFICES ASSUME NEW elapsed \in 0 .. MaxU64
                 PROVE  RefillExact!(elapsed)
      BY DEF RefillExact
    <3>1. elapsed \in Nat
      BY <2>1
    <3> QED BY <2>1, <3>1, RefillBucketExact, ZenonT(30) DEF TypeOK
  <2>3. NoOverflow
    <3>1. /\ tokens \in Nat /\ tokens <= MaxU32 * TokenScale
          /\ rejection_tokens \in Nat /\ rejection_tokens <= MaxU32 * TokenScale
      BY <2>1, CapacityFits, AdmissionAssumption, Product DEF TypeOK
    <3>2. /\ TokenScale * RequestsPerSecond \in Nat
          /\ TokenScale * RejectionsPerSecond \in Nat
          /\ TokenScale * RequestsPerSecond <= MaxU32 * TokenScale
          /\ TokenScale * RejectionsPerSecond <= MaxU32 * TokenScale
      BY <2>1, CapacityFits
    <3>3. MaxU32 * TokenScale \in Nat /\ 2 * (MaxU32 * TokenScale) <= MaxU64
      BY AdmissionAssumption, Product
    <3> QED BY <2>1, <3>1, <3>2, <3>3 DEF NoOverflow
  <2> QED BY <2>2, <2>3 DEF ArithmeticExact
<1> QED
  BY <1>1, TypeCorrect, PTL
=============================================================================
