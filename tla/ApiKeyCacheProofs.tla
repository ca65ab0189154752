-------------------------- MODULE ApiKeyCacheProofs -------------------------
(***************************************************************************)
(* Proofs about ApiKeyCache, for any number of keys, requests and deletions *)
(* and any TTL: type correctness, that a closed key stays closed, and that  *)
(* a clean flush is final.                                                  *)
(***************************************************************************)
EXTENDS ApiKeyCache, TLAPS

\* A deletion that is about to flush has deactivated its key.
FlushAfterDeactivate ==
    \A d \in Deleters : delPc[d] = "flush" => ~active[delKey[d]]

(***************************************************************************)
(* Type correctness                                                        *)
(***************************************************************************)

\* A tick shortens each entry's life by one and drops those at its end.
LEMMA TickType ==
    ASSUME TypeOK, Tick
    PROVE  TypeOK'
<1>1. /\ cache' \in [Keys -> {"none", "legacy", "full"}]
      /\ ttl' \in [Keys -> 0..TTL]
      /\ \A k \in Keys : cache'[k] = "none" <=> ttl'[k] = 0
    BY TTLAssumption DEF TypeOK, Tick
<1> QED
    BY <1>1 DEF TypeOK, Tick, requestVars, deleteVars

\* Every step of a verification keeps the types.
LEMMA RequestType ==
    ASSUME TypeOK, NEW r \in Requests,
           (\E k \in Keys : Begin(r, k)) \/ RequestStep(r) \/ RequestFails(r)
    PROVE  TypeOK'
<1>1. CASE \E k \in Keys : Begin(r, k)
    BY <1>1 DEF TypeOK, Begin, Goto, redisVars, deleteVars
<1>2. CASE Get(r)
    BY <1>2 DEF TypeOK, Get, Answer, Goto, redisVars, deleteVars
<1>3. CASE Lookup(r)
    BY <1>3 DEF TypeOK, Lookup, Answer, Goto, redisVars, deleteVars
<1>4. CASE Setex(r)
    BY <1>4, TTLAssumption DEF TypeOK, Setex, Answer, Goto, deleteVars
<1>5. CASE RequestFails(r)
    BY <1>5 DEF TypeOK, RequestFails, Answer, Goto, redisVars, deleteVars
<1> QED
    BY <1>1, <1>2, <1>3, <1>4, <1>5 DEF RequestStep

\* Every step of a deletion keeps the types.
LEMMA DeleteType ==
    ASSUME TypeOK, NEW d \in Deleters,
           \/ \E k \in Keys : Find(d, k)
           \/ Deactivate(d) \/ Flush(d) \/ DeleteFails(d)
    PROVE  TypeOK'
<1>1. CASE \E k \in Keys : Find(d, k)
    BY <1>1 DEF TypeOK, Find, redisVars, requestVars
<1>2. CASE Deactivate(d)
    BY <1>2 DEF TypeOK, Deactivate, redisVars, requestVars
<1>3. CASE Flush(d)
    <2>1. delKey[d] \in Keys
        BY <1>3 DEF Flush, TypeOK
    <2> QED
        BY <1>3, <2>1, TTLAssumption DEF TypeOK, Flush, Late, requestVars
<1>4. CASE DeleteFails(d)
    BY <1>4 DEF TypeOK, DeleteFails, redisVars, requestVars
<1> QED
    BY <1>1, <1>2, <1>3, <1>4

LEMMA TypeStep ==
    ASSUME TypeOK, [Next]_vars
    PROVE  TypeOK'
<1>1. CASE UNCHANGED vars
    BY <1>1 DEF TypeOK, vars, redisVars, requestVars, deleteVars
<1> QED
    BY <1>1, TickType, RequestType, DeleteType DEF Next

\* Type correctness, for every number of keys, requests, deletions and every TTL.
THEOREM TypeCorrect == Spec => []TypeOK
<1>1. Init => TypeOK
    BY TTLAssumption DEF Init, TypeOK
<1> QED
    BY <1>1, TypeStep, PTL DEF Spec

(***************************************************************************)
(* A closed key stays closed                                               *)
(***************************************************************************)

\* A key leaves the closed state by no step: Deactivate only clears active, only
\* Setex caches a key, and only a Lookup that finds it active leads to Setex.
LEMMA ClosedStep ==
    ASSUME TypeOK, [Next]_vars, NEW k \in Keys, Closed(k)
    PROVE  Closed(k)'
<1>1. ASSUME NEW r \in Requests, NEW b \in Keys, Begin(r, b)
      PROVE  Closed(k)'
    BY <1>1 DEF TypeOK, Closed, Late, Begin, Goto, redisVars, deleteVars
<1>2. ASSUME NEW r \in Requests, Get(r)
      PROVE  Closed(k)'
    BY <1>2 DEF TypeOK, Closed, Late, Get, Answer, Goto, redisVars, deleteVars
<1>3. ASSUME NEW r \in Requests, Lookup(r)
      PROVE  Closed(k)'
    BY <1>3 DEF TypeOK, Closed, Late, Lookup, Answer, Goto, redisVars, deleteVars
<1>4. ASSUME NEW r \in Requests, Setex(r)
      PROVE  Closed(k)'
    <2>1. key[r] # k
        BY <1>4 DEF Closed, Late, Setex
    <2> QED
        BY <1>4, <2>1 DEF TypeOK, Closed, Late, Setex, Answer, Goto, deleteVars
<1>5. ASSUME NEW r \in Requests, RequestFails(r)
      PROVE  Closed(k)'
    BY <1>5 DEF TypeOK, Closed, Late, RequestFails, Answer, Goto, redisVars,
                deleteVars
<1>6. ASSUME NEW d \in Deleters,
             \/ \E b \in Keys : Find(d, b)
             \/ Deactivate(d) \/ Flush(d) \/ DeleteFails(d)
      PROVE  Closed(k)'
    BY <1>6 DEF TypeOK, Closed, Late, Find, Deactivate, Flush, DeleteFails,
                redisVars, requestVars
<1>7. CASE Tick
    BY <1>7 DEF TypeOK, Closed, Late, Tick, requestVars, deleteVars
<1>8. CASE UNCHANGED vars
    BY <1>8 DEF Closed, Late, vars, redisVars, requestVars, deleteVars
<1> QED
    BY <1>1, <1>2, <1>3, <1>4, <1>5, <1>6, <1>7, <1>8 DEF Next, RequestStep

\* Once a revoked key is out of the cache and nobody is about to put it back, no
\* request, deletion or expiry ever opens it again.
THEOREM ClosedForGood == Spec => ClosedStaysClosed
<1>1. TypeOK /\ [Next]_vars => [\A k \in Keys : Closed(k) => Closed(k)']_vars
    BY ClosedStep
<1> QED
    BY <1>1, TypeCorrect, PTL DEF Spec, ClosedStaysClosed

(***************************************************************************)
(* A clean flush is final                                                  *)
(***************************************************************************)

LEMMA FlushAfterDeactivateStep ==
    ASSUME TypeOK, FlushAfterDeactivate, [Next]_vars
    PROVE  FlushAfterDeactivate'
<1>1. ASSUME NEW d \in Deleters, NEW k \in Keys, Find(d, k)
      PROVE  FlushAfterDeactivate'
    BY <1>1 DEF TypeOK, FlushAfterDeactivate, Find
<1>2. ASSUME NEW d \in Deleters, Deactivate(d)
      PROVE  FlushAfterDeactivate'
    BY <1>2 DEF TypeOK, FlushAfterDeactivate, Deactivate
<1>3. ASSUME NEW d \in Deleters, Flush(d) \/ DeleteFails(d)
      PROVE  FlushAfterDeactivate'
    BY <1>3 DEF TypeOK, FlushAfterDeactivate, Flush, DeleteFails
<1>4. ASSUME UNCHANGED <<active, delPc, delKey>>
      PROVE  FlushAfterDeactivate'
    BY <1>4 DEF FlushAfterDeactivate
<1> QED
    BY <1>1, <1>2, <1>3, <1>4
    DEF Next, RequestStep, Begin, Get, Lookup, Setex, RequestFails, Tick, vars,
        deleteVars

\* The flush that makes a key clean closes it; ClosedStep does the rest.
LEMMA CleanStep ==
    ASSUME TypeOK, FlushAfterDeactivate, CleanFlushIsFinal, [Next]_vars
    PROVE  CleanFlushIsFinal'
<1> SUFFICES ASSUME NEW k \in Keys, clean'[k]
             PROVE  Closed(k)'
    BY DEF CleanFlushIsFinal
<1>1. CASE clean[k]
    BY <1>1, ClosedStep DEF CleanFlushIsFinal
<1>2. CASE ~clean[k]
    <2>1. PICK d \in Deleters : Flush(d)
        BY <1>2 DEF Next, RequestStep, Begin, Get, Lookup, Setex, RequestFails,
                    Find, Deactivate, DeleteFails, Tick, vars, deleteVars
    <2>2. delKey[d] = k /\ Late(k) = {}
        BY <1>2, <2>1 DEF Flush, TypeOK
    <2>3. ~active[k]
        BY <2>1, <2>2 DEF Flush, FlushAfterDeactivate
    <2> QED
        BY <2>1, <2>2, <2>3 DEF TypeOK, Flush, Closed, Late, requestVars
<1> QED
    BY <1>1, <1>2

\* A deletion that flushed the cache while no verification was between its lookup
\* and its answer has revoked the key for good.
THEOREM CleanFlush == Spec => []CleanFlushIsFinal
<1>1. Init => FlushAfterDeactivate /\ CleanFlushIsFinal
    BY DEF Init, FlushAfterDeactivate, CleanFlushIsFinal
<1> QED
    BY <1>1, TypeCorrect, FlushAfterDeactivateStep, CleanStep, PTL DEF Spec

=============================================================================
