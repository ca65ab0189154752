---------------------------- MODULE ApiKeyCache -----------------------------
(***************************************************************************)
(* Platform API keys: verifyApiKey, with its cache of resolved keys in      *)
(* Redis, and DELETE /api/keys/:id, which deactivates a key in the database *)
(* and flushes its cache entry.  Every await ends an action.                *)
(*                                                                          *)
(* Abstracted: key_prefix is unique (migration 001), so a key stands for    *)
(* its prefix, its id and its cache entry; keys are never deleted and never *)
(* become active again.  Requests carry a genuine key: one whose format or  *)
(* bcrypt comparison fails changes nothing here.  What is cached of a key   *)
(* (platform, canViewRaw) never changes.  Time is counted in ticks.         *)
(***************************************************************************)
EXTENDS Integers

CONSTANTS
    Keys,
    Requests,     \* requests under way at a time
    Deleters,     \* deletions under way at a time
    NoKey,
    TTL           \* API_KEY_CACHE_TTL_SECONDS, in ticks

ASSUME KeysAssumption == NoKey \notin Keys
ASSUME TTLAssumption == TTL \in Nat \ {0}

VARIABLES
    active,       \* the api_keys column
    cache,        \* the value cached for a key; "legacy" has no canViewRaw
    ttl,          \* ticks left until the entry expires
    pc, key,      \* where each verification stands, and its key
    answer,       \* how the request's last verification ended
    delPc, delKey,\* where each deletion stands, and its key
    clean         \* history: an entry was flushed while no verification was
                  \* between its database lookup and its answer

redisVars == <<cache, ttl>>
requestVars == <<pc, key, answer>>
deleteVars == <<delPc, delKey, clean>>
vars == <<active, redisVars, requestVars, deleteVars>>

\* Entries that an older release left behind have no canViewRaw.
Init ==
    /\ active \in [Keys -> BOOLEAN]
    /\ cache \in [Keys -> {"none", "legacy"}]
    /\ ttl = [k \in Keys |-> IF cache[k] = "legacy" THEN TTL ELSE 0]
    /\ pc = [r \in Requests |-> "idle"]
    /\ key = [r \in Requests |-> NoKey]
    /\ answer = [r \in Requests |-> "none"]
    /\ delPc = [d \in Deleters |-> "idle"]
    /\ delKey = [d \in Deleters |-> NoKey]
    /\ clean = [k \in Keys |-> FALSE]

(***************************************************************************)
(* verifyApiKey                                                            *)
(***************************************************************************)

Goto(r, label) == pc' = [pc EXCEPT ![r] = label]

\* The verification of r is over.
Answer(r, result) ==
    /\ Goto(r, "idle")
    /\ answer' = [answer EXCEPT ![r] = result]

Begin(r, k) ==
    /\ pc[r] = "idle"
    /\ Goto(r, "get")
    /\ key' = [key EXCEPT ![r] = k]
    /\ answer' = [answer EXCEPT ![r] = "none"]
    /\ UNCHANGED <<active, redisVars, deleteVars>>

\* redis.get: a hit ends the verification; an entry without canViewRaw is none.
Get(r) ==
    /\ pc[r] = "get"
    /\ IF cache[key[r]] = "full" THEN Answer(r, "accepted")
       ELSE Goto(r, "lookup") /\ UNCHANGED answer
    /\ UNCHANGED <<active, redisVars, key, deleteVars>>

\* Fault: the query forgets active: true.
LookupIgnoresActive(r) ==
    /\ pc[r] = "lookup"
    /\ Goto(r, "setex")
    /\ UNCHANGED <<active, redisVars, key, answer, deleteVars>>

\* findApiKeyByPrefix, then bcrypt.compare: no record, no answer but a rejection.
Lookup(r) ==
    /\ pc[r] = "lookup"
    /\ IF active[key[r]] THEN Goto(r, "setex") /\ UNCHANGED answer
       ELSE Answer(r, "rejected")
    /\ UNCHANGED <<active, redisVars, key, deleteVars>>

\* Fault: the entry never expires.
SetForever(r) ==
    /\ pc[r] = "setex"
    /\ cache' = [cache EXCEPT ![key[r]] = "full"]
    /\ Answer(r, "accepted")
    /\ UNCHANGED <<active, ttl, key, deleteVars>>

\* redis.setex, and the verification has succeeded.
Setex(r) ==
    /\ pc[r] = "setex"
    /\ cache' = [cache EXCEPT ![key[r]] = "full"]
    /\ ttl' = [ttl EXCEPT ![key[r]] = TTL]
    /\ Answer(r, "accepted")
    /\ UNCHANGED <<active, key, deleteVars>>

\* A call rejects, or the API process goes down.
RequestFails(r) ==
    /\ pc[r] # "idle"
    /\ Answer(r, "error")
    /\ UNCHANGED <<active, redisVars, key, deleteVars>>

(***************************************************************************)
(* DELETE /api/keys/:id                                                    *)
(***************************************************************************)

\* The record is found, whether it is active or not.
Find(d, k) ==
    /\ delPc[d] = "idle"
    /\ delPc' = [delPc EXCEPT ![d] = "update"]
    /\ delKey' = [delKey EXCEPT ![d] = k]
    /\ UNCHANGED <<active, redisVars, requestVars, clean>>

Deactivate(d) ==
    /\ delPc[d] = "update"
    /\ active' = [active EXCEPT ![delKey[d]] = FALSE]
    /\ delPc' = [delPc EXCEPT ![d] = "flush"]
    /\ UNCHANGED <<redisVars, requestVars, delKey, clean>>

\* Verifications that saw the key active and have yet to cache it.
Late(k) == {r \in Requests : pc[r] = "setex" /\ key[r] = k}

\* Fault: the entry that is flushed is not that of the key.
FlushNothing(d) ==
    LET k == delKey[d]
    IN  /\ delPc[d] = "flush"
        /\ clean' = [clean EXCEPT ![k] = @ \/ Late(k) = {}]
        /\ delPc' = [delPc EXCEPT ![d] = "idle"]
        /\ UNCHANGED <<active, redisVars, requestVars, delKey>>

\* redis.del, and the answer 204.
Flush(d) ==
    LET k == delKey[d]
    IN  /\ delPc[d] = "flush"
        /\ cache' = [cache EXCEPT ![k] = "none"]
        /\ ttl' = [ttl EXCEPT ![k] = 0]
        /\ clean' = [clean EXCEPT ![k] = @ \/ Late(k) = {}]
        /\ delPc' = [delPc EXCEPT ![d] = "idle"]
        /\ UNCHANGED <<active, requestVars, delKey>>

\* The deletion breaks off, perhaps between the database and the cache.
DeleteFails(d) ==
    /\ delPc[d] # "idle"
    /\ delPc' = [delPc EXCEPT ![d] = "idle"]
    /\ UNCHANGED <<active, redisVars, requestVars, delKey, clean>>

(***************************************************************************)
(* Redis                                                                   *)
(***************************************************************************)

\* One tick for every entry; those at the end of their time are gone.
Tick ==
    /\ \E k \in Keys : ttl[k] > 0
    /\ ttl' = [k \in Keys |-> IF ttl[k] > 0 THEN ttl[k] - 1 ELSE 0]
    /\ cache' = [k \in Keys |-> IF ttl[k] = 1 THEN "none" ELSE cache[k]]
    /\ UNCHANGED <<active, requestVars, deleteVars>>

(***************************************************************************)
(* The specification                                                       *)
(***************************************************************************)

RequestStep(r) == Get(r) \/ Lookup(r) \/ Setex(r)

Next ==
    \/ \E r \in Requests :
        \/ \E k \in Keys : Begin(r, k)
        \/ RequestStep(r) \/ RequestFails(r)
    \/ \E d \in Deleters :
        \/ \E k \in Keys : Find(d, k)
        \/ Deactivate(d) \/ Flush(d) \/ DeleteFails(d)
    \/ Tick

Spec == Init /\ [][Next]_vars

\* A verification under way goes on, and time passes.
Fairness ==
    /\ \A r \in Requests : WF_vars(RequestStep(r))
    /\ WF_vars(Tick)

FairSpec == Spec /\ Fairness

(***************************************************************************)
(* Properties                                                              *)
(***************************************************************************)

\* Shapes of the state; an entry has time left exactly when it exists.
TypeOK ==
    /\ active \in [Keys -> BOOLEAN]
    /\ cache \in [Keys -> {"none", "legacy", "full"}]
    /\ ttl \in [Keys -> 0..TTL]
    /\ \A k \in Keys : cache[k] = "none" <=> ttl[k] = 0
    /\ pc \in [Requests -> {"idle", "get", "lookup", "setex"}]
    /\ key \in [Requests -> Keys \union {NoKey}]
    /\ \A r \in Requests : pc[r] # "idle" => key[r] \in Keys
    /\ answer \in [Requests -> {"none", "accepted", "rejected", "error"}]
    /\ delPc \in [Deleters -> {"idle", "update", "flush"}]
    /\ delKey \in [Deleters -> Keys \union {NoKey}]
    /\ \A d \in Deleters : delPc[d] # "idle" => delKey[d] \in Keys
    /\ clean \in [Keys -> BOOLEAN]

\* Nobody can use the key: it is inactive, not cached, and no verification is
\* about to cache it.
Closed(k) == ~active[k] /\ cache[k] # "full" /\ Late(k) = {}

\* Once a revoked key is out of the cache and no verification is about to put it
\* back, it stays out, whatever requests and deletions come.
ClosedStaysClosed == [][\A k \in Keys : Closed(k) => Closed(k)']_vars

\* A deletion that flushed the cache while no verification was between its lookup
\* and its answer has revoked the key for good.
CleanFlushIsFinal == \A k \in Keys : clean[k] => Closed(k)

\* However a deletion and the verifications interleave, and even if it breaks off
\* before the flush, a deactivated key is one day rejected for good.
RevocationTakesEffect == \A k \in Keys : ~active[k] ~> []Closed(k)

=============================================================================
