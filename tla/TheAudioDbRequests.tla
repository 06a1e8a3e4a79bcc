-------------------------- MODULE TheAudioDbRequests --------------------------
(***************************************************************************)
(* The request layer of TheAudioDB (artwork/theaudiodb_fetcher.cpp).  The  *)
(* artwork worker and the threads of the Test button call FetchArt at the  *)
(* same time.  They share the request mutex, the throttle, the rejected    *)
(* keys and the rate limits.                                               *)
(*                                                                         *)
(* Data abstraction.  The steady clock is only ever compared with stored   *)
(* times, so the state keeps differences: the age of lastRequest up to the *)
(* minimum interval, and what is left of a sleep and of a rate limit.  A   *)
(* limit whose time is over is 0, like one that is not in the map: every   *)
(* reader erases it first.  Of a response only the class that the code     *)
(* tells apart is kept.                                                    *)
(***************************************************************************)
EXTENDS Integers, Sequences, FiniteSets

CONSTANTS
    Thread,        \* the threads that call FetchArt
    Worker,        \* the artwork worker: its calls can be superseded
    Key,           \* API keys
    Eligible,      \* those that IsEligibleTheAudioDbSupporterKey accepts
    None,          \* no key
    MinInterval,   \* kMinimumRequestInterval, in ticks
    Cooldown,      \* kRateLimitCooldown, in ticks
    MaxAttempts,   \* kMaxTransientAttempts
    MaxLimited,    \* kMaxRateLimitedKeys
    MaxRejected    \* kMaxRejectedApiKeys

ASSUME ConstantsAssumption ==
    /\ Worker \in Thread /\ Eligible \subseteq Key /\ None \notin Key
    /\ MinInterval \in Nat \ {0} /\ Cooldown \in Nat \ {0}
    /\ MaxAttempts \in Nat \ {0}
    /\ MaxLimited \in Nat \ {0} /\ MaxRejected \in Nat \ {0}

(***************************************************************************)
(* What cpr::Get can return: no response or a server error (status 0 or    *)
(* 5xx), 429, an authentication error (401, 403, 404), and the rest.       *)
(***************************************************************************)
Response == {"transient", "limited", "rejected", "final"}

VARIABLES
    pc,           \* where each call of FetchArt is ("idle": no call)
    key,          \* its API key
    attempt,      \* GetWithRetry's attempt
    sleep,        \* what is left of the sleep of a call
    response,     \* the response of its last attempt
    aborting,     \* its abort callback
    current,      \* requestIsCurrent of the worker's call
    age,          \* now - lastRequest, at most MinInterval
    rejected,     \* ProviderKeyState.rejectedApiKeys, oldest first
    limits,       \* ProviderKeyState.retryAfterByApiKey, as the time left
    quiet,        \* history: time since a request was sent, at most MinInterval
    told,         \* history: the time left of the cooldown of a key's last 429
    refusals      \* history: how many keys were rejected since a key was; it is
                  \* MaxRejected if there were that many, or if the key was
                  \* never rejected or reset since

callVars == <<pc, key, attempt, sleep, response>>
keyVars == <<rejected, limits>>
historyVars == <<quiet, told, refusals>>
vars == <<callVars, aborting, current, age, keyVars, historyVars>>

Locked == {"locked", "attempt", "throttle", "network", "answered", "backoff"}

Init ==
    /\ pc = [t \in Thread |-> "idle"] /\ key = [t \in Thread |-> None]
    /\ attempt = [t \in Thread |-> 0] /\ sleep = [t \in Thread |-> 0]
    /\ response = [t \in Thread |-> "final"]
    /\ aborting = [t \in Thread |-> FALSE] /\ current = FALSE
    /\ age = MinInterval
    /\ rejected = <<>> /\ limits = [k \in Key |-> 0]
    /\ quiet = MinInterval /\ told = [k \in Key |-> 0]
    /\ refusals = [k \in Key |-> MaxRejected]

-----------------------------------------------------------------------------
(* Rejected keys: a vector of distinct keys, the oldest leaves first. *)

IsApiKeyRejected(k) == \E i \in 1..Len(rejected) : rejected[i] = k

(* Mutant: one key too many. *)
InsertLate(k) ==
    IF IsApiKeyRejected(k) THEN rejected
    ELSE Append(IF Len(rejected) > MaxRejected THEN Tail(rejected)
                                               ELSE rejected, k)

Insert(k) ==
    IF IsApiKeyRejected(k) THEN rejected
    ELSE Append(IF Len(rejected) >= MaxRejected THEN Tail(rejected)
                                                ELSE rejected, k)

Without(s, i) == SubSeq(s, 1, i - 1) \o SubSeq(s, i + 1, Len(s))

Erase(k) ==
    IF IsApiKeyRejected(k)
      THEN Without(rejected, CHOOSE i \in 1..Len(rejected) : rejected[i] = k)
      ELSE rejected

(* Rate limits.  If the map is full the limit that ends first makes room. *)

IsRateLimited(k) == limits[k] > 0
Limited == {k \in Key : IsRateLimited(k)}
Earliest == {k \in Limited : \A j \in Limited : limits[k] <= limits[j]}

MarkRateLimited(k) ==
    IF IsRateLimited(k) \/ Cardinality(Limited) < MaxLimited
      THEN limits' = [limits EXCEPT ![k] = Cooldown]
      ELSE \E victim \in Earliest :
             limits' = [limits EXCEPT ![victim] = 0, ![k] = Cooldown]

-----------------------------------------------------------------------------
(***************************************************************************)
(* FetchArt.  The request mutex is held in the states of Locked, and       *)
(* released however the call ends.                                         *)
(***************************************************************************)

(* No longer wanted: the abort callback fires, or requestIsCurrent (which  *)
(* the Test button does not pass) is false.                                *)
Ended(t) == aborting[t] \/ (t = Worker /\ ~current)

Return(t) ==
    /\ pc' = [pc EXCEPT ![t] = "idle"]
    /\ key' = [key EXCEPT ![t] = None]
    /\ attempt' = [attempt EXCEPT ![t] = 0]
    /\ sleep' = [sleep EXCEPT ![t] = 0]
    /\ response' = [response EXCEPT ![t] = "final"]

GoTo(t, place) ==
    /\ pc' = [pc EXCEPT ![t] = place]
    /\ UNCHANGED <<key, attempt, sleep, response>>

StartCall(t, k) ==
    /\ pc' = [pc EXCEPT ![t] = "start"] /\ key' = [key EXCEPT ![t] = k]
    /\ UNCHANGED <<attempt, sleep, response, age, limits, quiet, told>>

(* ProcessFetchRequest asks for the current request.  Once the program     *)
(* quits the worker's abort callback stays set.                            *)
WorkerCall(k) ==
    /\ pc[Worker] = "idle" /\ ~aborting[Worker]
    /\ StartCall(Worker, k) /\ current' = TRUE
    /\ UNCHANGED <<aborting, rejected, refusals>>

Reset(k) ==
    /\ rejected' = Erase(k)
    /\ refusals' = [refusals EXCEPT ![k] = MaxRejected]

(* The Test button resets the key on the main thread, then starts the      *)
(* thread.  A new preferences dialog can start a second test.              *)
TestClick(t, k) ==
    /\ t # Worker /\ pc[t] = "idle" /\ k \in Eligible
    /\ StartCall(t, k) /\ Reset(k)
    /\ aborting' = [aborting EXCEPT ![t] = FALSE]
    /\ UNCHANGED current

(* Apply stores a replacement key. *)
StoreKey(k) ==
    /\ k \in Eligible /\ Reset(k)
    /\ UNCHANGED <<callVars, aborting, current, age, limits, quiet, told>>

(* The playing track, the settings or the cache changed. *)
Supersede ==
    /\ pc[Worker] # "idle" /\ current
    /\ current' = FALSE
    /\ UNCHANGED <<callVars, aborting, age, keyVars, historyVars>>

(* A test is cancelled, or the program quits. *)
Abort(t) ==
    /\ pc[t] # "idle" /\ ~aborting[t]
    /\ aborting' = [aborting EXCEPT ![t] = TRUE]
    /\ UNCHANGED <<callVars, current, age, keyVars, historyVars>>

-----------------------------------------------------------------------------
(* The key is checked before the request waits for the mutex. *)
CheckKey(t) ==
    /\ pc[t] = "start"
    /\ IF key[t] \in Eligible /\ ~IsApiKeyRejected(key[t])
         THEN GoTo(t, "waiting") ELSE Return(t)
    /\ UNCHANGED <<aborting, current, age, keyVars, historyVars>>

MutexIsFree == \A u \in Thread : pc[u] \notin Locked

(* Mutant: the mutex is not waited for. *)
LockAnyway(t) ==
    /\ pc[t] = "waiting"
    /\ GoTo(t, "locked")
    /\ UNCHANGED <<aborting, current, age, keyVars, historyVars>>

Lock(t) ==
    /\ pc[t] = "waiting" /\ MutexIsFree
    /\ GoTo(t, "locked")
    /\ UNCHANGED <<aborting, current, age, keyVars, historyVars>>

(* Mutant: the wait checks the abort callback only. *)
GiveUpAborted(t) ==
    /\ pc[t] = "waiting" /\ aborting[t]
    /\ Return(t)
    /\ UNCHANGED <<aborting, current, age, keyVars, historyVars>>

(* try_lock_for timed out. *)
GiveUp(t) ==
    /\ pc[t] = "waiting" /\ Ended(t)
    /\ Return(t)
    /\ UNCHANGED <<aborting, current, age, keyVars, historyVars>>

(* Mutant: the key is not checked again after the wait. *)
RecheckLimit(t) ==
    /\ pc[t] = "locked"
    /\ IF Ended(t) \/ IsRateLimited(key[t])
         THEN Return(t)
       ELSE /\ pc' = [pc EXCEPT ![t] = "attempt"]
            /\ attempt' = [attempt EXCEPT ![t] = 1]
            /\ UNCHANGED <<key, sleep, response>>
    /\ UNCHANGED <<aborting, current, age, keyVars, historyVars>>

(* The checks under the mutex.  Without the mutex a key can only be reset  *)
(* and a limit only expire, so the three reads are as good as one.         *)
Recheck(t) ==
    /\ pc[t] = "locked"
    /\ IF Ended(t) \/ IsApiKeyRejected(key[t]) \/ IsRateLimited(key[t])
         THEN Return(t)
       ELSE /\ pc' = [pc EXCEPT ![t] = "attempt"]
            /\ attempt' = [attempt EXCEPT ![t] = 1]
            /\ UNCHANGED <<key, sleep, response>>
    /\ UNCHANGED <<aborting, current, age, keyVars, historyVars>>

(* The mutex of the throttle. *)
ThrottleIsFree == \A u \in Thread : pc[u] # "throttle"

(* GetWithRetry: the checks before the throttle, which reads the clock. *)
BeginAttempt(t) ==
    /\ pc[t] = "attempt"
    /\ IF Ended(t) THEN Return(t)
       ELSE /\ ThrottleIsFree
            /\ pc' = [pc EXCEPT ![t] = "throttle"]
            /\ sleep' = [sleep EXCEPT ![t] = MinInterval - age]
            /\ UNCHANGED <<key, attempt, response>>
    /\ UNCHANGED <<aborting, current, age, keyVars, historyVars>>

(* An aborted sleep throws. *)
AbortSleep(t) ==
    /\ pc[t] \in {"throttle", "backoff"} /\ sleep[t] > 0 /\ aborting[t]
    /\ Return(t)
    /\ UNCHANGED <<aborting, current, age, keyVars, historyVars>>

(* Mutant: the time of a request is not stored. *)
ProceedUnstamped(t) ==
    /\ pc[t] = "throttle" /\ sleep[t] = 0
    /\ IF Ended(t) THEN Return(t) /\ UNCHANGED quiet
                   ELSE GoTo(t, "network") /\ quiet' = 0
    /\ UNCHANGED <<aborting, current, age, keyVars, told, refusals>>

(* ThrottleRequest stores the time; a request that ended meanwhile is not  *)
(* sent.                                                                   *)
Proceed(t) ==
    /\ pc[t] = "throttle" /\ sleep[t] = 0
    /\ age' = 0
    /\ IF Ended(t) THEN Return(t) /\ UNCHANGED quiet
                   ELSE GoTo(t, "network") /\ quiet' = 0
    /\ UNCHANGED <<aborting, current, keyVars, told, refusals>>

Refused(k) ==
    [j \in Key |-> IF j = k THEN 0
                   ELSE IF refusals[j] < MaxRejected THEN refusals[j] + 1
                   ELSE MaxRejected]

(* The service answers, or one of cpr's timeouts ends the request. *)
Answer(t, r) ==
    /\ pc[t] = "network"
    /\ pc' = [pc EXCEPT ![t] = "answered"]
    /\ response' = [response EXCEPT ![t] = r]
    /\ told' = IF r = "limited" THEN [told EXCEPT ![key[t]] = Cooldown] ELSE told
    /\ refusals' = IF r = "rejected" THEN Refused(key[t]) ELSE refusals
    /\ UNCHANGED <<key, attempt, sleep, aborting, current, age, keyVars, quiet>>

(* The progress callback ends the request. *)
Disconnect(t) ==
    /\ pc[t] = "network" /\ aborting[t]
    /\ Return(t)
    /\ UNCHANGED <<aborting, current, age, keyVars, historyVars>>

(***************************************************************************)
(* After cpr::Get.  The answer to an aborted request is dropped unseen, so *)
(* the histories forget it.                                                *)
(***************************************************************************)
Drop(t) ==
    /\ pc[t] = "answered" /\ aborting[t]
    /\ Return(t)
    /\ told' = IF response[t] = "limited"
                 THEN [told EXCEPT ![key[t]] = 0] ELSE told
    /\ refusals' = IF response[t] = "rejected"
                     THEN [refusals EXCEPT ![key[t]] = MaxRejected] ELSE refusals
    /\ UNCHANGED <<aborting, current, age, keyVars, quiet>>

(* Mutant: every failure is repeated. *)
IsFailure(r) == r # "final"

IsTransient(r) == r = "transient"

Retry(t) ==
    /\ pc[t] = "answered" /\ ~aborting[t]
    /\ IsTransient(response[t]) /\ attempt[t] < MaxAttempts
    /\ pc' = [pc EXCEPT ![t] = "backoff"]
    /\ sleep' = [sleep EXCEPT ![t] = attempt[t]]
    /\ UNCHANGED <<key, attempt, response, aborting, current, age, keyVars,
                   historyVars>>

Conclude(t) ==
    /\ pc[t] = "answered" /\ ~aborting[t]
    /\ ~IsTransient(response[t]) \/ attempt[t] = MaxAttempts
    /\ IF response[t] = "limited" THEN MarkRateLimited(key[t])
                                  ELSE UNCHANGED limits
    /\ rejected' = IF response[t] = "rejected" THEN Insert(key[t]) ELSE rejected
    /\ Return(t)
    /\ UNCHANGED <<aborting, current, age, historyVars>>

NextAttempt(t) ==
    /\ pc[t] = "backoff" /\ sleep[t] = 0
    /\ pc' = [pc EXCEPT ![t] = "attempt"]
    /\ attempt' = [attempt EXCEPT ![t] = @ + 1]
    /\ UNCHANGED <<key, sleep, response, aborting, current, age, keyVars,
                   historyVars>>

Less(n) == IF n > 0 THEN n - 1 ELSE 0
Older(n) == IF n < MinInterval THEN n + 1 ELSE n

Tick ==
    /\ age' = Older(age) /\ quiet' = Older(quiet)
    /\ sleep' = [t \in Thread |-> Less(sleep[t])]
    /\ limits' = [k \in Key |-> Less(limits[k])]
    /\ told' = [k \in Key |-> Less(told[k])]
    /\ UNCHANGED <<pc, key, attempt, response, aborting, current, rejected,
                   refusals>>

Step(t) ==
    \/ CheckKey(t) \/ Lock(t) \/ GiveUp(t) \/ Recheck(t) \/ BeginAttempt(t)
    \/ AbortSleep(t) \/ Proceed(t) \/ Disconnect(t) \/ Drop(t) \/ Retry(t)
    \/ Conclude(t) \/ NextAttempt(t)

Environment ==
    \/ Supersede \/ Tick
    \/ \E k \in Key : WorkerCall(k) \/ StoreKey(k)
    \/ \E t \in Thread : Abort(t) \/ \E k \in Key : TestClick(t, k)

Next ==
    \/ Environment
    \/ \E t \in Thread : Step(t) \/ \E r \in Response : Answer(t, r)

(* Threads run and time passes.  Nothing is assumed of the service. *)
Fairness == WF_vars(Tick) /\ \A t \in Thread : WF_vars(Step(t))
Spec == Init /\ [][Next]_vars /\ Fairness

-----------------------------------------------------------------------------
(* Properties. *)

Sending == {"attempt", "throttle", "network", "backoff"}

(* Every variable keeps its type; no limit exceeds the cooldown, neither   *)
(* set its bound, and a call has a key exactly while it runs.              *)
TypeOK ==
    /\ pc \in [Thread -> {"idle", "start", "waiting"} \cup Locked]
    /\ key \in [Thread -> Key \cup {None}]
    /\ \A t \in Thread : key[t] = None <=> pc[t] = "idle"
    /\ attempt \in [Thread -> 0..MaxAttempts]
    /\ sleep \in [Thread -> Nat]
    /\ response \in [Thread -> Response]
    /\ aborting \in [Thread -> BOOLEAN] /\ current \in BOOLEAN
    /\ age \in 0..MinInterval /\ quiet \in 0..MinInterval
    /\ rejected \in Seq(Key) /\ Len(rejected) <= MaxRejected
    /\ \A i, j \in 1..Len(rejected) : rejected[i] = rejected[j] => i = j
    /\ limits \in [Key -> 0..Cooldown] /\ Cardinality(Limited) <= MaxLimited
    /\ told \in [Key -> 0..Cooldown]
    /\ refusals \in [Key -> 0..MaxRejected]

(* While a call repeats its request, nobody else is past the mutex, and    *)
(* its key is neither rejected nor limited: the checks after the wait stay *)
(* true until the answer, though other calls and the main thread go on.    *)
KeyStaysGood ==
    \A t \in Thread : pc[t] \in Sending =>
        /\ \A u \in Thread \ {t} : pc[u] \notin Locked
        /\ ~IsApiKeyRejected(key[t]) /\ ~IsRateLimited(key[t])

(* While a call sleeps in the throttle, what is left of the sleep and the  *)
(* time since the last request add up to the interval: nobody sends        *)
(* meanwhile.                                                              *)
SleepIsEnough ==
    \A t \in Thread : pc[t] = "throttle" => quiet + sleep[t] >= MinInterval

StartsRequest(t) == pc[t] # "network" /\ pc'[t] = "network"

(* Requests of all threads together keep the minimum interval, whoever     *)
(* waits, is cancelled or repeats.                                         *)
RequestsAreSpaced ==
    [][\A t \in Thread : StartsRequest(t) => quiet = MinInterval]_vars

(* No request goes out with a key that the service has refused: for the    *)
(* cooldown after a 429, unless the map is full of other keys, and after   *)
(* an authentication error until the key is reset or MaxRejected others    *)
(* were rejected.                                                          *)
NoRequestAfterRefusal ==
    [][\A t \in Thread : StartsRequest(t) =>
         /\ told[key[t]] = 0 \/ Cardinality(Limited) = MaxLimited
         /\ refusals[key[t]] = MaxRejected]_vars

(* The layer does what RequestGate promises. *)
InFlight ==
    IF \E t \in Thread : pc[t] = "network"
      THEN key[CHOOSE t \in Thread : pc[t] = "network"] ELSE None
Barred == {k \in Key : IsApiKeyRejected(k) \/ IsRateLimited(k)}

Gate == INSTANCE RequestGate
          WITH NoKey <- None, inFlight <- InFlight, barred <- Barred

GateHolds == Gate!GateSpec

AbortedCallsEnd ==
    \A t \in Thread : (pc[t] # "idle" /\ aborting[t]) ~> pc[t] = "idle"
SupersededWaitersEnd ==
    (pc[Worker] = "waiting" /\ ~current) ~> pc[Worker] = "idle"

RequestsTimeOut == \A t \in Thread : WF_vars(\E r \in Response : Answer(t, r))
SupersededCallsEnd ==
    RequestsTimeOut => ((pc[Worker] # "idle" /\ ~current) ~> pc[Worker] = "idle")

(* A cancelled test and a worker that quits end their call, and a request  *)
(* that is superseded while it waits for the mutex ends, even if the       *)
(* service never answers.  If cpr's timeouts end every request that is not *)
(* answered, a superseded request ends wherever it is, although the worker *)
(* does not notice before its request ends.                                *)
UnwantedCallsEnd == AbortedCallsEnd /\ SupersededWaitersEnd /\ SupersededCallsEnd

=============================================================================
