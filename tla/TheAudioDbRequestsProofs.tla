------------------------ MODULE TheAudioDbRequestsProofs ------------------------
(***************************************************************************)
(* What holds of TheAudioDbRequests for every set of threads and keys and  *)
(* every value of the limits.  The invariant is built in layers: the types *)
(* and the two tables, the mutex with what it protects, the spacing, and   *)
(* what the tables still know of the keys that the service refused.        *)
(***************************************************************************)
EXTENDS TheAudioDbRequests, SequenceTheorems, FiniteSetTheorems, TLAPS

-----------------------------------------------------------------------------
(* The vector of rejected keys. *)

Distinct(s) == \A i, j \in 1..Len(s) : s[i] = s[j] => i = j
Elements(s) == {s[i] : i \in 1..Len(s)}

(* Erasing from a vector moves the later elements down by one. *)
LEMMA WithoutProperties ==
    ASSUME NEW S, NEW s \in Seq(S), NEW i \in 1..Len(s)
    PROVE  /\ Without(s, i) \in Seq(S)
           /\ Len(Without(s, i)) = Len(s) - 1
           /\ \A j \in 1..Len(s) - 1 :
                Without(s, i)[j] = IF j < i THEN s[j] ELSE s[j + 1]
<1> DEFINE a == SubSeq(s, 1, i - 1)
           b == SubSeq(s, i + 1, Len(s))
<1>1. Len(s) \in Nat /\ \A j \in 1..Len(s) : s[j] \in S
  BY ElementOfSeq, LenProperties
<1>2. /\ a \in Seq(S) /\ Len(a) = i - 1
      /\ \A j \in 1..i - 1 : a[j] = s[j]
  <2>1. \A j \in 1..i - 1 : s[j] \in S
    BY <1>1
  <2>2. i - 1 \in Int /\ 1 \in Int
    BY <1>1
  <2>3. /\ a \in Seq(S) /\ Len(a) = IF 1 <= i - 1 THEN i - 1 - 1 + 1 ELSE 0
        /\ \A j \in 1..i - 1 - 1 + 1 : a[j] = s[1 + j - 1]
    BY <2>1, <2>2, SubSeqProperties
  <2> QED
    BY <1>1, <2>3
<1>3. /\ b \in Seq(S) /\ Len(b) = Len(s) - i
      /\ \A j \in 1..Len(s) - i : b[j] = s[i + j]
  <2>1. \A j \in i + 1..Len(s) : s[j] \in S
    BY <1>1
  <2>2. i + 1 \in Int /\ Len(s) \in Int
    BY <1>1
  <2>3. /\ b \in Seq(S)
        /\ Len(b) = IF i + 1 <= Len(s) THEN Len(s) - (i + 1) + 1 ELSE 0
        /\ \A j \in 1..Len(s) - (i + 1) + 1 : b[j] = s[i + 1 + j - 1]
    BY <2>1, <2>2, SubSeqProperties
  <2> QED
    BY <1>1, <2>3
<1>4. /\ a \o b \in Seq(S) /\ Len(a \o b) = Len(a) + Len(b)
      /\ \A j \in 1..Len(a) + Len(b) :
           (a \o b)[j] = IF j <= Len(a) THEN a[j] ELSE b[j - Len(a)]
  BY <1>2, <1>3, ConcatProperties
<1>5. Without(s, i) = a \o b
  BY DEF Without
<1> HIDE DEF a, b
<1>6. Len(a) + Len(b) = Len(s) - 1
  BY <1>1, <1>2, <1>3
<1>7. ASSUME NEW j \in 1..Len(s) - 1
      PROVE  (a \o b)[j] = IF j < i THEN s[j] ELSE s[j + 1]
  <2>1. (a \o b)[j] = IF j <= i - 1 THEN a[j] ELSE b[j - (i - 1)]
    BY <1>2, <1>4, <1>6
  <2>2. CASE j < i
    BY <1>1, <1>2, <2>1, <2>2
  <2>3. CASE ~(j < i)
    <3>1. j - (i - 1) \in 1..Len(s) - i /\ i + (j - (i - 1)) = j + 1
      BY <1>1, <2>3
    <3> QED
      BY <1>1, <1>3, <2>1, <2>3, <3>1
  <2> QED
    BY <2>2, <2>3
<1> QED
  BY <1>4, <1>5, <1>6, <1>7

(* Erase keeps the keys distinct and adds none. *)
LEMMA EraseProperties ==
    ASSUME NEW k \in Key, rejected \in Seq(Key), Distinct(rejected)
    PROVE  /\ Erase(k) \in Seq(Key) /\ Distinct(Erase(k))
           /\ Len(Erase(k)) <= Len(rejected)
           /\ Elements(Erase(k)) \subseteq Elements(rejected)
<1>1. CASE ~IsApiKeyRejected(k)
  BY <1>1, LenProperties DEF Erase
<1>2. CASE IsApiKeyRejected(k)
  <2>1. PICK i \in 1..Len(rejected) : Erase(k) = Without(rejected, i)
    BY <1>2 DEF Erase, IsApiKeyRejected
  <2>2. /\ Without(rejected, i) \in Seq(Key)
        /\ Len(Without(rejected, i)) = Len(rejected) - 1
        /\ \A j \in 1..Len(rejected) - 1 :
             Without(rejected, i)[j] = IF j < i THEN rejected[j] ELSE rejected[j + 1]
    BY WithoutProperties
  <2>3. Len(rejected) \in Nat
    BY LenProperties
  <2> DEFINE w == Without(rejected, i)
  <2>4. \A j \in 1..Len(w) : w[j] = rejected[IF j < i THEN j ELSE j + 1]
    BY <2>2, <2>3
  <2>5. Distinct(w)
    BY <2>2, <2>3, <2>4 DEF Distinct
  <2>6. Elements(w) \subseteq Elements(rejected)
    BY <2>2, <2>3, <2>4 DEF Elements
  <2> QED
    BY <2>1, <2>2, <2>3, <2>5, <2>6
<1> QED
  BY <1>1, <1>2

(* Insert adds the key and may drop one, within the bound. *)
LEMMA InsertProperties ==
    ASSUME NEW k \in Key, rejected \in Seq(Key), Distinct(rejected),
           Len(rejected) <= MaxRejected
    PROVE  /\ Insert(k) \in Seq(Key) /\ Distinct(Insert(k))
           /\ Len(Insert(k)) <= MaxRejected
           /\ Elements(Insert(k)) \subseteq Elements(rejected) \cup {k}
           /\ k \in Elements(Insert(k))
<1>1. CASE IsApiKeyRejected(k)
  BY <1>1 DEF Insert, IsApiKeyRejected, Elements
<1>2. CASE ~IsApiKeyRejected(k)
  <2> DEFINE s == IF Len(rejected) >= MaxRejected THEN Tail(rejected) ELSE rejected
  <2>1. Len(rejected) \in Nat /\ MaxRejected \in Nat \ {0}
    BY LenProperties, ConstantsAssumption
  <2>2. /\ s \in Seq(Key) /\ Distinct(s) /\ Len(s) < MaxRejected
        /\ Elements(s) \subseteq Elements(rejected)
    <3>1. CASE Len(rejected) >= MaxRejected
      <4>1. rejected # <<>>
        BY <2>1, <3>1, EmptySeq
      <4>2. /\ Tail(rejected) \in Seq(Key) /\ Len(Tail(rejected)) = Len(rejected) - 1
            /\ \A i \in 1..Len(Tail(rejected)) : Tail(rejected)[i] = rejected[i + 1]
        BY <4>1, HeadTailProperties
      <4> QED
        BY <2>1, <3>1, <4>2 DEF Distinct, Elements
    <3>2. CASE ~(Len(rejected) >= MaxRejected)
      BY <2>1, <3>2
    <3> QED
      BY <3>1, <3>2
  <2>3. k \notin Elements(s)
    BY <1>2, <2>2 DEF IsApiKeyRejected, Elements
  <2>4. Insert(k) = Append(s, k)
    BY <1>2 DEF Insert
  <2> HIDE DEF s
  <2>5. /\ Append(s, k) \in Seq(Key) /\ Len(Append(s, k)) = Len(s) + 1
        /\ \A i \in 1..Len(s) : Append(s, k)[i] = s[i]
        /\ Append(s, k)[Len(s) + 1] = k
    BY <2>2, AppendProperties
  <2>6. Len(s) \in Nat
    BY <2>2, LenProperties
  <2>7. Distinct(Append(s, k))
    BY <2>2, <2>3, <2>5, <2>6 DEF Distinct, Elements
  <2>8. Elements(Append(s, k)) = Elements(s) \cup {k}
    BY <2>5, <2>6 DEF Elements
  <2> QED
    BY <2>1, <2>2, <2>4, <2>5, <2>6, <2>7, <2>8
<1> QED
  BY <1>1, <1>2

-----------------------------------------------------------------------------
(* Types, and the table of rejected keys. *)

Place == {"idle", "start", "waiting"} \cup Locked

CallTypes ==
    /\ pc \in [Thread -> Place]
    /\ key \in [Thread -> Key \cup {None}]
    /\ \A t \in Thread : key[t] = None <=> pc[t] = "idle"
    /\ attempt \in [Thread -> 0..MaxAttempts]
    /\ \A t \in Thread : pc[t] = "backoff" => attempt[t] < MaxAttempts
    /\ sleep \in [Thread -> Nat]
    /\ response \in [Thread -> Response]

FlagTypes == aborting \in [Thread -> BOOLEAN] /\ current \in BOOLEAN

TimeTypes ==
    /\ age \in 0..MinInterval /\ quiet \in 0..MinInterval
    /\ limits \in [Key -> 0..Cooldown] /\ told \in [Key -> 0..Cooldown]

RejectedTypes ==
    /\ rejected \in Seq(Key) /\ Len(rejected) <= MaxRejected
    /\ Distinct(rejected)
    /\ refusals \in [Key -> 0..MaxRejected]

Types == CallTypes /\ FlagTypes /\ TimeTypes /\ RejectedTypes

LEMMA InitTypes == Init => Types
<1> SUFFICES ASSUME Init PROVE Types
  OBVIOUS
<1>1. Len(<<>>) = 0 /\ <<>> \in Seq(Key)
  BY EmptySeq
<1>2. CallTypes
  BY ConstantsAssumption DEF Init, CallTypes, Place, Response
<1>3. FlagTypes
  BY DEF Init, FlagTypes
<1>4. TimeTypes
  BY ConstantsAssumption DEF Init, TimeTypes
<1>5. RejectedTypes
  BY <1>1, ConstantsAssumption DEF Init, RejectedTypes, Distinct
<1> QED
  BY <1>2, <1>3, <1>4, <1>5 DEF Types

(* A call ends, or moves on. *)
LEMMA ReturnTypes ==
    ASSUME NEW t \in Thread, CallTypes, Return(t)
    PROVE  CallTypes'
BY ConstantsAssumption DEF CallTypes, Return, Place, Response

LEMMA GoToTypes ==
    ASSUME NEW t \in Thread, NEW place \in Place \ {"idle", "backoff"}, CallTypes,
           GoTo(t, place), pc[t] # "idle"
    PROVE  CallTypes'
BY DEF CallTypes, GoTo

LEMMA CallTypesStep == CallTypes /\ TimeTypes /\ [Next]_vars => CallTypes'
<1> SUFFICES ASSUME CallTypes, TimeTypes, [Next]_vars PROVE CallTypes'
  OBVIOUS
<1>1. ASSUME NEW t \in Thread, NEW k \in Key, pc[t] = "idle", StartCall(t, k)
      PROVE  CallTypes'
  BY <1>1, ConstantsAssumption DEF CallTypes, StartCall, Place
<1>2. ASSUME NEW k \in Key, WorkerCall(k) PROVE CallTypes'
  BY <1>1, <1>2, ConstantsAssumption DEF WorkerCall
<1>3. ASSUME NEW t \in Thread, NEW k \in Key, TestClick(t, k) PROVE CallTypes'
  BY <1>1, <1>3 DEF TestClick
<1>4. CASE UNCHANGED callVars
  BY <1>4 DEF CallTypes, callVars
<1>5. CASE Tick
  BY <1>5 DEF Tick, Less, CallTypes
<1>6. ASSUME NEW t \in Thread, Step(t) PROVE CallTypes'
  <2>1. CASE Return(t)
    BY <2>1, ReturnTypes
  <2>2. ASSUME NEW place \in Place \ {"idle", "backoff"}, pc[t] # "idle", GoTo(t, place)
        PROVE  CallTypes'
    BY <2>2, GoToTypes
  <2>3. CASE CheckKey(t) \/ Lock(t) \/ GiveUp(t)
    BY <2>1, <2>2, <2>3 DEF CheckKey, Lock, GiveUp, Place, Locked
  <2>4. CASE Recheck(t)
    BY <2>1, <2>4, ConstantsAssumption DEF Recheck, CallTypes, Place, Locked
  <2>5. CASE BeginAttempt(t)
    BY <2>1, <2>5, ConstantsAssumption
       DEF BeginAttempt, CallTypes, TimeTypes, Place, Locked
  <2>6. CASE AbortSleep(t) \/ Disconnect(t) \/ Drop(t) \/ Conclude(t)
    BY <2>1, <2>6 DEF AbortSleep, Disconnect, Drop, Conclude
  <2>7. CASE Proceed(t)
    BY <2>1, <2>2, <2>7 DEF Proceed, Place, Locked
  <2>8. CASE Retry(t)
    BY <2>8 DEF Retry, CallTypes, Place, Locked
  <2>9. CASE NextAttempt(t)
    BY <2>9, ConstantsAssumption DEF NextAttempt, CallTypes, Place, Locked
  <2> QED
    BY <1>6, <2>3, <2>4, <2>5, <2>6, <2>7, <2>8, <2>9 DEF Step
<1>7. ASSUME NEW t \in Thread, NEW r \in Response, Answer(t, r) PROVE CallTypes'
  BY <1>7 DEF Answer, CallTypes, Place, Locked
<1> QED
  BY <1>2, <1>3, <1>4, <1>5, <1>6, <1>7
     DEF Next, Environment, StoreKey, Supersede, Abort, vars

LEMMA FlagTypesStep == FlagTypes /\ [Next]_vars => FlagTypes'
<1> SUFFICES ASSUME FlagTypes, [Next]_vars PROVE FlagTypes'
  OBVIOUS
<1>1. ASSUME NEW t \in Thread, aborting' = [aborting EXCEPT ![t] = TRUE]
                               \/ aborting' = [aborting EXCEPT ![t] = FALSE]
      PROVE  aborting' \in [Thread -> BOOLEAN]
  BY <1>1, Zenon DEF FlagTypes
<1>2. \/ UNCHANGED aborting
      \/ \E t \in Thread : \/ aborting' = [aborting EXCEPT ![t] = TRUE]
                          \/ aborting' = [aborting EXCEPT ![t] = FALSE]
  BY DEF Next, Environment, Step, StoreKey, Supersede, Abort, WorkerCall, TestClick, Tick, CheckKey, Lock,
     GiveUp, Recheck, BeginAttempt, AbortSleep, Proceed, Disconnect, Drop, Retry,
     Conclude, NextAttempt, Answer, vars
<1>3. current' \in BOOLEAN
  <2>1. current' = current \/ current' = TRUE \/ current' = FALSE
    BY DEF Next, Environment, Step, StoreKey, Supersede, Abort, WorkerCall, TestClick, Tick, CheckKey,
       Lock, GiveUp, Recheck, BeginAttempt, AbortSleep, Proceed, Disconnect, Drop,
       Retry, Conclude, NextAttempt, Answer, vars
  <2> QED
    BY <2>1, Zenon DEF FlagTypes
<1> QED
  BY <1>1, <1>2, <1>3, Zenon DEF FlagTypes

(* MarkRateLimited sets one limit and clears at most one. *)
LEMMA MarkTypes ==
    ASSUME NEW k \in Key, limits \in [Key -> 0..Cooldown], MarkRateLimited(k)
    PROVE  limits' \in [Key -> 0..Cooldown]
<1>1. Cooldown \in 0..Cooldown /\ 0 \in 0..Cooldown
  BY ConstantsAssumption
<1>2. CASE limits' = [limits EXCEPT ![k] = Cooldown]
  BY <1>1, <1>2
<1>3. ASSUME NEW v \in Earliest, limits' = [limits EXCEPT ![v] = 0, ![k] = Cooldown]
      PROVE  limits' \in [Key -> 0..Cooldown]
  BY <1>1, <1>3 DEF Earliest, Limited
<1> QED
  BY <1>2, <1>3 DEF MarkRateLimited

LEMMA TimeTypesStep == TimeTypes /\ CallTypes /\ [Next]_vars => TimeTypes'
<1> SUFFICES ASSUME TimeTypes, CallTypes, [Next]_vars PROVE TimeTypes'
  OBVIOUS
<1>0. \A t \in Thread : pc[t] # "idle" => key[t] \in Key
  BY DEF CallTypes
<1>1. CASE Tick
  <2>1. age' \in 0..MinInterval /\ quiet' \in 0..MinInterval
    BY <1>1, ConstantsAssumption DEF Tick, Older, TimeTypes
  <2>2. limits' \in [Key -> 0..Cooldown] /\ told' \in [Key -> 0..Cooldown]
    BY <1>1, ConstantsAssumption DEF Tick, Less, TimeTypes
  <2> QED
    BY <2>1, <2>2 DEF TimeTypes
<1>2. ASSUME NEW t \in Thread, Proceed(t) PROVE TimeTypes'
  BY <1>2, ConstantsAssumption DEF Proceed, TimeTypes, keyVars
<1>3. ASSUME NEW t \in Thread, Conclude(t) PROVE TimeTypes'
  BY <1>0, <1>3, MarkTypes DEF Conclude, TimeTypes, historyVars
<1>4. ASSUME NEW t \in Thread, NEW r \in Response, Answer(t, r) PROVE TimeTypes'
  BY <1>0, <1>4, ConstantsAssumption DEF Answer, TimeTypes, keyVars
<1>5. ASSUME NEW t \in Thread, Drop(t) PROVE TimeTypes'
  BY <1>0, <1>5, ConstantsAssumption DEF Drop, TimeTypes, keyVars
<1>6. CASE UNCHANGED <<age, quiet, limits, told>>
  BY <1>6 DEF TimeTypes
<1> QED
  BY <1>1, <1>2, <1>3, <1>4, <1>5, <1>6
     DEF Next, Environment, Step, StoreKey, Supersede, Abort, WorkerCall, TestClick, StartCall,
         CheckKey, Lock, GiveUp, Recheck, BeginAttempt, AbortSleep, Disconnect,
         Retry, NextAttempt, keyVars, historyVars, vars

LEMMA RejectedTypesStep == RejectedTypes /\ CallTypes /\ [Next]_vars => RejectedTypes'
<1> SUFFICES ASSUME RejectedTypes, CallTypes, [Next]_vars PROVE RejectedTypes'
  OBVIOUS
<1>0. /\ \A t \in Thread : pc[t] # "idle" => key[t] \in Key
      /\ MaxRejected \in 0..MaxRejected /\ 0 \in 0..MaxRejected
      /\ \A n \in 0..MaxRejected : n < MaxRejected => n + 1 \in 0..MaxRejected
      /\ Len(rejected) \in Nat
  BY ConstantsAssumption, LenProperties DEF CallTypes, RejectedTypes
<1>1. ASSUME NEW k \in Key, Reset(k) PROVE RejectedTypes'
  <2>1. /\ Erase(k) \in Seq(Key) /\ Distinct(Erase(k))
        /\ Len(Erase(k)) <= Len(rejected) /\ Len(Erase(k)) \in Nat
    BY EraseProperties, LenProperties DEF RejectedTypes
  <2> QED
    BY <1>0, <1>1, <2>1, ConstantsAssumption DEF Reset, RejectedTypes, Distinct
<1>2. ASSUME NEW t \in Thread, Conclude(t) PROVE RejectedTypes'
  <2>1. key[t] \in Key
    BY <1>0, <1>2 DEF Conclude
  <2>2. /\ Insert(key[t]) \in Seq(Key) /\ Distinct(Insert(key[t]))
        /\ Len(Insert(key[t])) <= MaxRejected
    BY <2>1, InsertProperties DEF RejectedTypes
  <2> QED
    BY <1>2, <2>2 DEF Conclude, RejectedTypes, Distinct, historyVars
<1>3. ASSUME NEW t \in Thread, NEW r \in Response, Answer(t, r) PROVE RejectedTypes'
  BY <1>0, <1>3 DEF Answer, Refused, RejectedTypes, Distinct, keyVars
<1>4. ASSUME NEW t \in Thread, Drop(t) PROVE RejectedTypes'
  BY <1>0, <1>4 DEF Drop, RejectedTypes, Distinct, keyVars
<1>5. CASE UNCHANGED <<rejected, refusals>>
  BY <1>5 DEF RejectedTypes, Distinct
<1> QED
  BY <1>1, <1>2, <1>3, <1>4, <1>5
     DEF Next, Environment, Step, StoreKey, Supersede, Abort, WorkerCall, TestClick, StartCall,
         CheckKey, Lock, GiveUp, Recheck, BeginAttempt, AbortSleep, Proceed, Disconnect,
         Retry, NextAttempt, Tick, keyVars, historyVars, vars

(***************************************************************************)
(* At most MaxLimited keys are limited: a key that enters a full table     *)
(* sends another one out.                                                  *)
(***************************************************************************)
LimitsBounded == IsFiniteSet(Limited) /\ Cardinality(Limited) <= MaxLimited

(* A key added to a finite set makes it larger by one at most.             *)
LEMMA AddAtMostOne ==
    ASSUME NEW S, NEW x, IsFiniteSet(S)
    PROVE  IsFiniteSet(S \cup {x}) /\ Cardinality(S \cup {x}) <= Cardinality(S) + 1
<1>1. Cardinality(S) \in Nat
  BY FS_CardinalityType
<1>2. /\ IsFiniteSet(S \cup {x})
      /\ \/ Cardinality(S \cup {x}) = Cardinality(S)
         \/ Cardinality(S \cup {x}) = Cardinality(S) + 1
  BY FS_AddElement
<1> QED
  BY <1>1, <1>2

(* Every branch of MarkRateLimited keeps the bound: the third drops the    *)
(* key that expires first before it adds the new one.                      *)
LEMMA MarkKeepsBound ==
    ASSUME NEW k \in Key, limits \in [Key -> 0..Cooldown], LimitsBounded,
           MarkRateLimited(k)
    PROVE  LimitsBounded'
<1>0. /\ Cardinality(Limited) \in Nat /\ MaxLimited \in Nat
      /\ Cooldown \in Nat \ {0} /\ IsFiniteSet(Limited)
  BY FS_CardinalityType, ConstantsAssumption DEF LimitsBounded
<1>1. CASE IsRateLimited(k) /\ limits' = [limits EXCEPT ![k] = Cooldown]
  <2>1. Limited' \subseteq Limited
    BY <1>0, <1>1 DEF Limited, IsRateLimited
  <2> QED
    BY <1>0, <2>1, FS_Subset, FS_CardinalityType DEF LimitsBounded
<1>2. CASE Cardinality(Limited) < MaxLimited /\ limits' = [limits EXCEPT ![k] = Cooldown]
  <2>1. Limited' \subseteq Limited \cup {k}
    BY <1>0, <1>2 DEF Limited, IsRateLimited
  <2>2. IsFiniteSet(Limited \cup {k}) /\ Cardinality(Limited \cup {k}) <= Cardinality(Limited) + 1
    BY <1>0, AddAtMostOne
  <2> QED
    BY <1>0, <1>2, <2>1, <2>2, FS_Subset, FS_CardinalityType DEF LimitsBounded
<1>3. ASSUME ~IsRateLimited(k), NEW v \in Earliest,
             limits' = [limits EXCEPT ![v] = 0, ![k] = Cooldown]
      PROVE  LimitsBounded'
  <2>1. v \in Limited /\ v # k
    BY <1>3 DEF Earliest, Limited
  <2>2. Limited' \subseteq (Limited \ {v}) \cup {k}
    BY <1>0, <1>3, <2>1 DEF Limited, IsRateLimited
  <2> DEFINE rest == Limited \ {v}
  <2>3. IsFiniteSet(rest) /\ Cardinality(rest) = Cardinality(Limited) - 1
    BY <1>0, <2>1, FS_RemoveElement
  <2>4. Limited' \subseteq rest \cup {k}
    BY <2>2
  <2> HIDE DEF rest
  <2>5. IsFiniteSet(rest \cup {k}) /\ Cardinality(rest \cup {k}) <= Cardinality(rest) + 1
    BY <2>3, AddAtMostOne
  <2> QED
    BY <1>0, <2>3, <2>4, <2>5, FS_Subset, FS_CardinalityType DEF LimitsBounded
<1> QED
  BY <1>1, <1>2, <1>3 DEF MarkRateLimited

LEMMA LimitsBoundedStep == Types /\ LimitsBounded /\ [Next]_vars => LimitsBounded'
<1> SUFFICES ASSUME Types, LimitsBounded, [Next]_vars PROVE LimitsBounded'
  OBVIOUS
<1>1. ASSUME Limited' \subseteq Limited PROVE LimitsBounded'
  BY <1>1, FS_Subset, FS_CardinalityType, ConstantsAssumption DEF LimitsBounded
<1>2. CASE Tick
  <2>1. Limited' \subseteq Limited
    BY <1>2 DEF Tick, Less, Limited, IsRateLimited, Types, TimeTypes
  <2> QED
    BY <1>1, <2>1
<1>3. ASSUME NEW t \in Thread, Conclude(t) PROVE LimitsBounded'
  <2>1. key[t] \in Key /\ limits \in [Key -> 0..Cooldown]
    BY <1>3 DEF Conclude, Types, CallTypes, TimeTypes
  <2>2. CASE MarkRateLimited(key[t])
    BY <2>1, <2>2, MarkKeepsBound
  <2>3. CASE UNCHANGED limits
    BY <1>1, <2>3 DEF Limited, IsRateLimited
  <2> QED
    BY <1>3, <2>2, <2>3 DEF Conclude
<1>4. CASE UNCHANGED limits
  BY <1>1, <1>4 DEF Limited, IsRateLimited
<1> QED
  BY <1>2, <1>3, <1>4
     DEF Next, Environment, Step, StoreKey, Supersede, Abort, WorkerCall, TestClick, StartCall,
         CheckKey, Lock, GiveUp, Recheck, BeginAttempt, AbortSleep, Proceed, Disconnect,
         Drop, Retry, NextAttempt, Answer, keyVars, vars

LEMMA InitLimitsBounded == Init => LimitsBounded
<1> SUFFICES ASSUME Init PROVE LimitsBounded
  OBVIOUS
<1>1. Limited = {}
  BY DEF Init, Limited, IsRateLimited
<1> QED
  BY <1>1, FS_EmptySet, ConstantsAssumption DEF LimitsBounded

(* TypeOK is invariant: for every number of keys and threads the tables    *)
(* keep their bounds.                                                      *)
THEOREM TypeCorrect == Spec => []TypeOK
<1>1. Types /\ [Next]_vars => Types'
  BY CallTypesStep, FlagTypesStep, TimeTypesStep, RejectedTypesStep DEF Types
<1>2. Types /\ LimitsBounded => TypeOK
  BY DEF Types, CallTypes, Place, FlagTypes, TimeTypes, RejectedTypes, Distinct,
         LimitsBounded, TypeOK
<1> QED
  BY InitTypes, InitLimitsBounded, LimitsBoundedStep, <1>1, <1>2, PTL DEF Spec

-----------------------------------------------------------------------------
(***************************************************************************)
(* The mutex.  Whoever is past it is alone, and once its key was checked   *)
(* nobody else can make the key bad.                                       *)
(***************************************************************************)
Alone == \A t, u \in Thread : pc[t] \in Locked /\ pc[u] \in Locked => t = u

Checked == Locked \ {"locked"}
GoodKeys ==
    \A t \in Thread : pc[t] \in Checked =>
      ~IsApiKeyRejected(key[t]) /\ ~IsRateLimited(key[t])

LEMMA AloneStep == Types /\ Alone /\ [Next]_vars => Alone'
<1> SUFFICES ASSUME Types, Alone, [Next]_vars PROVE Alone'
  OBVIOUS
<1>0. pc \in [Thread -> Place]
  BY DEF Types, CallTypes
<1>1. ASSUME NEW t \in Thread, NEW place, pc' = [pc EXCEPT ![t] = place],
             place \notin Locked \/ pc[t] \in Locked \/ MutexIsFree
      PROVE  Alone'
  BY <1>0, <1>1, Zenon DEF Alone, MutexIsFree
<1>2. ASSUME NEW t \in Thread, Return(t) PROVE Alone'
  <2>1. "idle" \notin Locked
    BY DEF Locked
  <2> QED
    BY <1>1, <1>2, <2>1 DEF Return
<1>3. ASSUME NEW t \in Thread, NEW k, StartCall(t, k) PROVE Alone'
  <2>1. "start" \notin Locked
    BY DEF Locked
  <2> QED
    BY <1>1, <1>3, <2>1 DEF StartCall
<1>4. CASE UNCHANGED pc
  BY <1>4 DEF Alone
<1>5. ASSUME NEW t \in Thread, Step(t) \/ \E r \in Response : Answer(t, r) PROVE Alone'
  <2>1. CASE Return(t)
    BY <1>2, <2>1
  <2>2. CASE CheckKey(t) \/ Lock(t)
    BY <1>1, <2>1, <2>2 DEF CheckKey, Lock, GoTo, Locked
  <2>3. CASE Recheck(t) \/ BeginAttempt(t) \/ Proceed(t) \/ Retry(t) \/ NextAttempt(t)
             \/ \E r \in Response : Answer(t, r)
    <3>1. pc[t] \in Locked
      BY <2>3 DEF Recheck, BeginAttempt, Proceed, Retry, NextAttempt, Answer, Locked
    <3>2. Return(t) \/ \E place : pc' = [pc EXCEPT ![t] = place]
      BY <2>3 DEF Recheck, BeginAttempt, Proceed, Retry, NextAttempt, Answer, GoTo
    <3> QED
      BY <1>1, <2>1, <3>1, <3>2
  <2>4. CASE GiveUp(t) \/ AbortSleep(t) \/ Disconnect(t) \/ Drop(t) \/ Conclude(t)
    BY <2>1, <2>4 DEF GiveUp, AbortSleep, Disconnect, Drop, Conclude
  <2> QED
    BY <1>5, <2>2, <2>3, <2>4 DEF Step
<1> QED
  BY <1>3, <1>4, <1>5, ConstantsAssumption
     DEF Next, Environment, WorkerCall, TestClick, StoreKey, Supersede, Abort, Tick,
         callVars, vars

(* Keys are barred only by the end of a call; resets and time release them. *)
LEMMA OnlyConcludeBars ==
    ASSUME Types, [Next]_vars, ~\E t \in Thread : Conclude(t)
    PROVE  Barred' \subseteq Barred
<1>0. rejected \in Seq(Key) /\ Distinct(rejected) /\ limits \in [Key -> 0..Cooldown]
  BY DEF Types, RejectedTypes, TimeTypes
<1>1. ASSUME NEW k \in Key, rejected' = Erase(k), UNCHANGED limits
      PROVE  Barred' \subseteq Barred
  <2>1. Elements(rejected') \subseteq Elements(rejected)
    BY <1>0, <1>1, EraseProperties
  <2> QED
    BY <1>1, <2>1 DEF Barred, IsApiKeyRejected, IsRateLimited, Elements
<1>2. CASE Tick
  BY <1>0, <1>2 DEF Tick, Less, Barred, IsApiKeyRejected, IsRateLimited
<1>3. CASE UNCHANGED <<rejected, limits>>
  BY <1>3 DEF Barred, IsApiKeyRejected, IsRateLimited
<1> QED
  BY <1>1, <1>2, <1>3
     DEF Next, Environment, Step, StoreKey, Supersede, Abort, WorkerCall, TestClick, StartCall,
         Reset, CheckKey, Lock, GiveUp, Recheck, BeginAttempt, AbortSleep, Proceed,
         Disconnect, Drop, Retry, NextAttempt, Answer, keyVars, vars

(* A call gets past the checks only with a good key, and keeps its key. *)
LEMMA CheckedKeys ==
    ASSUME Types, [Next]_vars, NEW t \in Thread, pc'[t] \in Checked
    PROVE  /\ key'[t] = key[t] /\ key[t] \in Key
           /\ pc[t] \in Checked \/ key[t] \notin Barred
<1>0. /\ pc \in [Thread -> Place] /\ key \in [Thread -> Key \cup {None}]
      /\ \A u \in Thread : pc[u] # "idle" => key[u] \in Key
      /\ "idle" \notin Checked /\ "start" \notin Checked
  BY DEF Types, CallTypes, Checked, Locked
<1>1. CASE pc[t] = pc'[t] /\ key[t] = key'[t]
  BY <1>0, <1>1
<1>2. ASSUME NEW u \in Thread, Return(u) PROVE pc[t] = pc'[t] /\ key[t] = key'[t]
  BY <1>0, <1>2 DEF Return
<1>3. ASSUME NEW u \in Thread, NEW k, StartCall(u, k) PROVE pc[t] = pc'[t] /\ key[t] = key'[t]
  BY <1>0, <1>3 DEF StartCall
<1>4. ASSUME NEW u \in Thread, NEW place, pc' = [pc EXCEPT ![u] = place], UNCHANGED key,
             pc[u] \in Checked \/ place \notin Checked
      PROVE  /\ key'[t] = key[t] /\ key[t] \in Key
             /\ pc[t] \in Checked
  BY <1>0, <1>4
<1>5. ASSUME NEW u \in Thread, Step(u) \/ \E r \in Response : Answer(u, r)
      PROVE  /\ key'[t] = key[t] /\ key[t] \in Key
             /\ pc[t] \in Checked \/ key[t] \notin Barred
  <2>1. CASE Return(u)
    BY <1>1, <1>2, <2>1
  <2>2. CASE CheckKey(u) \/ Lock(u)
    <3>1. "waiting" \notin Checked /\ "locked" \notin Checked
      BY DEF Checked, Locked
    <3> QED
      BY <1>4, <2>1, <2>2, <3>1 DEF CheckKey, Lock, GoTo
  <2>3. CASE Recheck(u)
    BY <1>0, <2>1, <2>3 DEF Recheck, Barred
  <2>4. CASE BeginAttempt(u) \/ Proceed(u) \/ Retry(u) \/ NextAttempt(u)
             \/ \E r \in Response : Answer(u, r)
    <3>1. pc[u] \in Checked
      BY <2>4 DEF BeginAttempt, Proceed, Retry, NextAttempt, Answer, Checked, Locked
    <3>2. Return(u) \/ (UNCHANGED key /\ \E place : pc' = [pc EXCEPT ![u] = place])
      BY <2>4 DEF BeginAttempt, Proceed, Retry, NextAttempt, Answer, GoTo
    <3> QED
      BY <1>4, <2>1, <3>1, <3>2
  <2>5. CASE GiveUp(u) \/ AbortSleep(u) \/ Disconnect(u) \/ Drop(u) \/ Conclude(u)
    BY <2>1, <2>5 DEF GiveUp, AbortSleep, Disconnect, Drop, Conclude
  <2> QED
    BY <1>5, <2>2, <2>3, <2>4, <2>5 DEF Step
<1> QED
  BY <1>1, <1>3, <1>5, ConstantsAssumption
     DEF Next, Environment, WorkerCall, TestClick, StoreKey, Supersede, Abort, Tick,
         callVars, vars

(* The call that bars a key is alone past the mutex, and it is over. *)
LEMMA ConcludeLeavesNobody ==
    ASSUME Types, Alone, NEW u \in Thread, Conclude(u)
    PROVE  \A t \in Thread : pc'[t] \notin Checked
<1>1. /\ pc \in [Thread -> Place] /\ pc[u] \in Locked /\ "idle" \notin Locked
      /\ Checked \subseteq Locked /\ pc' = [pc EXCEPT ![u] = "idle"]
  BY DEF Types, CallTypes, Conclude, Return, Checked, Locked
<1> QED
  BY <1>1 DEF Alone

LEMMA GoodKeysStep == Types /\ Alone /\ GoodKeys /\ [Next]_vars => GoodKeys'
<1> SUFFICES ASSUME Types, Alone, GoodKeys, [Next]_vars,
                    NEW t \in Thread, pc'[t] \in Checked
             PROVE  ~IsApiKeyRejected(key[t])' /\ ~IsRateLimited(key[t])'
  BY DEF GoodKeys
<1>1. ~\E u \in Thread : Conclude(u)
  BY ConcludeLeavesNobody
<1>2. Barred' \subseteq Barred
  BY <1>1, OnlyConcludeBars
<1>3. /\ key'[t] = key[t] /\ key[t] \in Key
      /\ pc[t] \in Checked \/ key[t] \notin Barred
  BY CheckedKeys
<1>4. key[t] \notin Barred
  BY <1>3 DEF GoodKeys, Barred
<1> QED
  BY <1>2, <1>3, <1>4 DEF Barred, IsApiKeyRejected, IsRateLimited

MutexInv == Types /\ Alone /\ GoodKeys

LEMMA MutexInvariant == Spec => []MutexInv
<1>1. Init => Alone /\ GoodKeys
  BY DEF Init, Alone, GoodKeys, Locked, Checked
<1>2. Types /\ [Next]_vars => Types'
  BY CallTypesStep, FlagTypesStep, TimeTypesStep, RejectedTypesStep DEF Types
<1>3. MutexInv /\ [Next]_vars => MutexInv'
  BY <1>2, AloneStep, GoodKeysStep DEF MutexInv
<1>4. Init => MutexInv
  BY <1>1, InitTypes DEF MutexInv
<1> QED
  BY <1>3, <1>4, PTL DEF Spec

(* A call that repeats its request is alone, and its key stays good until  *)
(* the service has answered.                                               *)
THEOREM KeysStayGood == Spec => []KeyStaysGood
<1>1. MutexInv => KeyStaysGood
  BY DEF MutexInv, Alone, GoodKeys, KeyStaysGood, Sending, Locked, Checked
<1> QED
  BY <1>1, MutexInvariant, PTL

-----------------------------------------------------------------------------
(***************************************************************************)
(* Who is on the network.                                                  *)
(***************************************************************************)

(* A request enters the network in Proceed and leaves it when it is        *)
(* answered or disconnected; otherwise nobody's request changes.           *)
LEMMA NetworkSteps ==
    ASSUME Types, [Next]_vars, NEW t \in Thread
    PROVE  \/ pc[t] # "network" /\ pc'[t] # "network"
           \/ pc[t] = "network" /\ pc'[t] = "network" /\ key'[t] = key[t]
           \/ pc[t] # "network" /\ pc'[t] = "network" /\ Proceed(t)
           \/ /\ pc[t] = "network" /\ pc'[t] # "network"
              /\ Disconnect(t) \/ \E r \in Response : Answer(t, r)
<1> DEFINE Same(u) == (pc[t] = pc'[t] /\ key[t] = key'[t])
<1>0. pc \in [Thread -> Place] /\ key \in [Thread -> Key \cup {None}]
  BY DEF Types, CallTypes
<1>1. CASE pc[t] = pc'[t] /\ key[t] = key'[t]
  BY <1>1
<1>2. ASSUME NEW u \in Thread, u # t, Return(u) PROVE pc[t] = pc'[t] /\ key[t] = key'[t]
  BY <1>0, <1>2 DEF Return
<1>3. ASSUME NEW u \in Thread, NEW place, u # t, pc' = [pc EXCEPT ![u] = place], UNCHANGED key
      PROVE  pc[t] = pc'[t] /\ key[t] = key'[t]
  BY <1>0, <1>3
<1>4. ASSUME NEW u \in Thread, NEW k, pc[u] = "idle", StartCall(u, k)
      PROVE  \/ pc[t] # "network" /\ pc'[t] # "network"
             \/ pc[t] = pc'[t] /\ key[t] = key'[t]
  BY <1>0, <1>4 DEF StartCall
<1>5. ASSUME NEW u \in Thread, u # t, Step(u) \/ \E r \in Response : Answer(u, r)
      PROVE  pc[t] = pc'[t] /\ key[t] = key'[t]
  <2>1. Return(u) \/ (UNCHANGED key /\ \E place : pc' = [pc EXCEPT ![u] = place])
    BY <1>5 DEF Step, CheckKey, Lock, GiveUp, Recheck, BeginAttempt, AbortSleep, Proceed,
       Disconnect, Drop, Retry, Conclude, NextAttempt, Answer, GoTo
  <2> QED
    BY <1>2, <1>3, <1>5, <2>1
<1>6. CASE CheckKey(t) \/ Lock(t) \/ GiveUp(t) \/ Recheck(t) \/ BeginAttempt(t)
           \/ AbortSleep(t) \/ Drop(t) \/ Retry(t) \/ Conclude(t) \/ NextAttempt(t)
  <2>1. pc[t] # "network"
    BY <1>6 DEF CheckKey, Lock, GiveUp, Recheck, BeginAttempt, AbortSleep, Drop, Retry,
       Conclude, NextAttempt
  <2>2. \E place \in {"idle", "waiting", "locked", "attempt", "throttle", "backoff"} :
          pc' = [pc EXCEPT ![t] = place]
    BY <1>6 DEF CheckKey, Lock, GiveUp, Recheck, BeginAttempt, AbortSleep, Drop, Retry,
       Conclude, NextAttempt, Return, GoTo
  <2> QED
    BY <1>0, <2>1, <2>2
<1>7. CASE Proceed(t)
  BY <1>0, <1>7 DEF Proceed, Return, GoTo
<1>8. CASE Disconnect(t) \/ \E r \in Response : Answer(t, r)
  BY <1>0, <1>8 DEF Disconnect, Answer, Return
<1> QED
  BY <1>1, <1>4, <1>5, <1>6, <1>7, <1>8, ConstantsAssumption
     DEF Next, Environment, Step, WorkerCall, TestClick, StoreKey, Supersede, Abort, Tick,
         callVars, vars

-----------------------------------------------------------------------------
(***************************************************************************)
(* The spacing: the stored time is never older than the last request, and  *)
(* nobody sends while a call sleeps until the interval is over.            *)
(***************************************************************************)
Spacing == age <= quiet /\ SleepIsEnough

LEMMA SpacingStep == MutexInv /\ Spacing /\ [Next]_vars => Spacing'
<1> SUFFICES ASSUME MutexInv, Spacing, [Next]_vars PROVE Spacing'
  OBVIOUS
<1>0. /\ pc \in [Thread -> Place] /\ sleep \in [Thread -> Nat] /\ Alone
      /\ age \in 0..MinInterval /\ quiet \in 0..MinInterval /\ MinInterval \in Nat
  BY ConstantsAssumption DEF MutexInv, Types, CallTypes, TimeTypes
<1>1. CASE Tick
  <2>1. age' <= quiet'
    BY <1>0, <1>1 DEF Tick, Older, Spacing
  <2>2. SleepIsEnough'
    BY <1>0, <1>1 DEF Tick, Older, Less, Spacing, SleepIsEnough
  <2> QED
    BY <2>1, <2>2 DEF Spacing
<1>2. ASSUME NEW u \in Thread, Proceed(u) PROVE Spacing'
  <2>1. age' <= quiet'
    BY <1>0, <1>2 DEF Proceed
  <2>2. ASSUME NEW t \in Thread PROVE pc'[t] # "throttle"
    BY <1>0, <1>2 DEF Proceed, Return, GoTo, Alone, Locked
  <2> QED
    BY <2>1, <2>2 DEF Spacing, SleepIsEnough
<1>3. CASE UNCHANGED <<age, quiet>> /\ ~Tick /\ ~\E u \in Thread : Proceed(u)
  <2> SUFFICES ASSUME NEW t \in Thread, pc'[t] = "throttle"
               PROVE  quiet + sleep'[t] >= MinInterval
    BY <1>0, <1>3 DEF Spacing, SleepIsEnough
  <2>1. CASE pc[t] = "throttle" /\ sleep'[t] = sleep[t]
    BY <2>1 DEF Spacing, SleepIsEnough
  <2>2. CASE BeginAttempt(t)
    BY <1>0, <2>2 DEF BeginAttempt, Return, Spacing
  <2>3. ASSUME NEW u \in Thread, Return(u) PROVE pc[t] = "throttle" /\ sleep'[t] = sleep[t]
    BY <1>0, <2>3 DEF Return
  <2>4. ASSUME NEW u \in Thread, NEW place, pc' = [pc EXCEPT ![u] = place],
               sleep' = sleep \/ (u # t /\ \E n : sleep' = [sleep EXCEPT ![u] = n]),
               u = t => place # "throttle"
        PROVE  pc[t] = "throttle" /\ sleep'[t] = sleep[t]
    BY <1>0, <2>4
  <2>5. ASSUME NEW u \in Thread, NEW k, StartCall(u, k)
        PROVE  pc[t] = "throttle" /\ sleep'[t] = sleep[t]
    BY <2>4, <2>5 DEF StartCall
  <2>6. ASSUME NEW u \in Thread, CheckKey(u) \/ Lock(u) \/ GiveUp(u) \/ Recheck(u)
                                 \/ AbortSleep(u) \/ Disconnect(u) \/ Drop(u)
                                 \/ Conclude(u) \/ NextAttempt(u)
                                 \/ \E r \in Response : Answer(u, r)
        PROVE  pc[t] = "throttle" /\ sleep'[t] = sleep[t]
    <3>1. Return(u) \/ (UNCHANGED sleep /\ \E place \in {"waiting", "locked", "attempt", "answered"} :
                                              pc' = [pc EXCEPT ![u] = place])
      BY <2>6 DEF CheckKey, Lock, GiveUp, Recheck, AbortSleep, Disconnect, Drop, Conclude,
         NextAttempt, Answer, GoTo
    <3> QED
      BY <2>3, <2>4, <3>1
  <2>7. ASSUME NEW u \in Thread, Retry(u) PROVE pc[t] = "throttle" /\ sleep'[t] = sleep[t]
    BY <1>0, <2>7 DEF Retry
  <2>8. ASSUME NEW u \in Thread, u # t, BeginAttempt(u)
        PROVE  pc[t] = "throttle" /\ sleep'[t] = sleep[t]
    BY <1>0, <2>3, <2>8 DEF BeginAttempt
  <2>9. UNCHANGED <<pc, sleep>> => pc[t] = "throttle" /\ sleep'[t] = sleep[t]
    OBVIOUS
  <2> QED
    BY <1>3, <2>1, <2>2, <2>5, <2>6, <2>7, <2>8, <2>9, ConstantsAssumption
       DEF Next, Environment, Step, WorkerCall, TestClick, StoreKey, Supersede, Abort,
           callVars, vars
<1> QED
  BY <1>1, <1>2, <1>3
     DEF Next, Environment, Step, WorkerCall, TestClick, StoreKey, StartCall, Supersede, Abort,
         CheckKey, Lock, GiveUp, Recheck, BeginAttempt, AbortSleep, Disconnect, Drop,
         Retry, Conclude, NextAttempt, Answer, historyVars, vars

LEMMA SpacingInvariant == Spec => [](MutexInv /\ Spacing)
<1>1. Init => Spacing
  BY ConstantsAssumption DEF Init, Spacing, SleepIsEnough
<1>2. MutexInv /\ [Next]_vars => MutexInv'
  <2>1. Types /\ [Next]_vars => Types'
    BY CallTypesStep, FlagTypesStep, TimeTypesStep, RejectedTypesStep DEF Types
  <2> QED
    BY <2>1, AloneStep, GoodKeysStep DEF MutexInv
<1> QED
  BY <1>1, <1>2, MutexInvariant, SpacingStep, PTL DEF Spec

(* The sleep of the throttle always covers what is left of the interval.   *)
THEOREM SleepsAreEnough == Spec => []SleepIsEnough
<1>1. MutexInv /\ Spacing => SleepIsEnough
  BY DEF Spacing
<1> QED
  BY <1>1, SpacingInvariant, PTL

(* No two requests, of whichever threads, are closer than the interval.    *)
THEOREM SpacingHolds == Spec => RequestsAreSpaced
<1>1. ASSUME MutexInv, Spacing, [Next]_vars, NEW t \in Thread, StartsRequest(t)
      PROVE  quiet = MinInterval
  <2>1. Proceed(t)
    BY <1>1, NetworkSteps DEF StartsRequest, MutexInv
  <2>2. quiet + sleep[t] >= MinInterval /\ sleep[t] = 0
    BY <1>1, <2>1 DEF Proceed, Spacing, SleepIsEnough
  <2> QED
    BY <1>1, <2>2, ConstantsAssumption DEF MutexInv, Types, TimeTypes
<1>2. MutexInv /\ Spacing /\ [Next]_vars
        => [\A t \in Thread : StartsRequest(t) => quiet = MinInterval]_vars
  BY <1>1
<1> QED
  BY <1>2, SpacingInvariant, PTL DEF Spec, RequestsAreSpaced

-----------------------------------------------------------------------------
(***************************************************************************)
(* TheAudioDbRequests implements RequestGate.                              *)
(***************************************************************************)
Quiet == \A t \in Thread : pc[t] # "network"

LEMMA InFlightIsKey ==
    ASSUME Alone, NEW t \in Thread, pc[t] = "network"
    PROVE  InFlight = key[t]
<1>1. \A u \in Thread : pc[u] = "network" => u = t
  BY DEF Alone, Locked
<1>2. (CHOOSE u \in Thread : pc[u] = "network") = t
  BY <1>1
<1> QED
  BY <1>2 DEF InFlight

LEMMA InFlightIsNone == Quiet => InFlight = None
BY DEF Quiet, InFlight

LEMMA ConcludeBars ==
    ASSUME MutexInv, NEW t \in Thread, Conclude(t)
    PROVE  Gate!Bar(key[t]) \/ Barred' \subseteq Barred
<1> DEFINE k == key[t]
<1>0. /\ k \in Key /\ k \notin Barred
      /\ rejected \in Seq(Key) /\ Distinct(rejected) /\ Len(rejected) <= MaxRejected
      /\ limits \in [Key -> 0..Cooldown] /\ Cooldown > 0
  BY ConstantsAssumption
     DEF MutexInv, Types, CallTypes, RejectedTypes, TimeTypes, Conclude, GoodKeys, Checked,
         Locked, Barred
<1>1. Quiet /\ Quiet'
  <2>1. /\ pc \in [Thread -> Place] /\ pc[t] = "answered" /\ Alone
        /\ pc' = [pc EXCEPT ![t] = "idle"]
    BY DEF MutexInv, Types, CallTypes, Conclude, Return
  <2> QED
    BY <2>1 DEF Quiet, Alone, Locked
<1>2. InFlight = None /\ InFlight' = None
  <2>1. Quiet' => InFlight' = None
    BY DEF Quiet, InFlight
  <2> QED
    BY <1>1, <2>1, InFlightIsNone
<1>3. CASE response[t] = "limited"
  <2>1. rejected' = rejected /\ MarkRateLimited(k)
    BY <1>3 DEF Conclude
  <2>2. limits'[k] = Cooldown /\ \A j \in Key : j # k => limits'[j] \in {limits[j], 0}
    <3>1. CASE limits' = [limits EXCEPT ![k] = Cooldown]
      BY <1>0, <3>1
    <3>2. ASSUME NEW v \in Earliest, limits' = [limits EXCEPT ![v] = 0, ![k] = Cooldown]
          PROVE  limits'[k] = Cooldown /\ \A j \in Key : j # k => limits'[j] \in {limits[j], 0}
      BY <1>0, <3>2 DEF Earliest, Limited
    <3> QED
      BY <2>1, <3>1, <3>2 DEF MarkRateLimited
  <2>3. k \in Barred' /\ Barred' \subseteq Barred \cup {k}
    BY <1>0, <2>1, <2>2 DEF Barred, IsApiKeyRejected, IsRateLimited
  <2> QED
    BY <1>0, <1>2, <2>3 DEF Gate!Bar
<1>4. CASE response[t] = "rejected"
  <2>1. rejected' = Insert(k) /\ UNCHANGED limits
    BY <1>4 DEF Conclude
  <2>2. k \in Elements(rejected') /\ Elements(rejected') \subseteq Elements(rejected) \cup {k}
    BY <1>0, <2>1, InsertProperties
  <2>3. k \in Barred' /\ Barred' \subseteq Barred \cup {k}
    BY <1>0, <2>1, <2>2 DEF Barred, IsApiKeyRejected, IsRateLimited, Elements
  <2> QED
    BY <1>0, <1>2, <2>3 DEF Gate!Bar
<1>5. CASE response[t] \notin {"limited", "rejected"}
  <2>1. UNCHANGED <<rejected, limits>>
    BY <1>5 DEF Conclude
  <2> QED
    BY <2>1 DEF Barred, IsApiKeyRejected, IsRateLimited
<1> QED
  BY <1>3, <1>4, <1>5

(* Every step of the request layer is a step of the gate.                  *)
LEMMA GateStep ==
    ASSUME MutexInv, MutexInv', [Next]_vars
    PROVE  Gate!GateNext \/ UNCHANGED Gate!gateVars
<1>0. /\ Types /\ Alone /\ GoodKeys /\ Alone'
      /\ \A t \in Thread : pc[t] # "idle" => key[t] \in Key /\ key[t] # None
  BY ConstantsAssumption DEF MutexInv, Types, CallTypes
<1>1. CASE \A t \in Thread : \/ pc[t] # "network" /\ pc'[t] # "network"
                             \/ /\ pc[t] = "network" /\ pc'[t] = "network"
                                /\ key'[t] = key[t]
  <2>1. InFlight' = InFlight
    <3>1. CASE Quiet
      <4>1. InFlight = None
        BY <3>1, InFlightIsNone
      <4>2. InFlight' = None
        BY <1>1, <3>1 DEF Quiet, InFlight
      <4> QED
        BY <4>1, <4>2
    <3>2. ASSUME NEW t \in Thread, pc[t] = "network" PROVE InFlight' = InFlight
      <4>1. InFlight = key[t]
        BY <1>0, <3>2, InFlightIsKey
      <4>2. \A u \in Thread : pc'[u] = "network" => u = t
        BY <1>1, <1>0, <3>2 DEF Alone, Locked
      <4>3. (CHOOSE u \in Thread : pc'[u] = "network") = t
        BY <1>1, <3>2, <4>2
      <4>4. InFlight' = key'[t]
        BY <1>1, <3>2, <4>3 DEF InFlight
      <4> QED
        BY <1>1, <3>2, <4>1, <4>4
    <3> QED
      BY <3>1, <3>2 DEF Quiet
  <2>2. ASSUME Barred' \subseteq Barred PROVE Gate!GateNext
    BY <2>1, <2>2 DEF Gate!GateNext, Gate!Release
  <2>3. ASSUME NEW t \in Thread, Conclude(t) PROVE Gate!GateNext
    <3>1. key[t] \in Key
      BY <1>0, <2>3 DEF Conclude
    <3>2. Gate!Bar(key[t]) \/ Barred' \subseteq Barred
      BY <2>3, ConcludeBars
    <3>3. CASE Gate!Bar(key[t])
      BY <3>1, <3>3, Zenon DEF Gate!GateNext
    <3> QED
      BY <2>2, <3>2, <3>3
  <2> QED
    BY <1>0, <2>2, <2>3, OnlyConcludeBars
<1>2. ASSUME NEW t \in Thread, pc[t] # "network", pc'[t] = "network", Proceed(t)
      PROVE  Gate!Send(key[t]) /\ key[t] \in Key
  <2>1. pc \in [Thread -> Place] /\ pc[t] = "throttle" /\ GoTo(t, "network")
        /\ UNCHANGED <<rejected, limits>>
    BY <1>0, <1>2 DEF Types, CallTypes, Proceed, Return, keyVars
  <2>2. InFlight = None
    <3>1. Quiet
      BY <1>0, <2>1 DEF Quiet, Alone, Locked
    <3> QED
      BY <3>1, InFlightIsNone
  <2>3. InFlight' = key[t]
    <3>1. \A u \in Thread : pc'[u] = "network" => u = t
      BY <1>0, <1>2 DEF Alone, Locked
    <3>2. (CHOOSE u \in Thread : pc'[u] = "network") = t
      BY <1>2, <3>1
    <3> QED
      BY <1>2, <2>1, <3>2 DEF InFlight, GoTo
  <2>4. key[t] \notin Barred /\ key[t] \in Key
    BY <1>0, <2>1 DEF GoodKeys, Checked, Locked, Barred
  <2>5. Barred' = Barred
    BY <2>1 DEF Barred, IsApiKeyRejected, IsRateLimited
  <2> QED
    BY <2>2, <2>3, <2>4, <2>5 DEF Gate!Send
<1>3. ASSUME NEW t \in Thread, pc[t] = "network", pc'[t] # "network",
             Disconnect(t) \/ \E r \in Response : Answer(t, r)
      PROVE  Gate!Finish
  <2>1. pc \in [Thread -> Place] /\ UNCHANGED <<rejected, limits>>
        /\ \E place \in {"idle", "answered"} : pc' = [pc EXCEPT ![t] = place]
    BY <1>0, <1>3 DEF Types, CallTypes, Disconnect, Answer, Return, keyVars
  <2>2. InFlight = key[t] /\ key[t] # None
    BY <1>0, <1>3, InFlightIsKey
  <2>3. InFlight' = None
    <3>1. Quiet'
      BY <1>0, <1>3, <2>1 DEF Quiet, Alone, Locked
    <3> QED
      BY <3>1 DEF Quiet, InFlight
  <2>4. Barred' = Barred
    BY <2>1 DEF Barred, IsApiKeyRejected, IsRateLimited
  <2> QED
    BY <2>2, <2>3, <2>4 DEF Gate!Finish
<1> QED
  BY <1>0, <1>1, <1>2, <1>3, NetworkSteps DEF Gate!GateNext

(* One request at a time, none with a barred key, and no key is barred     *)
(* while a request is under way.                                           *)
THEOREM ImplementsGate == Spec => GateHolds
<1>1. Init => Gate!GateInit
  <2> SUFFICES ASSUME Init PROVE Gate!GateInit
    OBVIOUS
  <2>1. Quiet
    BY DEF Init, Quiet
  <2>2. Barred = {}
    <3>1. Len(rejected) = 0
      BY EmptySeq DEF Init
    <3> QED
      BY <3>1 DEF Init, Barred, IsApiKeyRejected, IsRateLimited
  <2> QED
    BY <2>1, <2>2, InFlightIsNone DEF Gate!GateInit
<1>2. MutexInv /\ MutexInv' /\ [Next]_vars => [Gate!GateNext]_(Gate!gateVars)
  BY GateStep
<1> QED
  BY <1>1, <1>2, MutexInvariant, PTL DEF Spec, GateHolds, Gate!GateSpec

-----------------------------------------------------------------------------
(***************************************************************************)
(* Refused keys.  The histories remember more than the tables: a table     *)
(* that is full forgets a key.  The invariant says what it still knows     *)
(* then.  A call whose answer is still to be recorded is an exception, and *)
(* it keeps the others out.                                                *)
(***************************************************************************)

(* The service refused the key in an answer that is not recorded yet. *)
Holds(t, r) == pc[t] = "answered" /\ response[t] = r
Pending(k, r) == \E t \in Thread : Holds(t, r) /\ key[t] = k
Waits(r) == \E t \in Thread : Holds(t, r)

(* A limit that was forgotten made room for later ones in a full table. *)
Displaced(k) ==
    Cardinality(Limited) = MaxLimited /\ \A j \in Limited : limits[j] >= told[k]
LimitsRemembered ==
    \A k \in Key : told[k] > limits[k] => Pending(k, "limited") \/ Displaced(k)

(* At most n keys were inserted after k. *)
Behind(k, n) == \E i \in 1..Len(rejected) : rejected[i] = k /\ Len(rejected) - i <= n
RejectionsRemembered ==
    \A k \in Key : refusals[k] < MaxRejected =>
       \/ Pending(k, "rejected")
       \/ Behind(k, IF Waits("rejected") THEN refusals[k] - 1 ELSE refusals[k])

(* Only an answer starts to wait, and only its own call ends the wait. *)
LEMMA AnswersStay ==
    ASSUME Types, [Next]_vars, NEW r \in {"limited", "rejected"}, NEW t \in Thread,
           ~\E u \in Thread : Drop(u) \/ Conclude(u) \/ \E q \in Response : Answer(u, q)
    PROVE  /\ Holds(t, r)' <=> Holds(t, r)
           /\ Holds(t, r) => key'[t] = key[t]
<1>0. /\ pc \in [Thread -> Place] /\ key \in [Thread -> Key \cup {None}]
      /\ response \in [Thread -> Response]
  BY DEF Types, CallTypes
<1>1. CASE UNCHANGED <<pc, key, response>>
  BY <1>1 DEF Holds
<1>2. ASSUME NEW u \in Thread, Return(u), pc[u] # "answered"
      PROVE  (Holds(t, r)' <=> Holds(t, r)) /\ (Holds(t, r) => key'[t] = key[t])
  BY <1>0, <1>2 DEF Return, Holds
<1>3. ASSUME NEW u \in Thread, NEW place, pc' = [pc EXCEPT ![u] = place],
             place # "answered", UNCHANGED response,
             pc[u] # "answered" \/ response[u] = "transient",
             UNCHANGED key \/ (pc[u] = "idle" /\ \E k : key' = [key EXCEPT ![u] = k])
      PROVE  (Holds(t, r)' <=> Holds(t, r)) /\ (Holds(t, r) => key'[t] = key[t])
  BY <1>0, <1>3 DEF Holds
<1>4. ASSUME NEW u \in Thread, NEW k, pc[u] = "idle", StartCall(u, k)
      PROVE  (Holds(t, r)' <=> Holds(t, r)) /\ (Holds(t, r) => key'[t] = key[t])
  <2>1. /\ pc' = [pc EXCEPT ![u] = "start"] /\ key' = [key EXCEPT ![u] = k]
        /\ UNCHANGED response
    BY <1>4 DEF StartCall
  <2> QED
    BY <1>3, <1>4, <2>1
<1>5. ASSUME NEW u \in Thread, Step(u)
      PROVE  (Holds(t, r)' <=> Holds(t, r)) /\ (Holds(t, r) => key'[t] = key[t])
  <2>1. CASE Retry(u)
    BY <1>3, <2>1 DEF Retry, IsTransient
  <2>2. CASE ~Retry(u)
    <3>1. /\ pc[u] # "answered"
          /\ \/ Return(u)
             \/ /\ UNCHANGED <<key, response>>
                /\ \E place \in {"waiting", "locked", "attempt", "throttle", "network"} :
                      pc' = [pc EXCEPT ![u] = place]
      BY <1>5, <2>2 DEF Step, CheckKey, Lock, GiveUp, Recheck, BeginAttempt, AbortSleep,
         Proceed, Disconnect, NextAttempt, GoTo
    <3>2. ASSUME NEW place \in {"waiting", "locked", "attempt", "throttle", "network"},
                 pc' = [pc EXCEPT ![u] = place], UNCHANGED <<key, response>>
          PROVE  (Holds(t, r)' <=> Holds(t, r)) /\ (Holds(t, r) => key'[t] = key[t])
      BY <1>3, <3>1, <3>2
    <3> QED
      BY <1>2, <3>1, <3>2
  <2> QED
    BY <2>1, <2>2
<1> QED
  BY <1>1, <1>4, <1>5, ConstantsAssumption
     DEF Next, Environment, WorkerCall, TestClick, StoreKey, Supersede, Abort, Tick,
         callVars, vars

(* Who is past the mutex is the only one who may wait to record an answer. *)
LEMMA OnlyOneHolds ==
    ASSUME Alone, NEW t \in Thread, pc[t] \in Locked
    PROVE  /\ \A k, r : Pending(k, r) => Holds(t, r) /\ key[t] = k
           /\ \A r : Waits(r) => Holds(t, r)
BY DEF Alone, Pending, Waits, Holds, Locked

(* Recording a 429 leaves every other key that was told of one either in   *)
(* the table or displaced.                                                 *)
LEMMA MarkRemembers ==
    ASSUME Types, LimitsBounded, NEW k \in Key, ~IsRateLimited(k), MarkRateLimited(k),
           UNCHANGED told,
           \A j \in Key \ {k} : told[j] > limits[j] => Displaced(j)
    PROVE  \A j \in Key : told[j] > limits'[j] => Displaced(j)'
<1>0. /\ limits \in [Key -> 0..Cooldown] /\ told \in [Key -> 0..Cooldown]
      /\ Cooldown \in Nat \ {0} /\ MaxLimited \in Nat \ {0}
      /\ IsFiniteSet(Limited) /\ Cardinality(Limited) \in Nat
      /\ Cardinality(Limited) <= MaxLimited
  BY ConstantsAssumption, FS_CardinalityType DEF Types, TimeTypes, LimitsBounded
<1>1. CASE Cardinality(Limited) < MaxLimited /\ limits' = [limits EXCEPT ![k] = Cooldown]
  <2>1. \A j \in Key : ~Displaced(j)
    BY <1>0, <1>1 DEF Displaced
  <2> QED
    BY <1>0, <1>1, <2>1
<1>2. ASSUME ~(Cardinality(Limited) < MaxLimited), NEW v \in Earliest,
             limits' = [limits EXCEPT ![v] = 0, ![k] = Cooldown]
      PROVE  \A j \in Key : told[j] > limits'[j] => Displaced(j)'
  <2>1. v \in Limited /\ v # k /\ k \notin Limited
        /\ \A j \in Limited : limits[v] <= limits[j]
    BY <1>2 DEF Earliest, Limited
  <2>2. Limited' = (Limited \ {v}) \cup {k}
    BY <1>0, <1>2, <2>1 DEF Limited, IsRateLimited
  <2>3. Cardinality(Limited') = MaxLimited
    <3> DEFINE rest == Limited \ {v}
    <3>1. IsFiniteSet(rest) /\ Cardinality(rest) = Cardinality(Limited) - 1
      BY <1>0, <2>1, FS_RemoveElement
    <3>2. k \notin rest
      BY <2>1
    <3>3. Cardinality(rest \cup {k}) = Cardinality(rest) + 1
      BY <3>1, <3>2, FS_AddElement
    <3> QED
      BY <1>0, <1>2, <2>2, <3>1, <3>3
  <2>4. /\ limits'[k] = Cooldown /\ limits'[v] = 0
        /\ \A j \in Key : j # k /\ j # v => limits'[j] = limits[j]
    BY <1>0, <1>2, <2>1 DEF Limited
  <2>5. ASSUME NEW j \in Key, told[j] > limits'[j] PROVE \A i \in Limited : told[j] <= limits[i]
    <3>1. j # k
      BY <1>0, <2>4, <2>5
    <3>2. CASE j # v
      BY <2>4, <2>5, <3>1, <3>2 DEF Displaced
    <3>3. CASE j = v
      <4>1. told[v] <= limits[v]
        BY <1>0, <2>1, <3>1, <3>3 DEF Displaced
      <4> QED
        BY <1>0, <2>1, <3>3, <4>1 DEF Limited
    <3> QED
      BY <3>2, <3>3
  <2>6. ASSUME NEW j \in Key, told[j] > limits'[j], NEW i \in Limited'
        PROVE  limits'[i] >= told'[j]
    <3>1. told'[j] = told[j] /\ told[j] <= Cooldown
      BY <1>0
    <3>2. CASE i = k
      BY <1>0, <2>4, <3>1, <3>2
    <3>3. CASE i # k
      <4>1. i \in Limited /\ i # v /\ i \in Key
        BY <2>2, <3>3 DEF Limited
      <4>2. limits'[i] = limits[i] /\ told[j] <= limits[i]
        BY <2>4, <2>5, <2>6, <3>3, <4>1
      <4> QED
        BY <1>0, <3>1, <4>1, <4>2
    <3> QED
      BY <3>2, <3>3
  <2> QED
    BY <2>3, <2>6 DEF Displaced
<1> QED
  BY <1>1, <1>2 DEF MarkRateLimited

LEMMA LimitsRememberedStep ==
    ASSUME MutexInv, LimitsBounded, LimitsRemembered, [Next]_vars
    PROVE  LimitsRemembered'
<1>0. /\ Types /\ Alone /\ GoodKeys
      /\ pc \in [Thread -> Place] /\ key \in [Thread -> Key \cup {None}]
      /\ response \in [Thread -> Response]
      /\ \A t \in Thread : pc[t] # "idle" => key[t] \in Key
      /\ limits \in [Key -> 0..Cooldown] /\ told \in [Key -> 0..Cooldown]
      /\ Cooldown \in Nat \ {0}
  BY ConstantsAssumption DEF MutexInv, Types, CallTypes, TimeTypes
<1>1. ASSUME UNCHANGED limits, NEW k \in Key, told'[k] = told[k], Displaced(k)
      PROVE  Displaced(k)'
  <2>1. Limited' = Limited
    BY <1>1 DEF Limited, IsRateLimited
  <2> QED
    BY <1>1, <2>1 DEF Displaced
<1>2. CASE Tick
  <2> SUFFICES ASSUME NEW k \in Key, told'[k] > limits'[k], ~Pending(k, "limited")'
               PROVE  Displaced(k)'
    BY DEF LimitsRemembered
  <2>1. \A j \in Key : limits'[j] = Less(limits[j]) /\ told'[j] = Less(told[j])
    BY <1>2 DEF Tick
  <2>2. ~Pending(k, "limited")
    BY <1>2 DEF Tick, Pending, Holds
  <2>3. told[k] > limits[k] /\ told'[k] = told[k] - 1 /\ told'[k] > 0
    BY <1>0, <2>1 DEF Less
  <2>4. Displaced(k)
    BY <2>2, <2>3 DEF LimitsRemembered
  <2>5. \A j \in Limited : limits'[j] = limits[j] - 1 /\ limits'[j] >= told'[k]
    BY <1>0, <2>1, <2>3, <2>4 DEF Displaced, Less, Limited
  <2>6. Limited' = Limited
    BY <1>0, <2>1, <2>3, <2>5 DEF Less, Limited, IsRateLimited
  <2> QED
    BY <2>4, <2>5, <2>6 DEF Displaced
<1>3. ASSUME NEW t \in Thread, NEW r \in Response, Answer(t, r) PROVE LimitsRemembered'
  <2> SUFFICES ASSUME NEW k \in Key, told'[k] > limits'[k], ~Pending(k, "limited")'
               PROVE  Displaced(k)'
    BY DEF LimitsRemembered
  <2>1. UNCHANGED limits /\ pc[t] = "network"
    BY <1>3 DEF Answer, keyVars
  <2>2. told'[k] = told[k]
    <3>1. CASE r = "limited"
      <4>1. Holds(t, r)' /\ key'[t] = key[t]
        BY <1>0, <1>3 DEF Answer, Holds
      <4>2. k # key[t]
        BY <3>1, <4>1 DEF Pending
      <4> QED
        BY <1>0, <1>3, <4>2 DEF Answer
    <3> QED
      BY <1>3, <3>1 DEF Answer
  <2>3. ~Pending(k, "limited")
    BY <1>0, <2>1, OnlyOneHolds DEF Holds, Locked
  <2> QED
    BY <1>1, <2>1, <2>2, <2>3 DEF LimitsRemembered
<1>4. ASSUME NEW t \in Thread, Drop(t) PROVE LimitsRemembered'
  <2> SUFFICES ASSUME NEW k \in Key, told'[k] > limits'[k] PROVE Displaced(k)'
    BY DEF LimitsRemembered
  <2>1. UNCHANGED limits /\ pc[t] = "answered"
    BY <1>4 DEF Drop, keyVars
  <2>2. told'[k] = told[k] /\ ~(response[t] = "limited" /\ key[t] = k)
    BY <1>0, <1>4, <2>1 DEF Drop
  <2>3. ~Pending(k, "limited")
    BY <1>0, <2>1, <2>2, OnlyOneHolds DEF Holds, Locked
  <2> QED
    BY <1>1, <2>1, <2>2, <2>3 DEF LimitsRemembered
<1>5. ASSUME NEW t \in Thread, Conclude(t) PROVE LimitsRemembered'
  <2>1. pc[t] = "answered" /\ UNCHANGED told /\ key[t] \in Key
    BY <1>0, <1>5 DEF Conclude, historyVars
  <2>2. \A k \in Key : Pending(k, "limited") => response[t] = "limited" /\ key[t] = k
    BY <1>0, <2>1, OnlyOneHolds DEF Holds, Locked
  <2>3. CASE response[t] = "limited"
    <3>1. MarkRateLimited(key[t])
      BY <1>5, <2>3 DEF Conclude
    <3>2. ~IsRateLimited(key[t])
      BY <1>0, <2>1 DEF GoodKeys, Checked, Locked
    <3>3. \A j \in Key \ {key[t]} : told[j] > limits[j] => Displaced(j)
      BY <2>2 DEF LimitsRemembered
    <3> QED
      BY <1>0, <2>1, <3>1, <3>2, <3>3, MarkRemembers DEF LimitsRemembered
  <2>4. CASE response[t] # "limited"
    <3>1. UNCHANGED limits
      BY <1>5, <2>4 DEF Conclude
    <3> QED
      BY <1>1, <2>1, <2>2, <2>4, <3>1 DEF LimitsRemembered
  <2> QED
    BY <2>3, <2>4
<1>6. CASE UNCHANGED <<limits, told>>
           /\ ~\E u \in Thread : Drop(u) \/ Conclude(u) \/ \E q \in Response : Answer(u, q)
  <2>1. ASSUME NEW k \in Key, Pending(k, "limited") PROVE Pending(k, "limited")'
    BY <1>0, <1>6, <2>1, AnswersStay DEF Pending
  <2> QED
    BY <1>1, <1>6, <2>1 DEF LimitsRemembered
<1> QED
  BY <1>2, <1>3, <1>4, <1>5, <1>6
     DEF Next, Environment, Step, StoreKey, Supersede, Abort, WorkerCall, TestClick, StartCall,
         CheckKey, Lock, GiveUp, Recheck, BeginAttempt, AbortSleep, Proceed, Disconnect,
         Retry, NextAttempt, keyVars, historyVars, vars

(* Erasing a key puts no key further back. *)
LEMMA EraseMoves ==
    ASSUME NEW k \in Key, rejected \in Seq(Key), Distinct(rejected),
           NEW j, j # k, NEW n, Behind(j, n), n \in Int,
           rejected' = Erase(k)
    PROVE  Behind(j, n)'
<1>1. PICK i \in 1..Len(rejected) : rejected[i] = j /\ Len(rejected) - i <= n
  BY DEF Behind
<1>2. Len(rejected) \in Nat
  BY LenProperties
<1>3. CASE ~IsApiKeyRejected(k)
  BY <1>1, <1>3 DEF Erase, Behind
<1>4. CASE IsApiKeyRejected(k)
  <2>1. PICK p \in 1..Len(rejected) : rejected[p] = k /\ Erase(k) = Without(rejected, p)
    BY <1>4 DEF Erase, IsApiKeyRejected
  <2>2. /\ Len(rejected') = Len(rejected) - 1
        /\ \A q \in 1..Len(rejected) - 1 :
             rejected'[q] = IF q < p THEN rejected[q] ELSE rejected[q + 1]
    BY <2>1, WithoutProperties
  <2>3. p # i
    BY <1>1, <2>1
  <2> DEFINE q == IF i < p THEN i ELSE i - 1
  <2>4. q \in 1..Len(rejected') /\ rejected'[q] = j /\ Len(rejected') - q <= n
    BY <1>1, <1>2, <2>2, <2>3
  <2> QED
    BY <2>4 DEF Behind
<1> QED
  BY <1>3, <1>4

(* Inserting a key puts every other one further back by one, and the one   *)
(* that leaves a full table was behind MaxRejected - 1 others.             *)
LEMMA InsertMoves ==
    ASSUME NEW k \in Key, rejected \in Seq(Key), Len(rejected) <= MaxRejected,
           ~IsApiKeyRejected(k), rejected' = Insert(k)
    PROVE  /\ Behind(k, 0)'
           /\ \A j, n : n \in Int /\ n < MaxRejected /\ Behind(j, n - 1) => Behind(j, n)'
<1> DEFINE s == IF Len(rejected) >= MaxRejected THEN Tail(rejected) ELSE rejected
<1>1. Len(rejected) \in Nat /\ MaxRejected \in Nat \ {0}
  BY LenProperties, ConstantsAssumption
<1>2. /\ s \in Seq(Key) /\ Len(s) \in Nat
      /\ \A j, n : n \in Int /\ n < MaxRejected /\ Behind(j, n - 1)
            => \E i \in 1..Len(s) : s[i] = j /\ Len(s) - i <= n - 1
  <2>1. CASE Len(rejected) >= MaxRejected
    <3>1. rejected # <<>>
      BY <1>1, <2>1, EmptySeq
    <3>2. /\ Tail(rejected) \in Seq(Key) /\ Len(Tail(rejected)) = Len(rejected) - 1
          /\ \A i \in 1..Len(Tail(rejected)) : Tail(rejected)[i] = rejected[i + 1]
      BY <3>1, HeadTailProperties
    <3>3. ASSUME NEW j, NEW n, n \in Int, n < MaxRejected, Behind(j, n - 1)
          PROVE  \E i \in 1..Len(s) : s[i] = j /\ Len(s) - i <= n - 1
      <4>1. PICK i \in 1..Len(rejected) : rejected[i] = j /\ Len(rejected) - i <= n - 1
        BY <3>3 DEF Behind
      <4>2. i - 1 \in 1..Len(s) /\ s[i - 1] = j /\ Len(s) - (i - 1) <= n - 1
        BY <1>1, <2>1, <3>2, <3>3, <4>1
      <4> QED
        BY <4>2
    <3> QED
      BY <1>1, <2>1, <3>2, <3>3
  <2>2. CASE ~(Len(rejected) >= MaxRejected)
    BY <1>1, <2>2 DEF Behind
  <2> QED
    BY <2>1, <2>2
<1>3. rejected' = Append(s, k)
  BY DEF Insert
<1> HIDE DEF s
<1>4. /\ Len(rejected') = Len(s) + 1
      /\ \A i \in 1..Len(s) : rejected'[i] = s[i]
      /\ rejected'[Len(s) + 1] = k
  BY <1>2, <1>3, AppendProperties
<1>5. Behind(k, 0)'
  BY <1>2, <1>4 DEF Behind
<1>6. ASSUME NEW j, NEW n, n \in Int, n < MaxRejected, Behind(j, n - 1)
      PROVE  Behind(j, n)'
  <2>1. PICK i \in 1..Len(s) : s[i] = j /\ Len(s) - i <= n - 1
    BY <1>2, <1>6
  <2>2. i \in 1..Len(rejected') /\ rejected'[i] = j /\ Len(rejected') - i <= n
    BY <1>2, <1>4, <1>6, <2>1
  <2> QED
    BY <2>2 DEF Behind
<1> QED
  BY <1>5, <1>6

LEMMA RejectionsRememberedStep ==
    ASSUME MutexInv, RejectionsRemembered, [Next]_vars
    PROVE  RejectionsRemembered'
<1>0. /\ Types /\ Alone /\ GoodKeys
      /\ pc \in [Thread -> Place] /\ key \in [Thread -> Key \cup {None}]
      /\ response \in [Thread -> Response]
      /\ \A t \in Thread : pc[t] # "idle" => key[t] \in Key
      /\ rejected \in Seq(Key) /\ Len(rejected) <= MaxRejected /\ Distinct(rejected)
      /\ Len(rejected) \in Nat
      /\ refusals \in [Key -> 0..MaxRejected] /\ MaxRejected \in Nat \ {0}
  BY ConstantsAssumption, LenProperties DEF MutexInv, Types, CallTypes, RejectedTypes
<1> DEFINE Bound(k) == IF Waits("rejected") THEN refusals[k] - 1 ELSE refusals[k]
<1>1. ASSUME NEW t \in Thread, pc[t] \in Locked
      PROVE  /\ \A k : Pending(k, "rejected") => Holds(t, "rejected") /\ key[t] = k
             /\ Waits("rejected") => Holds(t, "rejected")
  BY <1>0, <1>1, OnlyOneHolds
<1>2. ASSUME NEW k, NEW m \in Int, NEW n \in Int, m <= n, Behind(k, m) PROVE Behind(k, n)
  BY <1>0, <1>2 DEF Behind
<1>3. ASSUME NEW t \in Thread, NEW r \in Response, Answer(t, r) PROVE RejectionsRemembered'
  <2>1. /\ UNCHANGED <<rejected, key>> /\ pc[t] = "network" /\ pc[t] \in Locked
        /\ pc' = [pc EXCEPT ![t] = "answered"] /\ response' = [response EXCEPT ![t] = r]
    BY <1>3 DEF Answer, keyVars, Locked
  <2>2. ~Waits("rejected") /\ \A k : ~Pending(k, "rejected")
    BY <1>1, <2>1 DEF Holds
  <2>3. ASSUME NEW k \in Key, NEW n, Behind(k, n) PROVE Behind(k, n)'
    BY <2>1, <2>3 DEF Behind
  <2>4. CASE r = "rejected"
    <3>1. refusals' = Refused(key[t]) /\ Pending(key[t], "rejected")'
          /\ Waits("rejected")'
      BY <1>0, <1>3, <2>1, <2>4 DEF Answer, Pending, Waits, Holds
    <3>2. ASSUME NEW k \in Key, k # key[t], refusals'[k] < MaxRejected
          PROVE  Behind(k, refusals[k] - 1)'
      <4>1. refusals[k] < MaxRejected /\ refusals'[k] - 1 = refusals[k]
        BY <1>0, <3>1, <3>2 DEF Refused
      <4>2. Behind(k, refusals[k])
        BY <2>2, <4>1 DEF RejectionsRemembered
      <4> QED
        BY <2>1, <4>1, <4>2 DEF Behind
    <3> QED
      BY <2>1, <3>1, <3>2 DEF RejectionsRemembered
  <2>5. CASE r # "rejected"
    <3>1. UNCHANGED refusals /\ ~Waits("rejected")'
      BY <1>0, <1>3, <2>1, <2>2, <2>5 DEF Answer, Waits, Holds
    <3> QED
      BY <2>1, <2>2, <3>1 DEF RejectionsRemembered, Behind
  <2> QED
    BY <2>4, <2>5
<1>4. ASSUME NEW t \in Thread, Drop(t) \/ Conclude(t)
      PROVE  /\ pc[t] = "answered" /\ pc[t] \in Locked /\ key[t] \in Key
             /\ ~Waits("rejected")'
  <2>1. pc[t] = "answered" /\ Return(t) /\ pc[t] \in Locked
    BY <1>4 DEF Drop, Conclude, Locked
  <2>2. \A u \in Thread : pc'[u] # "answered"
    BY <1>0, <2>1 DEF Return, Alone, Locked
  <2> QED
    BY <1>0, <2>1, <2>2 DEF Waits, Holds
<1>5. ASSUME NEW t \in Thread, Drop(t) PROVE RejectionsRemembered'
  <2> SUFFICES ASSUME NEW k \in Key, refusals'[k] < MaxRejected
               PROVE  Behind(k, refusals[k])'
    BY <1>4, <1>5 DEF RejectionsRemembered
  <2>1. UNCHANGED rejected /\ refusals'[k] = refusals[k]
        /\ ~(response[t] = "rejected" /\ key[t] = k)
    BY <1>0, <1>4, <1>5 DEF Drop, keyVars
  <2>2. Behind(k, Bound(k))
    BY <1>1, <1>4, <1>5, <2>1 DEF RejectionsRemembered, Holds
  <2>3. Behind(k, refusals[k])
    BY <1>0, <1>2, <2>2
  <2> QED
    BY <2>1, <2>3 DEF Behind
<1>6. ASSUME NEW t \in Thread, Conclude(t) PROVE RejectionsRemembered'
  <2> SUFFICES ASSUME NEW k \in Key, refusals'[k] < MaxRejected
               PROVE  Behind(k, refusals[k])'
    BY <1>4, <1>6 DEF RejectionsRemembered
  <2>1. UNCHANGED refusals
    BY <1>6 DEF Conclude, historyVars
  <2>2. CASE response[t] = "rejected"
    <3>1. PICK c \in Key : c = key[t]
      BY <1>4, <1>6
    <3>2. rejected' = Insert(c) /\ Waits("rejected")
      BY <1>4, <1>6, <2>2, <3>1 DEF Conclude, Waits, Holds
    <3>3. ~IsApiKeyRejected(c)
      BY <1>0, <1>4, <1>6, <3>1 DEF GoodKeys, Checked, Locked
    <3>4. /\ Behind(c, 0)'
          /\ \A j, n : n \in Int /\ n < MaxRejected /\ Behind(j, n - 1) => Behind(j, n)'
      BY <1>0, <3>2, <3>3, InsertMoves
    <3>5. CASE k = c
      <4>1. PICK i \in 1..Len(rejected') : rejected'[i] = k /\ Len(rejected') - i <= 0
        BY <3>4, <3>5 DEF Behind
      <4>2. refusals'[k] \in Nat /\ Len(rejected') - i \in Int
        BY <1>0, <2>1, <4>1, LenProperties, RejectedTypesStep DEF Types, RejectedTypes
      <4>3. Len(rejected') - i <= refusals'[k]
        BY <4>1, <4>2
      <4> QED
        BY <4>1, <4>3 DEF Behind
    <3>6. CASE k # c
      <4>1. Behind(k, refusals[k] - 1)
        BY <1>1, <1>4, <1>6, <2>1, <3>1, <3>2, <3>6 DEF RejectionsRemembered
      <4>2. PICK n \in Int : n = refusals[k] /\ n = refusals'[k] /\ n < MaxRejected
        BY <1>0, <2>1
      <4>3. Behind(k, n)'
        BY <3>4, <4>1, <4>2
      <4> QED
        BY <4>2, <4>3 DEF Behind
    <3> QED
      BY <3>5, <3>6
  <2>3. CASE response[t] # "rejected"
    <3>1. rejected' = rejected
      BY <1>6, <2>3 DEF Conclude
    <3>2. ~Waits("rejected") /\ ~Pending(k, "rejected")
      BY <1>1, <1>4, <1>6, <2>3 DEF Holds
    <3> QED
      BY <2>1, <3>1, <3>2 DEF RejectionsRemembered, Behind
  <2> QED
    BY <2>2, <2>3
<1>7. ASSUME ~\E u \in Thread : Drop(u) \/ Conclude(u) \/ \E q \in Response : Answer(u, q),
             NEW k \in Key
      PROVE  /\ Pending(k, "rejected") => Pending(k, "rejected")'
             /\ Waits("rejected")' <=> Waits("rejected")
  BY <1>0, <1>7, AnswersStay DEF Pending, Waits
<1>8. ASSUME NEW c \in Key, Reset(c),
             ~\E u \in Thread : Drop(u) \/ Conclude(u) \/ \E q \in Response : Answer(u, q)
      PROVE  RejectionsRemembered'
  <2> SUFFICES ASSUME NEW k \in Key, refusals'[k] < MaxRejected, ~Pending(k, "rejected")'
               PROVE  Behind(k, Bound(k))'
    BY DEF RejectionsRemembered
  <2>1. k # c /\ refusals'[k] = refusals[k]
    BY <1>0, <1>8 DEF Reset
  <2>2. Behind(k, Bound(k)) /\ Bound(k) \in Int
    BY <1>0, <1>7, <1>8, <2>1 DEF RejectionsRemembered
  <2>3. UNCHANGED Bound(k)
    BY <1>7, <1>8, <2>1
  <2> HIDE DEF Bound
  <2>4. ASSUME NEW n, n = Bound(k) PROVE Behind(k, n)'
    BY <1>0, <1>8, <2>1, <2>2, <2>4, EraseMoves DEF Reset
  <2> QED
    BY <2>3, <2>4 DEF Behind
<1>9. CASE UNCHANGED <<rejected, refusals>>
           /\ ~\E u \in Thread : Drop(u) \/ Conclude(u) \/ \E q \in Response : Answer(u, q)
  BY <1>7, <1>9 DEF RejectionsRemembered, Behind
<1> QED
  BY <1>3, <1>5, <1>6, <1>8, <1>9
     DEF Next, Environment, Step, StoreKey, Supersede, Abort, WorkerCall, TestClick, StartCall,
         CheckKey, Lock, GiveUp, Recheck, BeginAttempt, AbortSleep, Proceed, Disconnect,
         Retry, NextAttempt, Tick, keyVars, historyVars, vars

RefusalInv == MutexInv /\ LimitsBounded /\ LimitsRemembered /\ RejectionsRemembered

LEMMA RefusalInvariant == Spec => []RefusalInv
<1>1. Init => LimitsRemembered /\ RejectionsRemembered
  BY ConstantsAssumption DEF Init, LimitsRemembered, RejectionsRemembered
<1>2. MutexInv /\ LimitsBounded /\ [Next]_vars => LimitsBounded'
  BY LimitsBoundedStep DEF MutexInv
<1>3. RefusalInv /\ [Next]_vars /\ MutexInv' => RefusalInv'
  BY <1>2, LimitsRememberedStep, RejectionsRememberedStep DEF RefusalInv
<1>4. Init /\ MutexInv => RefusalInv
  BY <1>1, InitLimitsBounded DEF RefusalInv
<1> QED
  BY <1>3, <1>4, MutexInvariant, PTL DEF Spec

(* No request goes out with a key that the service refused, although both  *)
(* tables are bounded and a refusal is recorded only after the answer: not *)
(* within the cooldown unless the table is full of later limits, and not   *)
(* until the key is reset or MaxRejected others were rejected.             *)
THEOREM RefusedKeysAreNotAsked == Spec => NoRequestAfterRefusal
<1>1. ASSUME RefusalInv, [Next]_vars, NEW t \in Thread, StartsRequest(t)
      PROVE  /\ told[key[t]] = 0 \/ Cardinality(Limited) = MaxLimited
             /\ refusals[key[t]] = MaxRejected
  <2>1. Types /\ Alone /\ GoodKeys
    BY <1>1 DEF RefusalInv, MutexInv
  <2>2. Proceed(t)
    BY <1>1, <2>1, NetworkSteps DEF StartsRequest
  <2>3. pc[t] = "throttle" /\ pc[t] \in Locked /\ pc[t] \in Checked
    BY <2>2 DEF Proceed, Locked, Checked
  <2>4. key[t] \in Key
    BY <2>1, <2>3 DEF Types, CallTypes
  <2>5. \A r : ~Pending(key[t], r)
    BY <2>1, <2>3, OnlyOneHolds DEF Holds
  <2>6. ~IsApiKeyRejected(key[t]) /\ ~IsRateLimited(key[t])
    BY <2>1, <2>3 DEF GoodKeys
  <2>7. told[key[t]] \in 0..Cooldown /\ refusals[key[t]] \in 0..MaxRejected
        /\ limits[key[t]] \in 0..Cooldown /\ Cooldown \in Nat /\ MaxRejected \in Nat
    BY <2>1, <2>4, ConstantsAssumption DEF Types, TimeTypes, RejectedTypes
  <2>8. told[key[t]] = 0 \/ Cardinality(Limited) = MaxLimited
    BY <1>1, <2>4, <2>5, <2>6, <2>7
       DEF RefusalInv, LimitsRemembered, Displaced, IsRateLimited
  <2>9. refusals[key[t]] = MaxRejected
    BY <1>1, <2>4, <2>5, <2>6, <2>7
       DEF RefusalInv, RejectionsRemembered, Behind, IsApiKeyRejected
  <2> QED
    BY <2>8, <2>9
<1>2. RefusalInv /\ [Next]_vars
        => [\A t \in Thread : StartsRequest(t) =>
              /\ told[key[t]] = 0 \/ Cardinality(Limited) = MaxLimited
              /\ refusals[key[t]] = MaxRejected]_vars
  BY <1>1
<1> QED
  BY <1>2, RefusalInvariant, PTL DEF Spec, NoRequestAfterRefusal

=============================================================================
