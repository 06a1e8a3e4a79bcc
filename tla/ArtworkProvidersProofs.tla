------------------------ MODULE ArtworkProvidersProofs ------------------------
(***************************************************************************)
(* Proofs about the worker's two providers, for every set of releases and  *)
(* release groups, every interval and number of attempts, and every set of *)
(* image dimensions.                                                       *)
(***************************************************************************)
EXTENDS ArtworkProviders, TLAPS

USE MusicBrainzAssumption, UploadAssumption

-----------------------------------------------------------------------------
(* The MusicBrainz lookup. *)

(* The requests of the lookup that were answered, one per stage or release. *)
Asks == IF stage = "search" \/ pin \in Canonical THEN 0 ELSE 1 + Len(verdicts)

Active == mbPc \in {"loop", "throttle", "network", "backoff"}

NoArtworkIn(n) == \A j \in 1 .. n : verdicts[j] # "artwork"

(* The release whose cover is asked for. *)
ChosenIsRight ==
    /\ chosen # None
    /\ IF pin \in Canonical THEN chosen = pin
       ELSE LET n == Len(verdicts) IN
            /\ n \in 1 .. Len(group)
            /\ chosen = group[n] /\ verdicts[n] = "artwork" /\ NoArtworkIn(n - 1)

(* Between lookups nothing is left of one. *)
NothingIsLeft ==
    /\ stage = "search" /\ pin = None /\ group = <<>> /\ verdicts = <<>> /\ chosen = None
    /\ sent = 0 /\ late = 0

(* How far a lookup has got, and what it learnt on the way. *)
SearchInv ==
    /\ mbPc = "idle" => NothingIsLeft
    /\ stage = "search" => verdicts = <<>>
    /\ mbPc # "idle" => (pin \in Canonical => stage = "cover")
    /\ stage = "release" => NoArtworkIn(Len(verdicts))
    /\ stage = "cover" => ChosenIsRight
    /\ mbPc = "returned" /\ mbAnswer = "found" => stage = "cover"
    /\ mbPc = "returned" /\ mbAnswer = "none" /\ stage = "release"
         => Len(verdicts) = Len(group)

(* The requests that were sent: at most MaxAttempts for each that was answered, *)
(* and those of the running one; an abort is noticed before the next.           *)
SentInv ==
    /\ Active => attempt >= 1
    /\ mbPc = "backoff" => attempt < MaxAttempts
    /\ mbPc \in {"loop", "throttle"} => sent <= MaxAttempts * Asks + attempt - 1
    /\ mbPc \in {"network", "backoff"} => sent <= MaxAttempts * Asks + attempt
    /\ sent <= MostRequests
    /\ mbPc \in {"loop", "throttle", "backoff"} => late = 0
    /\ ~aborting => late = 0
    /\ late <= 1

(* lastRequest is the time of the last request, and the sleep covers the rest *)
(* of the interval.                                                           *)
ClockInv ==
    /\ age = quiet
    /\ mbPc = "throttle" => age + sleep >= MinInterval

MbInv == MbTypeOK /\ SearchInv /\ SentInv /\ ClockInv

(* Another request fits into the bound. *)
LEMMA AsksFit ==
  ASSUME MbInv, Active
  PROVE  /\ Asks \in Nat /\ MaxAttempts * Asks \in Nat /\ MostRequests \in Nat
         /\ MaxAttempts * (Asks + 1) = MaxAttempts * Asks + MaxAttempts
         /\ MaxAttempts * (Asks + 1) <= MostRequests
  <1>1. Asks \in Nat /\ Asks + 1 <= 2 + Len(group) /\ Len(group) \in Nat
    BY DEF MbInv, MbTypeOK, SearchInv, ChosenIsRight, Asks, Active
  <1>2. \A a, b \in Nat : MaxAttempts * a \in Nat /\ (a <= b => MaxAttempts * a <= MaxAttempts * b)
    OBVIOUS
  <1>3. \A a \in Nat : MaxAttempts * (a + 1) = MaxAttempts * a + MaxAttempts
    OBVIOUS
  <1> QED BY <1>1, <1>2, <1>3 DEF MostRequests

LEMMA MbInitInv == MbInit /\ aborting = FALSE => MbInv
  <1> SUFFICES ASSUME MbInit, aborting = FALSE PROVE MbInv
    OBVIOUS
  <1>1. /\ group \in Seq(Release) /\ verdicts \in Seq(Verdict)
        /\ Len(group) = 0 /\ Len(verdicts) = 0
    BY DEF MbInit
  <1>2. MbTypeOK
    <2>1. attempt \in 0 .. MaxAttempts /\ age \in 0 .. MinInterval /\ quiet \in 0 .. MinInterval
      BY DEF MbInit
    <2>2. /\ mbPc \in Places /\ stage = "search" /\ mbAnswer \in MbAnswer
          /\ pin = None /\ chosen = None /\ sleep = 0 /\ sent = 0 /\ late = 0
      BY DEF MbInit, Places, MbAnswer
    <2>3. aborting \in BOOLEAN
      OBVIOUS
    <2> QED BY <1>1, <2>1, <2>2, <2>3 DEF MbTypeOK
  <1>3. MostRequests = MaxAttempts * 2
    BY <1>1 DEF MostRequests
  <1> QED BY <1>2, <1>3 DEF MbInit, MbInv, SearchInv, SentInv, ClockInv, NothingIsLeft, Active

LEMMA FetchArtKeeps ==
  ASSUME MbInv, NEW p \in Release \cup {None}, FetchArt(p), UNCHANGED aborting
  PROVE  MbInv'
  <1> USE DEF MbInv, FetchArt, EndLookup, Request, timeVars
  <1>1. NothingIsLeft
    BY DEF SearchInv
  <1>2. MbTypeOK'
    BY <1>1 DEF MbTypeOK, Places, MbAnswer, NothingIsLeft
  <1>3. SearchInv'
    BY <1>1 DEF SearchInv, NothingIsLeft, ChosenIsRight, Places
  <1>4. MaxAttempts * Asks' = 0
    BY <1>1 DEF Asks, NothingIsLeft
  <1>5. SentInv'
    BY <1>1, <1>4 DEF SentInv, NothingIsLeft, Active, MostRequests
  <1> QED BY <1>2, <1>3, <1>5 DEF ClockInv

(* The steps between two answers. *)
LEMMA BeginAttemptKeeps == MbInv /\ BeginAttempt /\ UNCHANGED aborting => MbInv'
  <1> SUFFICES ASSUME MbInv, BeginAttempt, UNCHANGED aborting PROVE MbInv'
    OBVIOUS
  <1> USE DEF MbInv, BeginAttempt, EndLookup, timeVars
  <1>1. MbTypeOK'
    BY DEF MbTypeOK, Places, MbAnswer
  <1>2. SearchInv'
    BY DEF SearchInv, ChosenIsRight, NoArtworkIn
  <1>3. SentInv'
    BY DEF SentInv, Active, MostRequests, Asks
  <1>4. ClockInv'
    BY DEF ClockInv, MbTypeOK
  <1> QED BY <1>1, <1>2, <1>3, <1>4

LEMMA AbortedKeeps ==
  MbInv /\ (AbortSleep \/ DropResponse) /\ UNCHANGED aborting => MbInv'
  <1> SUFFICES ASSUME MbInv, AbortSleep \/ DropResponse, UNCHANGED aborting PROVE MbInv'
    OBVIOUS
  <1> USE DEF MbInv, AbortSleep, DropResponse, EndLookup, timeVars
  <1>1. MbTypeOK'
    BY DEF MbTypeOK, Places, MbAnswer
  <1>2. SearchInv'
    BY DEF SearchInv, ChosenIsRight, NoArtworkIn
  <1>3. SentInv'
    BY DEF SentInv, Active, MostRequests
  <1> QED BY <1>1, <1>2, <1>3 DEF ClockInv

LEMMA SendKeeps == MbInv /\ Send /\ UNCHANGED aborting => MbInv'
  <1> SUFFICES ASSUME MbInv, Send, UNCHANGED aborting PROVE MbInv'
    OBVIOUS
  <1> USE DEF MbInv, Send
  <1>1. attempt <= MaxAttempts /\ sent <= MaxAttempts * Asks + attempt - 1 /\ attempt \in Nat
    BY DEF MbTypeOK, SentInv
  <1>2. sent + 1 <= MaxAttempts * Asks + attempt /\ sent + 1 <= MostRequests
    BY <1>1, AsksFit DEF Active, MbTypeOK
  <1>3. sent' = sent + 1
    BY <1>2, AsksFit DEF Counted, Active, MbTypeOK
  <1>4. MbTypeOK'
    BY <1>3 DEF MbTypeOK, Places
  <1>5. SearchInv'
    BY DEF SearchInv, ChosenIsRight, NoArtworkIn
  <1>6. Asks' = Asks /\ MostRequests' = MostRequests
    BY DEF Asks, MostRequests
  <1>7. SentInv'
    BY <1>2, <1>3, <1>6 DEF SentInv, Active
  <1> QED BY <1>4, <1>5, <1>7 DEF ClockInv

LEMMA RepeatKeeps ==
  MbInv /\ ((\E r \in Response : Repeat(r)) \/ NextAttempt) /\ UNCHANGED aborting => MbInv'
  <1> SUFFICES ASSUME MbInv, (\E r \in Response : Repeat(r)) \/ NextAttempt, UNCHANGED aborting
               PROVE  MbInv'
    OBVIOUS
  <1> USE DEF MbInv, Repeat, NextAttempt, IsRepeated, timeVars
  <1>1. MbTypeOK'
    <2>1. CASE \E r \in Response : Repeat(r)
      BY <2>1 DEF MbTypeOK, Places
    <2>2. CASE NextAttempt
      BY <2>2 DEF MbTypeOK, Places, SentInv
    <2> QED BY <2>1, <2>2
  <1>2. SearchInv'
    BY DEF SearchInv, ChosenIsRight, NoArtworkIn
  <1>3. Asks' = Asks /\ MostRequests' = MostRequests
    BY DEF Asks, MostRequests
  <1>4. SentInv'
    <2>1. CASE \E r \in Response : Repeat(r)
      BY <1>3, <2>1 DEF SentInv, Active
    <2>2. CASE NextAttempt
      BY <1>3, <2>2, AsksFit DEF SentInv, Active, MbTypeOK
    <2> QED BY <2>1, <2>2
  <1> QED BY <1>1, <1>2, <1>4 DEF ClockInv

LEMMA MbTickKeeps == MbInv /\ MbTick /\ UNCHANGED aborting => MbInv'
  <1> SUFFICES ASSUME MbInv, MbTick, UNCHANGED aborting PROVE MbInv'
    OBVIOUS
  <1> USE DEF MbInv, MbTick, Older, Less
  <1>1. MbTypeOK'
    BY DEF MbTypeOK
  <1>2. SearchInv'
    BY DEF SearchInv, ChosenIsRight, NoArtworkIn, NothingIsLeft
  <1>3. SentInv'
    BY DEF SentInv, Active, MostRequests, Asks
  <1>4. ClockInv'
    BY DEF ClockInv, MbTypeOK
  <1> QED BY <1>1, <1>2, <1>3, <1>4

LEMMA LookupTakenKeeps == MbInv /\ LookupTaken /\ UNCHANGED aborting => MbInv'
  <1> SUFFICES ASSUME MbInv, LookupTaken, UNCHANGED aborting PROVE MbInv'
    OBVIOUS
  <1> USE DEF MbInv, LookupTaken, timeVars
  <1>1. MbTypeOK'
    BY DEF MbTypeOK, Places, MbAnswer, Verdict
  <1>2. MostRequests' = MaxAttempts * 2
    BY DEF MostRequests
  <1> QED BY <1>1, <1>2 DEF SearchInv, NothingIsLeft, SentInv, Active, ClockInv

(***************************************************************************)
(* The answers.  Each either ends the lookup or begins the next request,   *)
(* for which the bound has room.                                           *)
(***************************************************************************)
LEMMA EndKeepsSent ==
  ASSUME MbInv, Active, UNCHANGED <<sent, late, group, aborting>>, NEW a, EndLookup(a)
  PROVE  SentInv'
  BY DEF MbInv, SentInv, EndLookup, Active, MostRequests

LEMMA NextKeepsSent ==
  ASSUME MbInv, mbPc = "network", ~aborting, UNCHANGED <<sent, late, aborting>>,
         NEW s, Request(s), Asks' = Asks + 1, sent <= MostRequests'
  PROVE  SentInv'
  <1>1. sent <= MaxAttempts * Asks + MaxAttempts
    BY AsksFit DEF MbInv, SentInv, MbTypeOK, Active
  <1>2. MaxAttempts * Asks' = MaxAttempts * Asks + MaxAttempts
    BY AsksFit DEF Active
  <1> QED BY <1>1, <1>2, AsksFit DEF MbInv, SentInv, Request, Active, MbTypeOK

LEMMA SearchAnsweredKeeps ==
  ASSUME MbInv, NEW r \in Response, SearchAnswered(r), UNCHANGED aborting
  PROVE  MbInv'
  <1> USE DEF SearchAnswered, Answered, timeVars
  <1>1. verdicts = <<>> /\ pin \notin Canonical /\ stage = "search" /\ mbPc = "network"
    BY DEF MbInv, SearchInv
  <1>2. Active
    BY <1>1 DEF Active
  <1>3. ClockInv'
    BY DEF MbInv, ClockInv, EndLookup, Request
  <1>4. ASSUME NEW a \in {"none", "failed"}, EndLookup(a), UNCHANGED <<stage, group>>
        PROVE  MbInv'
    <2>1. SentInv'
      BY <1>2, <1>4, EndKeepsSent
    <2>2. MbTypeOK'
      BY <1>4 DEF MbInv, MbTypeOK, EndLookup, Places, MbAnswer
    <2>3. SearchInv'
      BY <1>1, <1>4 DEF MbInv, SearchInv, EndLookup
    <2> QED BY <1>3, <2>1, <2>2, <2>3 DEF MbInv
  <1>5. ASSUME NEW g \in Groups, group' = g, g = <<>>, EndLookup("none"), UNCHANGED stage
        PROVE  MbInv'
    <2>1. MbTypeOK'
      BY <1>1, <1>5 DEF MbInv, MbTypeOK, EndLookup, Places, MbAnswer
    <2>2. SearchInv'
      BY <1>1, <1>5 DEF MbInv, SearchInv, EndLookup
    <2>3. Len(group) \in Nat /\ Len(group') = 0
      BY <1>5 DEF MbInv, MbTypeOK
    <2>4. sent <= MaxAttempts
      BY <1>1 DEF MbInv, SentInv, Asks, MbTypeOK
    <2>5. MostRequests' = MaxAttempts * 2
      BY <2>3 DEF MostRequests
    <2>6. SentInv'
      BY <1>5, <2>4, <2>5 DEF MbInv, SentInv, EndLookup, Active, MbTypeOK
    <2> QED BY <1>3, <2>1, <2>2, <2>6 DEF MbInv
  <1>6. ASSUME NEW g \in Groups, group' = g, g # <<>>, Request("release")
        PROVE  MbInv'
    <2>1. g \in Seq(Release) /\ Len(g) > 0 /\ Len(verdicts) = 0
      BY <1>1, <1>6
    <2>2. MbTypeOK'
      BY <1>1, <1>6, <2>1 DEF MbInv, MbTypeOK, Request, Places, MbAnswer
    <2>3. SearchInv'
      BY <1>1, <1>6, <2>1 DEF MbInv, SearchInv, Request, NoArtworkIn
    <2>4. Asks = 0 /\ Asks' = Asks + 1
      BY <1>1, <1>6, <2>1 DEF Asks, Request
    <2>5. sent <= MaxAttempts
      BY <1>1, <2>4 DEF MbInv, SentInv, MbTypeOK
    <2>6. sent <= MostRequests'
      <3>1. \A n \in Nat : MaxAttempts <= MaxAttempts * (2 + n)
        <4>1. \A n \in Nat : MaxAttempts * (2 + n) = MaxAttempts * 2 + MaxAttempts * n
          OBVIOUS
        <4>2. \A n \in Nat : MaxAttempts * n >= 0
          OBVIOUS
        <4> QED BY <4>1, <4>2
      <3>2. MaxAttempts <= MostRequests' /\ MostRequests' \in Nat
        BY <1>6, <2>1, <3>1 DEF MostRequests
      <3> QED BY <2>5, <3>2 DEF MbInv, MbTypeOK
    <2>7. SentInv'
      BY <1>1, <1>6, <2>4, <2>5, <2>6, NextKeepsSent
    <2> QED BY <1>3, <2>2, <2>3, <2>7 DEF MbInv
  <1> QED BY <1>4, <1>5, <1>6 DEF Response

(* What a verdict adds. *)
LEMMA VerdictAdds ==
  ASSUME MbTypeOK, NEW v \in Verdict, verdicts' = Append(verdicts, v),
         Len(verdicts) < Len(group), UNCHANGED group
  PROVE  /\ verdicts' \in Seq(Verdict) /\ Len(verdicts') = Len(verdicts) + 1
         /\ Len(verdicts') \in 1 .. Len(group) /\ verdicts'[Len(verdicts')] = v
         /\ \A i \in 1 .. Len(verdicts) : verdicts'[i] = verdicts[i]
  BY DEF MbTypeOK

LEMMA ReleaseAnsweredKeeps ==
  ASSUME MbInv, NEW r \in Response, ReleaseAnswered(r), UNCHANGED aborting
  PROVE  MbInv'
  <1> USE DEF ReleaseAnswered, Answered, timeVars
  <1>1. /\ stage = "release" /\ mbPc = "network" /\ pin \notin Canonical
        /\ Len(verdicts) < Len(group) /\ NoArtworkIn(Len(verdicts))
    BY DEF MbInv, MbTypeOK, SearchInv
  <1>2. Active
    BY <1>1 DEF Active
  <1>3. ClockInv'
    BY DEF MbInv, ClockInv, EndLookup, Request, Pass, Choose
  <1>4. ASSUME EndLookup("failed"), UNCHANGED <<stage, verdicts, chosen>>
        PROVE  MbInv'
    <2>1. SentInv'
      BY <1>2, <1>4, EndKeepsSent
    <2>2. MbTypeOK'
      BY <1>4 DEF MbInv, MbTypeOK, EndLookup, Places, MbAnswer
    <2>3. SearchInv'
      BY <1>1, <1>4 DEF MbInv, SearchInv, EndLookup, NoArtworkIn
    <2> QED BY <1>3, <2>1, <2>2, <2>3 DEF MbInv
  <1>5. MbTypeOK
    BY DEF MbInv
  <1>6. ASSUME NEW v \in Verdict, verdicts' = Append(verdicts, v), NEW s, s # "search",
               Request(s)
        PROVE  SentInv'
    <2>1. Asks' = Asks + 1
      BY <1>1, <1>5, <1>6, VerdictAdds DEF Asks, Request, MbTypeOK
    <2>2. sent <= MostRequests'
      BY DEF MbInv, SentInv, MostRequests
    <2> QED BY <1>1, <1>6, <2>1, <2>2, NextKeepsSent
  <1>7. ASSUME NEW v \in {"bare", "missing", "skipped"}, Pass(v)
        PROVE  MbInv'
    <2>1. v \in Verdict /\ v # "artwork"
      BY <1>7 DEF Verdict
    <2>2. /\ verdicts' \in Seq(Verdict) /\ Len(verdicts') = Len(verdicts) + 1
          /\ Len(verdicts') \in 1 .. Len(group) /\ Len(verdicts) \in Nat
      BY <1>1, <1>5, <1>7, <2>1, VerdictAdds DEF Pass, MbTypeOK
    <2>3. NoArtworkIn(Len(verdicts))'
      BY <1>1, <1>5, <1>7, <2>1, <2>2, VerdictAdds DEF Pass, NoArtworkIn
    <2>4. CASE EndLookup("none") /\ UNCHANGED stage /\ Len(verdicts') = Len(group)
      <3>1. SentInv'
        BY <1>2, <2>4, EndKeepsSent
      <3>2. MbTypeOK'
        BY <1>5, <1>7, <2>2, <2>4 DEF MbTypeOK, EndLookup, Places, MbAnswer, Pass
      <3>3. SearchInv'
        BY <1>1, <2>3, <2>4 DEF MbInv, SearchInv, EndLookup
      <3> QED BY <1>3, <3>1, <3>2, <3>3 DEF MbInv
    <2>5. CASE Request("release") /\ Len(verdicts') # Len(group)
      <3>1. SentInv'
        BY <1>6, <1>7, <2>1, <2>5 DEF Pass
      <3>2. MbTypeOK'
        BY <1>5, <1>7, <2>2, <2>5 DEF MbTypeOK, Request, Places, Pass
      <3>3. SearchInv'
        BY <1>1, <2>3, <2>5 DEF MbInv, SearchInv, Request
      <3> QED BY <1>3, <3>1, <3>2, <3>3 DEF MbInv
    <2> QED BY <1>7, <2>4, <2>5 DEF Pass
  <1>8. ASSUME Choose PROVE MbInv'
    <2>1. /\ verdicts' \in Seq(Verdict) /\ Len(verdicts') = Len(verdicts) + 1
          /\ Len(verdicts') \in 1 .. Len(group) /\ Len(verdicts) \in Nat
          /\ verdicts'[Len(verdicts')] = "artwork"
          /\ \A i \in 1 .. Len(verdicts) : verdicts'[i] = verdicts[i]
      BY <1>1, <1>5, <1>8, VerdictAdds DEF Choose, MbTypeOK, Verdict
    <2>2. chosen' = group[Len(verdicts')] /\ chosen' \in Release
      BY <1>5, <1>8, <2>1 DEF Choose, Asked, MbTypeOK
    <2>3. ChosenIsRight'
      BY <1>1, <2>1, <2>2 DEF ChosenIsRight, NoArtworkIn
    <2>4. SentInv'
      BY <1>6, <1>8 DEF Choose, Verdict
    <2>5. MbTypeOK'
      BY <1>5, <1>8, <2>1, <2>2 DEF MbTypeOK, Choose, Request, Places
    <2>6. SearchInv'
      BY <1>8, <2>3 DEF SearchInv, Choose, Request
    <2> QED BY <1>3, <2>4, <2>5, <2>6 DEF MbInv
  <1> QED BY <1>4, <1>7, <1>8 DEF Response

LEMMA CoverAnsweredKeeps ==
  ASSUME MbInv, NEW r \in Response, CoverAnswered(r), UNCHANGED aborting
  PROVE  MbInv'
  <1> USE DEF CoverAnswered, Answered, timeVars
  <1>1. PICK a \in {"found", "none", "failed"} : EndLookup(a)
    BY DEF Response
  <1>2. SentInv'
    BY <1>1, EndKeepsSent DEF Active
  <1>3. MbTypeOK'
    BY <1>1 DEF MbInv, MbTypeOK, EndLookup, Places, MbAnswer
  <1>4. SearchInv'
    BY <1>1 DEF MbInv, SearchInv, EndLookup, ChosenIsRight, NoArtworkIn
  <1>5. ClockInv'
    BY <1>1 DEF MbInv, ClockInv, EndLookup
  <1> QED BY <1>2, <1>3, <1>4, <1>5 DEF MbInv

LEMMA MbStepKeeps == MbInv /\ MbStep /\ UNCHANGED aborting => MbInv'
  BY BeginAttemptKeeps, AbortedKeeps, SendKeeps, RepeatKeeps, SearchAnsweredKeeps,
     ReleaseAnsweredKeeps, CoverAnsweredKeeps DEF MbStep, ServiceAnswers

LEMMA MbFrame == ASSUME MbInv, UNCHANGED mbVars, UNCHANGED aborting PROVE MbInv'
  BY DEF MbInv, mbVars, lookupVars, timeVars, MbTypeOK, SearchInv, SentInv, ClockInv,
         NothingIsLeft, ChosenIsRight, NoArtworkIn, Active, Asks, MostRequests

LEMMA MbAbort == ASSUME MbInv, UNCHANGED mbVars, Abort PROVE MbInv'
  BY DEF MbInv, mbVars, lookupVars, timeVars, MbTypeOK, SearchInv, SentInv, ClockInv,
         NothingIsLeft, ChosenIsRight, NoArtworkIn, Active, Asks, MostRequests, Abort


-----------------------------------------------------------------------------
(* The upload. *)

(* The image t fits the box b and is s, or s shrunk (as in PostedIsFit). *)
Fits(s, b, t) ==
    /\ t.w \in 1 .. b.w /\ t.h \in 1 .. b.h
    /\ t.w <= s.w /\ t.h <= s.h
    /\ \/ t = s
       \/ /\ t.w = b.w
          /\ \/ 2 * (t.h * s.w - b.w * s.h) \in -s.w .. s.w
             \/ t.h = 1 /\ 2 * b.w * s.h < s.w
       \/ /\ t.h = b.h
          /\ \/ 2 * (t.w * s.h - b.h * s.w) \in -s.h .. s.h
             \/ t.w = 1 /\ 2 * b.h * s.w < s.h

(* COM's count and state while nothing of this program is initialised. *)
ComAtRest == ~shouldUninitialise /\ comRefs = others /\ (apartment = "none" <=> others = 0)

ComInv ==
    /\ upPc # "image" => ComAtRest
    /\ upPc = "image" =>
         \/ shouldUninitialise /\ comRefs = others + 1 /\ apartment = "multi"
         \/ ~shouldUninitialise /\ comRefs = others /\ apartment = "single" /\ others # 0

PostInv ==
    /\ upPc \in {"idle", "read", "process", "image", "post"} => posts = 0
    /\ upPc = "network" => posts = 1
    /\ AnswerMatchesPosts

FitInv ==
    /\ upPc \in {"image", "post", "network"} => AreValidOptions(box)
    /\ upPc \in {"post", "network"} => Fits(source, box, target)

UpInv == UpTypeOK /\ ComInv /\ PostInv /\ FitInv

(* The integer nearest to a ratio. *)
LEMMA RoundedIsNearest ==
  ASSUME NEW n \in Nat, NEW d \in Nat, d > 0, NEW k \in Rounded(n, d)
  PROVE  /\ k \in Nat /\ k >= 1
         /\ \/ 2 * k * d - 2 * n \in -d .. d
            \/ k = 1 /\ 2 * n < d
  <1> DEFINE q == n \div d
             r == n % d
  <1>1. q \in Nat /\ r \in 0 .. d - 1 /\ n = d * q + r
    OBVIOUS
  <1> HIDE DEF q, r
  <1>2. \A a \in Nat : d * (a + 1) = d * a + d /\ 2 * a * d = 2 * (d * a) /\ d * a \in Nat
    OBVIOUS
  <1>3. CASE Nearest(n, d) = {}
    <2>1. \A a \in {q, q + 1} : a >= 1 => ~(2 * a * d - 2 * n \in -d .. d)
      BY <1>3 DEF Nearest, q
    <2>2. 2 * (q + 1) * d - 2 * n = 2 * d - 2 * r
      BY <1>1, <1>2
    <2>3. 2 * q * d - 2 * n = -(2 * r)
      BY <1>1, <1>2
    <2>4. 2 * r < d
      <3>1. ~(2 * d - 2 * r \in -d .. d)
        BY <2>1, <2>2, <1>1
      <3> QED BY <3>1, <1>1
    <2>5. q = 0
      <3>1. q >= 1 => ~(-(2 * r) \in -d .. d)
        BY <2>1, <2>3
      <3> QED BY <3>1, <2>4, <1>1
    <2>6. n = r
      BY <1>1, <2>5
    <2> QED BY <1>3, <2>4, <2>6 DEF Rounded
  <1>4. CASE Nearest(n, d) # {}
    <2>1. k \in Nearest(n, d)
      BY <1>4 DEF Rounded
    <2> QED BY <1>1, <2>1 DEF Nearest, q
  <1> QED BY <1>3, <1>4

(* The shrunk side does not exceed the box, nor the source. *)
LEMMA RoundedIsBounded ==
  ASSUME NEW n \in Nat, NEW d \in Nat, d > 0, NEW k \in Rounded(n, d),
         NEW m \in Nat, m >= 1, n <= m * d
  PROVE  k <= m
  <1>1. k \in Nat /\ (2 * k * d - 2 * n \in -d .. d \/ k = 1)
    BY RoundedIsNearest
  <1>2. CASE k = 1
    BY <1>2
  <1>3. CASE 2 * k * d - 2 * n \in -d .. d
    <2>1. \A a \in Nat : a * d \in Nat /\ 2 * a * d = 2 * (a * d) /\ (a + 1) * d = a * d + d
      OBVIOUS
    <2>2. 2 * (k * d) <= 2 * (m * d) + d
      BY <1>1, <1>3, <2>1
    <2>3. ASSUME k >= m + 1 PROVE FALSE
      <3>1. k * d >= (m + 1) * d
        BY <1>1, <2>3
      <3> QED BY <1>1, <2>1, <2>2, <3>1
    <2> QED BY <1>1, <2>3
  <1> QED BY <1>1, <1>2, <1>3


LEMMA TwiceTheDifference ==
  ASSUME NEW k \in Nat, NEW d \in Nat, NEW a \in Nat, NEW c \in Nat
  PROVE  2 * k * d - 2 * (a * c) = 2 * (k * d - c * a) /\ 2 * (a * c) = 2 * c * a
  <1>1. k * d \in Nat /\ a * c \in Nat /\ c * a = a * c
    OBVIOUS
  <1>2. 2 * k * d = 2 * (k * d) /\ 2 * c * a = 2 * (c * a)
    OBVIOUS
  <1> QED BY <1>1, <1>2

LEMMA ScaledFits ==
  ASSUME NEW s \in [w : Nat, h : Nat], s.w > 0, s.h > 0,
         NEW b \in [w : Nat, h : Nat], b.w >= 1, b.h >= 1,
         NEW t \in Scaled(s, b)
  PROVE  t \in [w : Nat, h : Nat] /\ Fits(s, b, t)
  <1> USE DEF Fits
  <1>1. /\ s.w * b.h \in Nat /\ s.h * b.w \in Nat /\ s.h * s.w \in Nat
        /\ s.w * b.h = b.h * s.w /\ s.h * b.w = b.w * s.h /\ s.h * s.w = s.w * s.h
    OBVIOUS
  <1>2. CASE s.w <= b.w /\ s.h <= b.h
    BY <1>2 DEF Scaled
  <1>3. CASE ~(s.w <= b.w /\ s.h <= b.h) /\ b.w * s.h <= b.h * s.w
    <2>1. PICK k \in Rounded(s.h * b.w, s.w) : t = [w |-> b.w, h |-> k]
      BY <1>3 DEF Scaled
    <2>2. b.w <= s.w
      <3>1. SUFFICES ASSUME b.w > s.w PROVE FALSE
        OBVIOUS
      <3>2. s.h >= b.h + 1
        BY <1>3, <3>1
      <3>3. b.w * s.h >= s.w * s.h /\ s.w * s.h >= s.w * (b.h + 1)
        BY <3>1, <3>2
      <3>4. s.w * (b.h + 1) = s.w * b.h + s.w
        OBVIOUS
      <3> QED BY <1>1, <1>3, <3>3, <3>4
    <2>3. s.h * b.w <= s.h * s.w
      BY <2>2
    <2>4. k <= b.h /\ k <= s.h
      BY <1>1, <1>3, <2>1, <2>3, RoundedIsBounded
    <2>5. /\ k \in Nat /\ k >= 1
          /\ \/ 2 * k * s.w - 2 * (s.h * b.w) \in -s.w .. s.w
             \/ k = 1 /\ 2 * (s.h * b.w) < s.w
      BY <1>1, <2>1, RoundedIsNearest
    <2>6. 2 * k * s.w - 2 * (s.h * b.w) = 2 * (k * s.w - b.w * s.h)
          /\ 2 * (s.h * b.w) = 2 * b.w * s.h
      BY <2>5, TwiceTheDifference
    <2> QED BY <2>1, <2>2, <2>4, <2>5, <2>6
  <1>4. CASE ~(s.w <= b.w /\ s.h <= b.h) /\ ~(b.w * s.h <= b.h * s.w)
    <2>1. PICK k \in Rounded(s.w * b.h, s.h) : t = [w |-> k, h |-> b.h]
      BY <1>4 DEF Scaled
    <2>2. b.h <= s.h
      <3>1. SUFFICES ASSUME b.h > s.h PROVE FALSE
        OBVIOUS
      <3>2. s.w >= b.w + 1
        BY <1>4, <3>1
      <3>3. b.h * s.w >= s.h * s.w /\ s.h * s.w >= s.h * (b.w + 1)
        BY <3>1, <3>2
      <3>4. s.h * (b.w + 1) = s.h * b.w + s.h
        OBVIOUS
      <3> QED BY <1>1, <1>4, <3>3, <3>4
    <2>3. s.w * b.h <= s.w * s.h
      BY <2>2
    <2>4. k <= b.w /\ k <= s.w
      BY <1>1, <1>4, <2>1, <2>3, RoundedIsBounded
    <2>5. /\ k \in Nat /\ k >= 1
          /\ \/ 2 * k * s.h - 2 * (s.w * b.h) \in -s.h .. s.h
             \/ k = 1 /\ 2 * (s.w * b.h) < s.h
      BY <1>1, <2>1, RoundedIsNearest
    <2>6. 2 * k * s.h - 2 * (s.w * b.h) = 2 * (k * s.h - b.h * s.w)
          /\ 2 * (s.w * b.h) = 2 * b.h * s.w
      BY <2>5, TwiceTheDifference
    <2> QED BY <2>1, <2>2, <2>4, <2>5, <2>6
  <1> QED BY <1>2, <1>3, <1>4

LEMMA SizeType ==
  /\ \A x \in Size \cup {NoSize} : x \in [w : Nat, h : Nat]
  /\ NoSize \in Size \cup {NoSize} /\ NoSize \in [w : Nat, h : Nat]
  <1>1. NoSize \in [w : Nat, h : Nat]
    BY DEF NoSize
  <1>2. \A x \in Size : x \in [w : Nat, h : Nat]
    BY DEF Size
  <1> QED BY <1>1, <1>2

LEMMA UpInitInv == UpInit => UpInv
  <1> SUFFICES ASSUME UpInit PROVE UpInv
    OBVIOUS
  <1> USE DEF UpInit
  <1>1. UpTypeOK
    <2>1. upPc \in UpPlaces /\ host \in Host /\ posts \in 0 .. 1 /\ upAnswer = "none"
      BY DEF UpPlaces, Host
    <2>4. hasClient \in BOOLEAN /\ shouldUninitialise \in BOOLEAN
      OBVIOUS
    <2>2. apartment \in {"none", "multi", "single"} /\ comRefs \in Nat /\ others \in Nat
      OBVIOUS
    <2>3. box = NoSize /\ source = NoSize /\ target = NoSize
      OBVIOUS
    <2> QED BY <2>1, <2>2, <2>3, <2>4, SizeType DEF UpTypeOK
  <1>2. ComInv
    BY DEF ComInv, ComAtRest
  <1>3. PostInv /\ FitInv
    BY DEF PostInv, AnswerMatchesPosts, FitInv
  <1> QED BY <1>1, <1>2, <1>3 DEF UpInv

LEMMA UploadBeginsKeeps ==
  ASSUME UpInv, NEW hasHandle \in BOOLEAN, NEW ho \in Host, NEW client \in BOOLEAN,
         NEW b \in Size, UploadLocalArtwork(hasHandle, ho, client, b)
  PROVE  UpInv'
  <1> USE DEF UploadLocalArtwork, Go, EndUpload, comVars
  <1>1. UpTypeOK'
    BY DEF UpInv, UpTypeOK, UpPlaces
  <1>2. ComInv' /\ PostInv' /\ FitInv'
    BY DEF UpInv, ComInv, ComAtRest, PostInv, AnswerMatchesPosts, FitInv
  <1> QED BY <1>1, <1>2 DEF UpInv

(* A step that is not ProcessImage or BeginProcessing leaves COM alone. *)
LEMMA UpFrame == ASSUME UpInv, UNCHANGED upVars PROVE UpInv'
  BY DEF UpInv, upVars, imageVars, comVars, UpTypeOK, ComInv, ComAtRest, PostInv,
         AnswerMatchesPosts, FitInv

LEMMA UploadTakenKeeps == UpInv /\ UploadTaken => UpInv'
  <1> SUFFICES ASSUME UpInv, UploadTaken PROVE UpInv'
    OBVIOUS
  <1> USE DEF UpInv, UploadTaken, comVars
  <1>1. UpTypeOK'
    <2>1. upPc' \in UpPlaces /\ host' \in Host /\ posts' \in 0 .. 1 /\ upAnswer' = "none"
      BY DEF UpPlaces, Host
    <2>4. hasClient' \in BOOLEAN
      OBVIOUS
    <2>2. box' = NoSize /\ source' = NoSize /\ target' = NoSize
      OBVIOUS
    <2>3. /\ apartment' \in {"none", "multi", "single"} /\ comRefs' \in Nat
          /\ others' \in Nat /\ shouldUninitialise' \in BOOLEAN
      BY DEF UpTypeOK
    <2> QED BY <2>1, <2>2, <2>3, <2>4, SizeType DEF UpTypeOK
  <1>2. ComInv'
    BY DEF ComInv, ComAtRest
  <1>3. PostInv' /\ FitInv'
    BY DEF PostInv, AnswerMatchesPosts, FitInv
  <1> QED BY <1>1, <1>2, <1>3

LEMMA ProcessImageKeeps == UpInv /\ ProcessImage => UpInv'
  <1> SUFFICES ASSUME UpInv, ProcessImage PROVE UpInv'
    OBVIOUS
  <1> USE DEF UpInv, ProcessImage, EndUpload, Go
  <1>1. ComInv' /\ comRefs' \in Nat /\ apartment' \in {"none", "multi", "single"}
    <2>1. others \in Nat /\ upPc = "image" /\ upPc' # "image" /\ CoUninitialize
      BY DEF UpTypeOK
    <2>2. CASE shouldUninitialise /\ comRefs = others + 1 /\ apartment = "multi"
      BY <2>1, <2>2 DEF ComInv, ComAtRest, CoUninitialize
    <2>3. CASE ~shouldUninitialise /\ comRefs = others /\ apartment = "single" /\ others # 0
      BY <2>1, <2>3 DEF ComInv, ComAtRest, CoUninitialize
    <2> QED BY <2>1, <2>2, <2>3 DEF ComInv
  <1>2. source \in [w : Nat, h : Nat] /\ box \in [w : Nat, h : Nat]
    BY SizeType DEF UpTypeOK
  <1>3. AreValidOptions(box)
    BY DEF FitInv
  <1>4. box.w >= 1 /\ box.h >= 1
    BY <1>2, <1>3 DEF AreValidOptions
  <1>5. target' \in Scaled(source, box) /\ source.w > 0 /\ source.h > 0
          => target' \in [w : Nat, h : Nat] /\ Fits(source, box, target')
    BY <1>2, <1>4, ScaledFits
  <1>6. UpTypeOK'
    BY <1>1, <1>5 DEF UpTypeOK, UpPlaces, CoUninitialize
  <1>7. PostInv'
    BY DEF PostInv, AnswerMatchesPosts
  <1>8. FitInv'
    BY <1>3, <1>5 DEF FitInv, AreValidOptions
  <1> QED BY <1>1, <1>6, <1>7, <1>8

LEMMA UpStepKeeps == UpInv /\ UpStep => UpInv'
  <1> SUFFICES ASSUME UpInv, UpStep PROVE UpInv'
    OBVIOUS
  <1> USE DEF UpInv, EndUpload, Go, comVars, imageVars
  <1>1. CASE ReadArtwork
    BY <1>1 DEF ReadArtwork, UpTypeOK, UpPlaces, ComInv, ComAtRest, PostInv,
                AnswerMatchesPosts, FitInv
  <1>2. CASE BeginProcessing
    <2>1. others \in Nat /\ comRefs \in Nat /\ ComAtRest
      BY <1>2 DEF BeginProcessing, UpTypeOK, ComInv
    <2>2. UpTypeOK' /\ ComInv'
      <3>1. CASE UNCHANGED comVars /\ upPc' = "returned"
        <4>1. UpTypeOK'
          BY <1>2, <3>1 DEF BeginProcessing, UpTypeOK, UpPlaces
        <4>2. ComInv'
          BY <2>1, <3>1 DEF ComInv, ComAtRest
        <4> QED BY <4>1, <4>2
      <3>2. CASE CoInitialize /\ upPc' = "image" /\ UNCHANGED upAnswer
        <4>1. /\ apartment' \in {"none", "multi", "single"}
              /\ comRefs' \in Nat /\ others' \in Nat
          BY <2>1, <3>2 DEF CoInitialize, UpTypeOK
        <4>4. shouldUninitialise' \in BOOLEAN
          BY <3>2 DEF CoInitialize
        <4>3. UpTypeOK'
          BY <1>2, <3>2, <4>1, <4>4 DEF BeginProcessing, UpTypeOK, UpPlaces
        <4>2. ComInv'
          BY <2>1, <3>2 DEF CoInitialize, ComInv, ComAtRest
        <4> QED BY <4>2, <4>3
      <3> QED BY <1>2, <3>1, <3>2 DEF BeginProcessing
    <2>3. PostInv' /\ FitInv'
      BY <1>2 DEF BeginProcessing, PostInv, AnswerMatchesPosts, FitInv, AreValidOptions
    <2> QED BY <2>2, <2>3
  <1>3. CASE Post
    BY <1>3 DEF Post, UpTypeOK, UpPlaces, ComInv, ComAtRest, PostInv, AnswerMatchesPosts,
                FitInv, AreValidOptions, Fits
  <1>4. CASE DropUpload \/ HostAnswers
    BY <1>4 DEF DropUpload, HostAnswers, UpTypeOK, UpPlaces, ComInv, ComAtRest, PostInv,
                AnswerMatchesPosts, FitInv
  <1> QED BY <1>1, <1>2, <1>3, <1>4, ProcessImageKeeps DEF UpStep


-----------------------------------------------------------------------------
(* The worker. *)

OneProvider ==
    /\ outcome \in Outcome /\ provider \in {"none", "MusicBrainz", "Local"}
    /\ mbPc # "idle" <=> provider = "MusicBrainz"
    /\ upPc # "idle" <=> provider = "Local"

(* Only a program that quits aborts a lookup. *)
AbortInv ==
    /\ mbPc = "returned" /\ mbAnswer = "aborted" => aborting
    /\ upPc = "returned" /\ upAnswer = "aborted" => aborting

IInv == MbInv /\ UpInv /\ OneProvider /\ AbortInv

LEMMA IInvInit == Init => IInv
  <1> SUFFICES ASSUME Init PROVE IInv
    OBVIOUS
  <1>1. MbInv /\ UpInv
    BY MbInitInv, UpInitInv DEF Init
  <1>2. mbPc = "idle" /\ upPc = "idle" /\ provider = "none" /\ outcome = "none"
    BY DEF Init, MbInit, UpInit
  <1> QED BY <1>1, <1>2 DEF IInv, OneProvider, AbortInv, Outcome

(* A lookup that is running stays busy, and leaves the other provider alone. *)
LEMMA MbStepStays ==
  ASSUME MbStep, UNCHANGED aborting
  PROVE  /\ mbPc # "idle" /\ mbPc' # "idle"
         /\ mbPc' = "returned" /\ mbAnswer' = "aborted" => aborting
  BY DEF MbStep, BeginAttempt, AbortSleep, Send, DropResponse, NextAttempt, ServiceAnswers,
         Repeat, SearchAnswered, ReleaseAnswered, CoverAnswered, Answered, EndLookup, Request,
         Pass, Choose, Response

LEMMA UpStepStays ==
  ASSUME UpStep, UNCHANGED aborting
  PROVE  /\ upPc # "idle" /\ upPc' # "idle"
         /\ upPc' = "returned" /\ upAnswer' = "aborted" => aborting
  BY DEF UpStep, ReadArtwork, BeginProcessing, ProcessImage, Post, DropUpload, HostAnswers,
         EndUpload, Go

LEMMA IInvStep == IInv /\ [Next]_vars => IInv'
  <1> SUFFICES ASSUME IInv, [Next]_vars PROVE IInv'
    OBVIOUS
  <1> USE DEF IInv
  <1>1. ASSUME NEW p \in Release \cup {None}, AskMusicBrainz(p) PROVE IInv'
    <2>1. MbInv' /\ UpInv'
      BY <1>1, FetchArtKeeps, UpFrame DEF AskMusicBrainz
    <2>2. mbPc' # "idle" /\ upPc' = upPc /\ upAnswer' = upAnswer
          /\ (mbPc' = "returned" => aborting)
      BY <1>1 DEF AskMusicBrainz, FetchArt, EndLookup, Request, upVars
    <2> QED BY <1>1, <2>1, <2>2 DEF AskMusicBrainz, OneProvider, AbortInv
  <1>2. ASSUME NEW hasHandle \in BOOLEAN, NEW h \in Host, NEW client \in BOOLEAN,
               NEW b \in Size, AskUpload(hasHandle, h, client, b)
        PROVE  IInv'
    <2>1. MbInv' /\ UpInv'
      BY <1>2, UploadBeginsKeeps, MbFrame DEF AskUpload
    <2>2. /\ upPc' # "idle" /\ mbPc' = mbPc /\ mbAnswer' = mbAnswer
          /\ upPc' = "returned" => upAnswer' = "none"
      BY <1>2 DEF AskUpload, UploadLocalArtwork, EndUpload, Go, mbVars, lookupVars
    <2> QED BY <1>2, <2>1, <2>2 DEF AskUpload, OneProvider, AbortInv
  <1>3. CASE MbStep /\ UNCHANGED <<provider, outcome, upVars, aborting>>
    <2>1. MbInv' /\ UpInv'
      BY <1>3, MbStepKeeps, UpFrame
    <2>2. upPc' = upPc /\ upAnswer' = upAnswer
      BY <1>3 DEF upVars
    <2> QED BY <1>3, <2>1, <2>2, MbStepStays DEF OneProvider, AbortInv
  <1>4. CASE UpStep /\ UNCHANGED <<provider, outcome, mbVars, aborting>>
    <2>1. MbInv' /\ UpInv'
      BY <1>4, UpStepKeeps, MbFrame
    <2>2. mbPc' = mbPc /\ mbAnswer' = mbAnswer
      BY <1>4 DEF mbVars, lookupVars
    <2> QED BY <1>4, <2>1, <2>2, UpStepStays DEF OneProvider, AbortInv
  <1>5. CASE MusicBrainzEnds
    <2>1. MbInv' /\ UpInv'
      BY <1>5, LookupTakenKeeps, UpFrame DEF MusicBrainzEnds
    <2>2. mbPc' = "idle" /\ upPc' = upPc /\ upAnswer' = upAnswer /\ mbAnswer \in Outcome
      BY <1>5 DEF MusicBrainzEnds, LookupTaken, upVars, MbInv, MbTypeOK, MbAnswer, Outcome
    <2> QED BY <1>5, <2>1, <2>2 DEF MusicBrainzEnds, OneProvider, AbortInv
  <1>6. CASE UploadEnds
    <2>1. MbInv' /\ UpInv'
      BY <1>6, UploadTakenKeeps, MbFrame DEF UploadEnds
    <2>2. upPc' = "idle" /\ mbPc' = mbPc /\ mbAnswer' = mbAnswer /\ upAnswer \in Outcome
      BY <1>6 DEF UploadEnds, UploadTaken, mbVars, lookupVars, UpInv, UpTypeOK, Outcome
    <2> QED BY <1>6, <2>1, <2>2 DEF UploadEnds, OneProvider, AbortInv
  <1>7. CASE Time
    <2>1. MbInv' /\ UpInv'
      BY <1>7, MbTickKeeps, UpFrame DEF Time
    <2>2. mbPc' = mbPc /\ mbAnswer' = mbAnswer /\ upPc' = upPc /\ upAnswer' = upAnswer
      BY <1>7 DEF Time, MbTick, upVars
    <2> QED BY <1>7, <2>1, <2>2 DEF Time, OneProvider, AbortInv
  <1>8. CASE Abort /\ UNCHANGED <<provider, outcome, mbVars, upVars>>
    <2>1. MbInv' /\ UpInv'
      BY <1>8, MbAbort, UpFrame
    <2>2. mbPc' = mbPc /\ upPc' = upPc /\ aborting'
      BY <1>8 DEF mbVars, upVars, Abort
    <2> QED BY <1>8, <2>1, <2>2 DEF OneProvider, AbortInv
  <1>9. CASE UNCHANGED vars
    <2>1. MbInv' /\ UpInv'
      BY <1>9, MbFrame, UpFrame DEF vars
    <2> QED BY <1>9, <2>1 DEF vars, mbVars, lookupVars, upVars, OneProvider, AbortInv
  <1> QED BY <1>1, <1>2, <1>3, <1>4, <1>5, <1>6, <1>7, <1>8, <1>9 DEF Next, Working

LEMMA IInvHolds == Spec => []IInv
  BY IInvInit, IInvStep, PTL DEF Spec

-----------------------------------------------------------------------------
(* Every variable has its type, and only the provider that is asked works. *)
THEOREM ProvidersTypeCorrect == Spec => []TypeOK
  <1>1. IInv => TypeOK
    BY DEF IInv, MbInv, UpInv, OneProvider, TypeOK
  <1> QED BY <1>1, IInvHolds, PTL

(* A cover that MusicBrainz answers is the pinned one or that of the first    *)
(* release with artwork; no match means that nothing is left to ask.          *)
THEOREM MusicBrainzIsAlwaysRight == Spec => []MusicBrainzIsRight
  <1>1. IInv => MusicBrainzIsRight
    <2> SUFFICES ASSUME IInv PROVE MusicBrainzIsRight
      OBVIOUS
    <2> USE DEF IInv, MbInv, SearchInv, Answer
    <2>1. CoverIsOfAlbum
      BY DEF CoverIsOfAlbum, ChosenIsRight, NoArtworkIn
    <2>2. NoMatchIsExhaustive
      BY DEF NoMatchIsExhaustive
    <2> QED BY <2>1, <2>2 DEF MusicBrainzIsRight
  <1> QED BY <1>1, IInvHolds, PTL

(* For images and boxes of every size: what is posted fits, the answer agrees *)
(* with what was posted, and COM is left as it was.                           *)
THEOREM UploadIsAlwaysRight == Spec => []UploadIsRight
  <1>1. IInv => UploadIsRight
    <2> SUFFICES ASSUME IInv PROVE UploadIsRight
      OBVIOUS
    <2> USE DEF IInv, UpInv
    <2>1. PostedIsFit
      BY DEF FitInv, Fits, PostedIsFit
    <2>2. ComIsBalanced /\ ComIsLeft
      BY DEF ComInv, ComAtRest, ComIsBalanced, ComIsLeft, UpTypeOK
    <2> QED BY <2>1, <2>2 DEF UploadIsRight, PostInv
  <1> QED BY <1>1, IInvHolds, PTL

(* For every interval and every number of attempts: MusicBrainz is asked at    *)
(* the interval it demands, a lookup sends a bounded number of requests, and   *)
(* at most one after the program began to quit.                                *)
THEOREM RequestsAreAlwaysPaced == Spec => RequestsArePaced
  <1>1. IInv /\ [Next]_vars /\ SendsRequest => Send
    BY DEF SendsRequest, Next, vars, Working, mbVars, AskMusicBrainz, FetchArt, AskUpload, MbStep,
           BeginAttempt, AbortSleep, DropResponse, NextAttempt, ServiceAnswers, Repeat,
           SearchAnswered, ReleaseAnswered, CoverAnswered, EndLookup, Request, Pass, Choose,
           MusicBrainzEnds, LookupTaken, UploadEnds, Time, MbTick, Response
  <1>2. IInv /\ Send => quiet = MinInterval
    BY DEF IInv, MbInv, ClockInv, Send, MbTypeOK
  <1>3. IInv' => sent' <= MostRequests' /\ late' <= 1
    BY DEF IInv, MbInv, SentInv
  <1>4. IInv /\ IInv' /\ [Next]_vars
          => [/\ SendsRequest => quiet = MinInterval
              /\ sent' <= MostRequests' /\ late' <= 1]_<<mbVars, aborting>>
    BY <1>1, <1>2, <1>3
  <1> QED BY <1>4, IInvHolds, PTL DEF Spec, RequestsArePaced

(* The safety part of the refinement: each step of the worker and its         *)
(* providers is a step of the abstract lookup, or none.                       *)
THEOREM ImplementsLookupSteps == Spec => Lookup!Init /\ [][Lookup!Next]_Lookup!lookup
  <1>1. Init => Lookup!Init
    BY DEF Init, Lookup!Init, Outcome
  <1>2. IInv /\ [Next]_vars => [Lookup!Next]_Lookup!lookup
    <2> SUFFICES ASSUME IInv, [Next]_vars PROVE [Lookup!Next]_Lookup!lookup
      OBVIOUS
    <2> USE DEF Lookup!Next, Lookup!lookup
    <2>1. ASSUME NEW p, AskMusicBrainz(p) PROVE Lookup!Next
      BY <2>1 DEF AskMusicBrainz, Lookup!Ask
    <2>2. ASSUME NEW hasHandle, NEW h, NEW client, NEW b, AskUpload(hasHandle, h, client, b)
          PROVE  Lookup!Next
      BY <2>2 DEF AskUpload, Lookup!Ask
    <2>3. CASE MusicBrainzEnds
      <3>1. mbAnswer \in Outcome /\ (mbAnswer = "aborted" => aborting)
        BY <2>3 DEF MusicBrainzEnds, LookupTaken, IInv, MbInv, MbTypeOK, MbAnswer, Outcome,
                    AbortInv
      <3>2. Lookup!Answer(mbAnswer)
        BY <2>3, <3>1 DEF MusicBrainzEnds, Lookup!Answer
      <3> QED BY <3>1, <3>2
    <2>4. CASE UploadEnds
      <3>1. upAnswer \in Outcome /\ (upAnswer = "aborted" => aborting)
        BY <2>4 DEF UploadEnds, UploadTaken, IInv, UpInv, UpTypeOK, Outcome, AbortInv
      <3>2. Lookup!Answer(upAnswer)
        BY <2>4, <3>1 DEF UploadEnds, Lookup!Answer
      <3> QED BY <3>1, <3>2
    <2>5. CASE Abort /\ UNCHANGED <<provider, outcome, mbVars, upVars>>
      BY <2>5 DEF Abort, Lookup!Abort
    <2>6. ASSUME UNCHANGED <<provider, outcome, aborting>> PROVE UNCHANGED Lookup!lookup
      BY <2>6
    <2> QED BY <2>1, <2>2, <2>3, <2>4, <2>5, <2>6 DEF Next, Working, Time, vars
  <1> QED BY <1>1, <1>2, IInvHolds, PTL DEF Spec

=============================================================================
