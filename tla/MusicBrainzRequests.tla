-------------------------- MODULE MusicBrainzRequests --------------------------
(***************************************************************************)
(* The MusicBrainz and Cover Art Archive lookups                           *)
(* (artwork/musicbrainz_fetcher.cpp).  Only the artwork worker calls       *)
(* FetchArt, one lookup at a time, so that nobody else waits for the mutex *)
(* of the throttle.  A lookup ends early only when the program quits.      *)
(*                                                                         *)
(* Data abstraction.  Release ids are model values.  Of a response the     *)
(* class that the code tells apart is kept.  Time is kept as in            *)
(* TheAudioDbRequests: the age of lastRequest up to the minimum interval,  *)
(* and what is left of a sleep.                                            *)
(***************************************************************************)
EXTENDS Integers, Sequences, GlobalAbort

CONSTANTS
    Release,       \* release ids
    Canonical,     \* the ids that IsCanonicalMbid accepts
    Groups,        \* the release lists that a search can return
    None,          \* std::nullopt
    MinInterval,   \* kMinimumRequestInterval, in ticks
    MaxAttempts    \* kMaxTransientAttempts

ASSUME MusicBrainzAssumption ==
    /\ Canonical \subseteq Release /\ None \notin Release
    /\ Groups \subseteq Seq(Release)
    /\ MinInterval \in Nat \ {0} /\ MaxAttempts \in Nat \ {0}

VARIABLES
    mbPc,      \* where the lookup is: "idle", or one of the places below
    stage,     \* what it asks for: "search", "release" or "cover"
    pin,       \* userReleaseMbidOpt
    group,     \* the releases of the first release group
    verdicts,  \* history: what became of each release that was asked for
    chosen,    \* the release whose cover is asked for
    attempt,   \* GetWithRetry's attempt
    sleep,     \* what is left of the sleep in the throttle or between attempts
    mbAnswer,  \* what FetchArt returned or threw
    age,       \* now - lastRequest, at most MinInterval
    quiet,     \* history: time since a request was sent, at most MinInterval
    sent,      \* history: requests of this lookup, at most MostRequests + 1
    late       \* history: those that were sent after the abort

lookupVars == <<stage, pin, group, verdicts, chosen, attempt, sleep, mbAnswer, sent, late>>
timeVars == <<age, quiet>>
mbVars == <<mbPc, lookupVars, timeVars>>

MostRequests == MaxAttempts * (2 + Len(group))
Counted(n) == IF n > MostRequests THEN n ELSE n + 1

MbAnswer == {"found", "none", "failed", "aborted"}

(***************************************************************************)
(* What cpr::Get can return: 200 with a body that parses or does not, 404, *)
(* a status that is repeated (429 or 5xx), and any other failure, also no  *)
(* response at all.                                                        *)
(***************************************************************************)
Response == {"ok", "malformed", "missing", "transient", "failed"}

MbInit ==
    /\ mbPc = "idle"
    /\ stage = "search" /\ pin = None /\ group = <<>> /\ verdicts = <<>> /\ chosen = None
    /\ attempt = 0 /\ sleep = 0 /\ mbAnswer = "none" /\ sent = 0 /\ late = 0
    /\ age = MinInterval /\ quiet = MinInterval

-----------------------------------------------------------------------------
EndLookup(a) ==
    /\ mbPc' = "returned" /\ mbAnswer' = a
    /\ attempt' = 0 /\ sleep' = 0

(* GetWithRetry for the next request. *)
Request(s) == mbPc' = "loop" /\ stage' = s /\ attempt' = 1 /\ sleep' = 0 /\ UNCHANGED mbAnswer

(* FetchArt: a canonical id needs no search. *)
FetchArt(p) ==
    /\ mbPc = "idle" /\ pin' = p
    /\ IF p \in Canonical THEN Request("cover") /\ chosen' = p
       ELSE /\ IF aborting THEN EndLookup("aborted") /\ UNCHANGED stage ELSE Request("search")
            /\ UNCHANGED chosen
    /\ UNCHANGED <<group, verdicts, sent, late, timeVars>>

BeginAttempt ==
    /\ mbPc = "loop"
    /\ IF aborting THEN EndLookup("aborted")
       ELSE /\ mbPc' = "throttle" /\ sleep' = MinInterval - age
            /\ UNCHANGED <<attempt, mbAnswer>>
    /\ UNCHANGED <<stage, pin, group, verdicts, chosen, sent, late, timeVars>>

(* An aborted sleep throws. *)
AbortSleep ==
    /\ mbPc \in {"throttle", "backoff"} /\ sleep > 0 /\ aborting
    /\ EndLookup("aborted")
    /\ UNCHANGED <<stage, pin, group, verdicts, chosen, sent, late, timeVars>>

(* Mutant: the time of the request is not stored. *)
SendUnstamped ==
    /\ mbPc = "throttle" /\ sleep = 0 /\ mbPc' = "network"
    /\ quiet' = 0 /\ UNCHANGED age
    /\ sent' = Counted(sent) /\ late' = IF aborting THEN late + 1 ELSE late
    /\ UNCHANGED <<stage, pin, group, verdicts, chosen, attempt, sleep, mbAnswer>>

Send ==
    /\ mbPc = "throttle" /\ sleep = 0 /\ mbPc' = "network"
    /\ age' = 0 /\ quiet' = 0
    /\ sent' = Counted(sent) /\ late' = IF aborting THEN late + 1 ELSE late
    /\ UNCHANGED <<stage, pin, group, verdicts, chosen, attempt, sleep, mbAnswer>>

(* The check after cpr::Get, whose progress callback ends an aborted request. *)
DropResponse ==
    /\ mbPc = "network" /\ aborting
    /\ EndLookup("aborted")
    /\ UNCHANGED <<stage, pin, group, verdicts, chosen, sent, late, timeVars>>

IsRepeated(r) == r = "transient" /\ attempt < MaxAttempts

Repeat(r) ==
    /\ mbPc = "network" /\ ~aborting /\ IsRepeated(r)
    /\ mbPc' = "backoff" /\ sleep' = attempt
    /\ UNCHANGED <<stage, pin, group, verdicts, chosen, attempt, mbAnswer, sent, late, timeVars>>

(* Mutant: the attempts are not counted. *)
NextAttemptUncounted ==
    /\ mbPc = "backoff" /\ sleep = 0 /\ mbPc' = "loop"
    /\ UNCHANGED <<stage, pin, group, verdicts, chosen, attempt, sleep, mbAnswer, sent, late,
                   timeVars>>

NextAttempt ==
    /\ mbPc = "backoff" /\ sleep = 0
    /\ mbPc' = "loop" /\ attempt' = attempt + 1
    /\ UNCHANGED <<stage, pin, group, verdicts, chosen, sleep, mbAnswer, sent, late, timeVars>>

Answered(s, r) == mbPc = "network" /\ ~aborting /\ ~IsRepeated(r) /\ stage = s

(* FetchReleaseMbid, the search: no group, or one without releases, is no match. *)
SearchAnswered(r) ==
    /\ Answered("search", r)
    /\ CASE r = "missing" -> EndLookup("none") /\ UNCHANGED <<stage, group>>
         [] r = "ok" -> \E g \in Groups :
                           /\ group' = g
                           /\ IF g = <<>> THEN EndLookup("none") /\ UNCHANGED stage
                              ELSE Request("release")
         [] OTHER -> EndLookup("failed") /\ UNCHANGED <<stage, group>>
    /\ UNCHANGED <<pin, verdicts, chosen, sent, late, timeVars>>

(* Mutant: a release that is gone ends the search. *)
PassStopsAtMissing(v) ==
    /\ verdicts' = Append(verdicts, v) /\ UNCHANGED chosen
    /\ IF v = "missing" \/ Len(verdicts') = Len(group) THEN EndLookup("none") /\ UNCHANGED stage
       ELSE Request("release")

(* Mutant: the loop runs past the last release. *)
PassTheEnd(v) ==
    /\ verdicts' = Append(verdicts, v) /\ UNCHANGED chosen
    /\ IF Len(verdicts') > Len(group) THEN EndLookup("none") /\ UNCHANGED stage
       ELSE Request("release")

(* The loop goes on with the next release, or ends without a match. *)
Pass(v) ==
    /\ verdicts' = Append(verdicts, v) /\ UNCHANGED chosen
    /\ IF Len(verdicts') = Len(group) THEN EndLookup("none") /\ UNCHANGED stage
       ELSE Request("release")

Asked == group[Len(verdicts) + 1]

Choose ==
    /\ verdicts' = Append(verdicts, "artwork") /\ chosen' = Asked
    /\ Request("cover")

ReleaseAnswered(r) ==
    /\ Answered("release", r)
    /\ CASE r = "ok" -> Choose \/ Pass("bare")
         [] r = "malformed" -> EndLookup("failed") /\ UNCHANGED <<stage, verdicts, chosen>>
         [] r = "missing" -> Pass("missing")
         [] OTHER -> Pass("skipped")
    /\ UNCHANGED <<pin, group, sent, late, timeVars>>

(* FetchAlbumArtUrl: the body is not parsed. *)
CoverAnswered(r) ==
    /\ Answered("cover", r)
    /\ EndLookup(CASE r \in {"ok", "malformed"} -> "found"
                [] r = "missing" -> "none"
                [] OTHER -> "failed")
    /\ UNCHANGED <<stage, pin, group, verdicts, chosen, sent, late, timeVars>>

(* The caller takes the answer; the local variables of the lookup are gone. *)
LookupTaken ==
    /\ mbPc = "returned" /\ mbPc' = "idle"
    /\ stage' = "search" /\ pin' = None /\ group' = <<>> /\ verdicts' = <<>>
    /\ chosen' = None /\ attempt' = 0 /\ sleep' = 0 /\ mbAnswer' = "none"
    /\ sent' = 0 /\ late' = 0
    /\ UNCHANGED timeVars

Less(n) == IF n > 0 THEN n - 1 ELSE 0
Older(n) == IF n < MinInterval THEN n + 1 ELSE n

MbTick ==
    /\ age' = Older(age) /\ quiet' = Older(quiet) /\ sleep' = Less(sleep)
    /\ UNCHANGED <<mbPc, stage, pin, group, verdicts, chosen, attempt, mbAnswer, sent, late>>

(* The service answers, or one of cpr's timeouts ends the request. *)
ServiceAnswers ==
    \E r \in Response :
       Repeat(r) \/ SearchAnswered(r) \/ ReleaseAnswered(r) \/ CoverAnswered(r)

MbStep == BeginAttempt \/ AbortSleep \/ Send \/ DropResponse \/ NextAttempt \/ ServiceAnswers

-----------------------------------------------------------------------------
(* Properties. *)

Places == {"idle", "loop", "throttle", "network", "backoff", "returned"}
Verdict == {"missing", "skipped", "bare", "artwork"}

(* Every variable has its type; the release that is asked for exists. *)
MbTypeOK ==
    /\ mbPc \in Places /\ stage \in {"search", "release", "cover"}
    /\ pin \in Release \cup {None} /\ group \in Seq(Release)
    /\ verdicts \in Seq(Verdict) /\ Len(verdicts) <= Len(group)
    /\ chosen \in Release \cup {None}
    /\ attempt \in 0 .. MaxAttempts /\ sleep \in Nat /\ mbAnswer \in MbAnswer
    /\ age \in 0 .. MinInterval /\ quiet \in 0 .. MinInterval
    /\ aborting \in BOOLEAN /\ sent \in Nat /\ late \in Nat
    /\ (stage = "release" /\ mbPc # "returned" => Len(verdicts) < Len(group))

Answer(a) == mbPc = "returned" /\ mbAnswer = a

(* A cover belongs to the pinned release, or to the first release of the   *)
(* group that has artwork: those before it were asked for and passed over. *)
CoverIsOfAlbum ==
    Answer("found") =>
        /\ chosen # None
        /\ IF pin \in Canonical THEN chosen = pin
           ELSE \E i \in 1 .. Len(group) :
                   /\ chosen = group[i] /\ verdicts[i] = "artwork" /\ Len(verdicts) = i
                   /\ \A j \in 1 .. i - 1 : verdicts[j] # "artwork"

(* No match is only reported when there is nothing left to ask: without a  *)
(* release group, after every release of it, or without a cover.           *)
NoMatchIsExhaustive ==
    Answer("none") /\ stage = "release" => Len(verdicts) = Len(group)

SendsRequest == mbPc # "network" /\ mbPc' = "network"

(* MusicBrainz is asked at the interval it demands, whatever is repeated,  *)
(* skipped or aborted; a lookup sends a bounded number of requests, and at *)
(* most one after the program began to quit: its check came before.        *)
RequestsArePaced ==
    [][/\ SendsRequest => quiet = MinInterval
       /\ sent' <= MostRequests' /\ late' <= 1]_<<mbVars, aborting>>

(* docs/CONFIGURATION.md:182-185: "A clean no-match result advances to the *)
(* next provider.  A temporary provider failure also permits a fallback    *)
(* and is held in memory briefly".  No match is only reported if no        *)
(* release was skipped after a failure.                                    *)
NoMatchIsClean ==
    Answer("none") => \A i \in 1 .. Len(verdicts) : verdicts[i] # "skipped"
=============================================================================
