--------------------------- MODULE ArtworkProviders ---------------------------
(***************************************************************************)
(* The artwork worker (ThreadMain and ProcessFetchRequest in               *)
(* artwork/fetcher.cpp) and the two providers that are asked on its thread *)
(* alone: MusicBrainz and the upload of local artwork.  TheAudioDB, which  *)
(* Preferences ask from a second thread, is module TheAudioDbRequests.     *)
(***************************************************************************)
EXTENDS MusicBrainzRequests, LocalArtworkUpload

VARIABLES
    provider,   \* the provider that is being asked, or "none"
    outcome     \* the FetchOutcome of the last lookup

vars == <<provider, outcome, mbVars, upVars, aborting>>

Outcome == {"found", "none", "failed", "aborted"}

Init == MbInit /\ UpInit /\ provider = "none" /\ outcome = "none" /\ aborting = FALSE

(* std::visit of a MusicBrainzFetchRequest *)
AskMusicBrainz(p) ==
    /\ provider = "none" /\ provider' = "MusicBrainz"
    /\ FetchArt(p)
    /\ UNCHANGED <<outcome, upVars, aborting>>

(* std::visit of a LocalArtworkUploadRequest *)
AskUpload(hasHandle, h, client, b) ==
    /\ provider = "none" /\ provider' = "Local"
    /\ UploadLocalArtwork(hasHandle, h, client, b)
    /\ UNCHANGED <<outcome, mbVars, aborting>>

(* ProcessFetchRequest: an exception becomes an outcome without a URL. *)
MusicBrainzEnds ==
    /\ provider = "MusicBrainz" /\ provider' = "none"
    /\ LookupTaken /\ outcome' = mbAnswer
    /\ UNCHANGED <<upVars, aborting>>

UploadEnds ==
    /\ provider = "Local" /\ provider' = "none"
    /\ UploadTaken /\ outcome' = upAnswer
    /\ UNCHANGED <<mbVars, aborting>>

Working ==
    \/ MbStep /\ UNCHANGED <<provider, outcome, upVars, aborting>>
    \/ UpStep /\ UNCHANGED <<provider, outcome, mbVars, aborting>>
    \/ MusicBrainzEnds \/ UploadEnds

Time == MbTick /\ UNCHANGED <<provider, outcome, upVars, aborting>>

Next ==
    \/ \E p \in Release \cup {None} : AskMusicBrainz(p)
    \/ \E hasHandle, client \in BOOLEAN, h \in Host, b \in Size :
          AskUpload(hasHandle, h, client, b)
    \/ Working \/ Time
    \/ Abort /\ UNCHANGED <<provider, outcome, mbVars, upVars>>

Spec == Init /\ [][Next]_vars

(* The worker's thread runs, time passes, and a request that gets no answer *)
(* is ended by one of cpr's timeouts.                                       *)
FairSpec == Spec /\ WF_vars(Working) /\ WF_vars(Time)
-----------------------------------------------------------------------------
(* Properties. *)

(* Every variable has its type, and only the provider that is asked works. *)
TypeOK ==
    /\ MbTypeOK /\ UpTypeOK /\ outcome \in Outcome
    /\ provider \in {"none", "MusicBrainz", "Local"}
    /\ mbPc # "idle" <=> provider = "MusicBrainz"
    /\ upPc # "idle" <=> provider = "Local"

(* What a MusicBrainz lookup answers is right: a cover is the pinned one or *)
(* that of the first release with artwork, no match means that nothing is   *)
(* left to ask.                                                             *)
MusicBrainzIsRight == CoverIsOfAlbum /\ NoMatchIsExhaustive

(* An upload posts an image that fits, the answer agrees with what was      *)
(* posted, and COM is left in the thread as it was, whatever fails.         *)
UploadIsRight == PostedIsFit /\ AnswerMatchesPosts /\ ComIsBalanced /\ ComIsLeft

(* The lookups do for the worker what ArtworkFetcher assumes of them: each  *)
(* ends, with one answer, and only a program that quits aborts one.         *)
Lookup == INSTANCE ProviderLookup WITH LookupOutcome <- Outcome, asking <- provider # "none"
ImplementsProviderLookup == Lookup!Spec
=============================================================================
