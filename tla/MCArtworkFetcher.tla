--------------------------- MODULE MCArtworkFetcher ---------------------------
(***************************************************************************)
(* Small instances of ArtworkFetcher for TLC.                              *)
(***************************************************************************)
EXTENDS ArtworkFetcher, TLC

(* A Catbox upload, then MusicBrainz, for track A; MusicBrainz for track B. *)
ChainKeyOf == [upA |-> "catbox:A", mbA |-> "mb:A", mbB |-> "mb:B"]
ChainProviderOf == [k \in CacheKey |-> IF k = "catbox:A" THEN "Catbox" ELSE None]
ChainApiKeyOf == [r \in Request |-> None]
ChainWanted == {<<"upA", "mbA">>, <<"mbB">>}

(* Two tracks with the same album pin: two requests, one cache key. *)
SharedKeyOf == [r \in Request |-> "catbox:A"]
SharedProviderOf == [k \in CacheKey |-> "Catbox"]
SharedApiKeyOf == [r \in Request |-> None]
SharedWanted == {<<r>> : r \in Request}

(* Three albums, a cache for two.  A request and its key have the same name,  *)
(* so that permuting the albums permutes both.                                *)
FullKeyOf == [r \in Request |-> r]
FullProviderOf == [k \in CacheKey |-> None]
FullApiKeyOf == [r \in Request |-> None]
FullWanted == {<<r>> : r \in Request}
Albums == Permutations(Request)

(* Two tracks with the same album pin; the second one also with TheAudioDB. *)
LiveKeyOf == [up1 |-> "catbox:A", up2 |-> "catbox:A", tdA |-> "tadb:A"]
LiveProviderOf == [k \in CacheKey |-> IF k = "catbox:A" THEN "Catbox" ELSE None]
LiveApiKeyOf == [r \in Request |-> IF r = "tdA" THEN "key" ELSE None]
LiveWanted == {<<"up1">>, <<"up2", "tdA">>}

(* Bounds on what a run explores. *)
NoFile == disk' = None
TrackStays == posted' < posted \/ mainPc = "reEvaluate" => wanted' = wanted
OneProcess == mainPc' # "off"
NoManualSave == mainPc = "idle" /\ mainPc' = "idle" => disk' = disk
=============================================================================
