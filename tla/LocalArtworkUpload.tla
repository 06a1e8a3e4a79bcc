-------------------------- MODULE LocalArtworkUpload --------------------------
(***************************************************************************)
(* The upload of local artwork (artwork/local_artwork_uploader.cpp): read  *)
(* the front cover, decode and shrink it with the Windows imaging          *)
(* component, encode it as WebP, post it to an image host.  It runs on the *)
(* artwork worker, one upload at a time.                                   *)
(*                                                                         *)
(* Data abstraction.  Of an image its dimensions are kept, of a Client ID  *)
(* whether there is one, of a response whether it holds a secure URL.      *)
(* Nothing of the bytes is kept: reading may find too many of them (64     *)
(* MiB), encoding may produce too many (20 MiB).                           *)
(***************************************************************************)
EXTENDS Integers, GlobalAbort

CONSTANTS
    Dimension,    \* the dimensions of images and boxes that occur, in pixels
    MaxDimension  \* kMaximumDimension

ASSUME UploadAssumption == Dimension \subseteq Nat /\ MaxDimension \in Nat

VARIABLES
    upPc,       \* where the upload is: "idle", or one of the places below
    host,       \* LocalArtworkHost
    hasClient,  \* is there an Imgur Client ID?
    box,        \* LocalArtworkUploadOptions: the image may not be larger
    source,     \* the dimensions of the artwork
    target,     \* the dimensions of the WebP image
    upAnswer,   \* what UploadLocalArtwork returned or threw
    posts,      \* history: images posted by this upload
    apartment,  \* COM's state in the thread: "none", "multi" or "single"
    comRefs,    \* COM's count of the thread's initialisations
    shouldUninitialise, \* ComInitialiser::shouldUninitialise_
    others      \* history: the count before the first upload

imageVars == <<host, hasClient, box, source, target, posts>>
comVars == <<apartment, comRefs, shouldUninitialise, others>>
upVars == <<upPc, imageVars, upAnswer, comVars>>

Host == {"Catbox", "Imgur"}
Size == [w : Dimension, h : Dimension]
NoSize == [w |-> 0, h |-> 0]

(* Other components may have initialised COM in the thread. *)
UpInit ==
    /\ upPc = "idle" /\ host = "Catbox" /\ hasClient = FALSE /\ box = NoSize
    /\ source = NoSize /\ target = NoSize /\ posts = 0 /\ upAnswer = "none"
    /\ apartment \in {"none", "multi", "single"}
    /\ comRefs = (IF apartment = "none" THEN 0 ELSE 1)
    /\ others = comRefs /\ shouldUninitialise = FALSE

-----------------------------------------------------------------------------
EndUpload(a) == upPc' = "returned" /\ upAnswer' = a
Go(place) == upPc' = place /\ UNCHANGED upAnswer

(* CoInitializeEx for the multithreaded apartment: S_OK, S_FALSE,            *)
(* RPC_E_CHANGED_MODE.  Another error is thrown by the constructor.          *)
CoInitialize ==
    IF apartment = "single"
    THEN shouldUninitialise' = FALSE /\ UNCHANGED <<apartment, comRefs, others>>
    ELSE /\ shouldUninitialise' = TRUE /\ comRefs' = comRefs + 1 /\ apartment' = "multi"
         /\ UNCHANGED others

(* Mutant: every scope ends with CoUninitialize. *)
CoUninitializeAlways ==
    /\ comRefs' = comRefs - 1
    /\ apartment' = IF comRefs = 1 THEN "none" ELSE apartment
    /\ shouldUninitialise' = FALSE /\ UNCHANGED others

(* ~ComInitialiser *)
CoUninitialize ==
    /\ comRefs' = IF shouldUninitialise THEN comRefs - 1 ELSE comRefs
    /\ apartment' = IF shouldUninitialise /\ comRefs = 1 THEN "none" ELSE apartment
    /\ shouldUninitialise' = FALSE /\ UNCHANGED others

AreValidOptions(b) == b.w \in 1 .. MaxDimension /\ b.h \in 1 .. MaxDimension

(***************************************************************************)
(* The target of std::round: the integer nearest to n / d, at least 1.  At *)
(* an exact half the error of the double decides.                          *)
(***************************************************************************)
Nearest(n, d) ==
    LET q == n \div d IN {k \in {q, q + 1} : k >= 1 /\ 2 * k * d - 2 * n \in -d .. d}
Rounded(n, d) == IF Nearest(n, d) = {} THEN {1} ELSE Nearest(n, d)

(* Shrink s into the box b: by the smaller of the two ratios, never enlarge. *)
Scaled(s, b) ==
    IF s.w <= b.w /\ s.h <= b.h THEN {s}
    ELSE IF b.w * s.h <= b.h * s.w THEN {[w |-> b.w, h |-> k] : k \in Rounded(s.h * b.w, s.w)}
    ELSE {[w |-> k, h |-> b.h] : k \in Rounded(s.w * b.h, s.h)}

-----------------------------------------------------------------------------
(* UploadLocalArtwork: an empty handle has no artwork. *)
UploadLocalArtwork(hasHandle, ho, client, b) ==
    /\ upPc = "idle"
    /\ host' = ho /\ hasClient' = client /\ box' = b
    /\ IF hasHandle THEN Go("read") ELSE EndUpload("none")
    /\ UNCHANGED <<source, target, posts, comVars>>

(* GetArtworkUploadData: no artwork is an answer; an error, or artwork of too *)
(* many bytes, is a failure; the host's extractor may notice the abort.       *)
ReadArtwork ==
    /\ upPc = "read"
    /\ \/ EndUpload("none") /\ UNCHANGED source
       \/ EndUpload("failed") /\ UNCHANGED source
       \/ aborting /\ EndUpload("aborted") /\ UNCHANGED source
       \/ Go("process") /\ source' \in Size
    /\ UNCHANGED <<host, hasClient, box, target, posts, comVars>>

BeginProcessing ==
    /\ upPc = "process"
    /\ \/ /\ ~AreValidOptions(box) \/ ~aborting      \* also: COM cannot be initialised
          /\ EndUpload("failed") /\ UNCHANGED comVars
       \/ /\ AreValidOptions(box) /\ aborting
          /\ EndUpload("aborted") /\ UNCHANGED comVars
       \/ /\ AreValidOptions(box) /\ ~aborting
          /\ Go("image") /\ CoInitialize
    /\ UNCHANGED imageVars

(* Decode, shrink and encode.  Each step can fail, and the WebP image can have *)
(* too many bytes; ComInitialiser leaves its scope on every way out.           *)
ProcessImage ==
    /\ upPc = "image" /\ CoUninitialize
    /\ \/ EndUpload("failed") /\ UNCHANGED target
       \/ /\ source.w > 0 /\ source.h > 0
          /\ IF aborting THEN EndUpload("aborted") /\ UNCHANGED target
             ELSE Go("post") /\ target' \in Scaled(source, box)
    /\ UNCHANGED <<host, hasClient, box, source, posts>>

(* UploadToCatbox and UploadToImgur, up to cpr::Post. *)
Post ==
    /\ upPc = "post"
    /\ IF host = "Imgur" /\ ~hasClient THEN EndUpload("failed") /\ UNCHANGED posts
       ELSE Go("network") /\ posts' = posts + 1
    /\ UNCHANGED <<host, hasClient, box, source, target, comVars>>

(* The check after cpr::Post, whose progress callback ends an aborted upload. *)
DropUpload ==
    /\ upPc = "network" /\ aborting /\ EndUpload("aborted")
    /\ UNCHANGED <<imageVars, comVars>>

(* A secure URL is the answer; another status, an unusable URL or a body that *)
(* does not parse is a failure.                                               *)
HostAnswers ==
    /\ upPc = "network" /\ ~aborting
    /\ EndUpload("found") \/ EndUpload("failed")
    /\ UNCHANGED <<imageVars, comVars>>

(* The caller takes the answer; the local variables of the upload are gone. *)
UploadTaken ==
    /\ upPc = "returned" /\ upPc' = "idle"
    /\ host' = "Catbox" /\ hasClient' = FALSE /\ box' = NoSize
    /\ source' = NoSize /\ target' = NoSize /\ posts' = 0 /\ upAnswer' = "none"
    /\ UNCHANGED comVars

UpStep ==
    \/ ReadArtwork \/ BeginProcessing \/ ProcessImage \/ Post \/ DropUpload \/ HostAnswers
-----------------------------------------------------------------------------
(* Properties. *)

UpPlaces == {"idle", "read", "process", "image", "post", "network", "returned"}

(* Every variable has its type. *)
UpTypeOK ==
    /\ upPc \in UpPlaces /\ host \in Host /\ hasClient \in BOOLEAN
    /\ box \in Size \cup {NoSize} /\ source \in Size \cup {NoSize}
    /\ target \in [w : Nat, h : Nat]
    /\ upAnswer \in {"found", "none", "failed", "aborted"}
    /\ posts \in 0 .. 1
    /\ apartment \in {"none", "multi", "single"} /\ comRefs \in Nat /\ others \in Nat
    /\ shouldUninitialise \in BOOLEAN

(* An image that is posted fits the box of the settings without having been *)
(* enlarged or emptied; one that was shrunk fills the box in one direction, *)
(* and the other direction keeps the ratio to the nearest pixel.            *)
PostedIsFit ==
    upPc = "network" =>
        /\ target.w \in 1 .. box.w /\ target.h \in 1 .. box.h
        /\ target.w <= source.w /\ target.h <= source.h
        /\ \/ target = source
           \/ /\ target.w = box.w
              /\ \/ 2 * (target.h * source.w - box.w * source.h) \in -source.w .. source.w
                 \/ target.h = 1 /\ 2 * box.w * source.h < source.w
           \/ /\ target.h = box.h
              /\ \/ 2 * (target.w * source.h - box.h * source.w) \in -source.h .. source.h
                 \/ target.w = 1 /\ 2 * box.h * source.w < source.h

(* The image that the answer speaks of was posted once, and with the Client *)
(* ID that the host wants; no match is answered before anything is posted.  *)
AnswerMatchesPosts ==
    /\ upPc = "returned" => /\ upAnswer = "found" => posts = 1
                            /\ upAnswer = "none" => posts = 0
    /\ posts > 0 /\ host = "Imgur" => hasClient

(* Whatever fails, an upload leaves COM in the worker's thread as it was. *)
ComIsBalanced ==
    comRefs = others + (IF shouldUninitialise THEN 1 ELSE 0)
ComIsLeft ==
    upPc # "image" => /\ comRefs = others
                      /\ apartment = "none" <=> others = 0
=============================================================================
