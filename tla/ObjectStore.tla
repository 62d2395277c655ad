------------------------------ MODULE ObjectStore ------------------------------
(***************************************************************************)
(* The MinIO objects of a track version, as the code uses them: the        *)
(* uploaded audio in the temporary bucket and the two artifacts in the     *)
(* transcripts bucket.  Keys depend on the version only, so a later run    *)
(* overwrites an earlier one's artifacts.  The store itself is external.   *)
(***************************************************************************)
EXTENDS Lifecycle

VARIABLES
    audio,       \* audio[v]: the uploaded audio is stored
    transcript,  \* transcript[v]: the run whose transcript.json is stored, or NoRun
    manifest     \* manifest[v]: the run whose manifest.json is stored, or NoRun

storeVars == <<audio, transcript, manifest>>

StoreTypeOK ==
    /\ audio \in [Versions -> BOOLEAN]
    /\ transcript \in [Versions -> Run \cup {NoRun}]
    /\ manifest \in [Versions -> Run \cup {NoRun}]

StoreInit ==
    /\ audio = [v \in Versions |-> TRUE]
    /\ transcript = [v \in Versions |-> NoRun]
    /\ manifest = [v \in Versions |-> NoRun]
=============================================================================
