-------------------------------- MODULE Workspace --------------------------------
(***************************************************************************)
(* The runs of one transcription job on one host and the directory named   *)
(* after the job, which they share: a redelivered request may be run by a  *)
(* second worker process at the same time, or again after a crash.         *)
(* Another host that finished the job may delete the uploaded audio.       *)
(***************************************************************************)
EXTENDS Transcript

CONSTANTS
    Runs,          \* the runs of the job on this host
    Recordings,    \* what ffprobe reports of an upload and what whisper.cpp hears in it
    None           \* no directory, no file

Recording == [raw: FfprobeOutput, said: Seq(Entry)]

VARIABLES
    recording,    \* the recording uploaded for the job; it does not change
    keep,         \* WORKER_KEEP_TEMP_FILES; it does not change
    uploaded,     \* the temporary audio is in the object store
    dir,          \* the job's directory and its files, or None
    run,          \* run[r]: where run r stands
    history       \* which runs met another one in the directory, and which were let
                  \* down by an external program or the object store

vars == <<recording, keep, uploaded, dir, run, history>>

\* input_original, input.wav (who writes it, and whether it is whole) and
\* whisper_output.json (what was heard, and whether it is whole).
Wav == [writers: SUBSET Runs, whole: BOOLEAN]
Output == [heard: Seq(Entry), whole: BOOLEAN]

Directory == [input: BOOLEAN, wav: Wav \cup {None}, output: Output \cup {None}]

ASSUME WorkspaceAssumption ==
    /\ Recordings \subseteq Recording
    /\ None \notin Wav \cup Output \cup Directory

\* The codes of PipelineError a run on files may end with.
ErrorCodes == RefusalCodes \cup
              {"audio_not_found", "audio_download_failed", "normalization_failed",
               "whisper_cpp_missing", "whisper_cpp_failed", "transcript_parse_failed"}

Empty == [input |-> FALSE, wav |-> None, output |-> None]

InsideSteps == {"entered", "downloaded", "validated", "normalizing", "normalized",
                "listening", "written", "built", "failed"}

TypeOK ==
    /\ recording \in Recordings
    /\ keep \in BOOLEAN
    /\ uploaded \in BOOLEAN
    /\ dir = None \/ dir \in Directory
    /\ \A r \in Runs : run[r].step \in InsideSteps \cup {"idle", "left", "dead"}
    /\ \A r \in Runs : run[r].step = "failed" => run[r].error \in ErrorCodes
    /\ \A r \in Runs : run[r].step = "listening" => run[r].heard \in Seq(Entry)
    /\ history \in [met: SUBSET Runs, let_down: SUBSET Runs, mute: SUBSET Runs]

Init ==
    /\ recording \in Recordings
    /\ keep \in BOOLEAN
    /\ uploaded = TRUE
    /\ dir = None
    /\ run = [r \in Runs |-> [step |-> "idle"]]
    /\ history = [met |-> {}, let_down |-> {}, mute |-> {}]

At(r, step) == run[r].step = step
Inside(r) == run[r].step \in InsideSteps
Probe == ProbeAudio(recording.raw)
InputThere == dir # None /\ dir.input
WavThere == IF dir = None THEN FALSE ELSE dir.wav # None

Goto(r, step) == run' = [run EXCEPT ![r] = [step |-> step]]
Fail(r, code) == run' = [run EXCEPT ![r] = [step |-> "failed", error |-> code]]
LetDown(r) == history' = [history EXCEPT !.let_down = @ \cup {r}]

-----------------------------------------------------------------------------
(* with JobTempDir(...)                                                    *)

\* The directory is made if it is not there; what is in it stays.
Enter(r) ==
    /\ At(r, "idle")
    /\ dir' = IF dir = None THEN Empty ELSE dir
    /\ Goto(r, "entered")
    /\ LET others == {q \in Runs : Inside(q)} IN
        history' = IF others = {} THEN history
                   ELSE [history EXCEPT !.met = @ \cup others \cup {r}]
    /\ UNCHANGED <<recording, keep, uploaded>>

\* Mutant: only a run that succeeds removes the directory.
LeaveOnSuccess(r) ==
    /\ run[r].step \in {"built", "failed"}
    /\ dir' = IF keep \/ At(r, "failed") THEN dir ELSE None
    /\ run' = [run EXCEPT ![r] = [step |-> "left", outcome |-> @]]
    /\ UNCHANGED <<recording, keep, uploaded, history>>

\* Whatever the outcome the directory is removed, under the other runs too.
Leave(r) ==
    /\ run[r].step \in {"built", "failed"}
    /\ dir' = IF keep THEN dir ELSE None
    /\ run' = [run EXCEPT ![r] = [step |-> "left", outcome |-> @]]
    /\ UNCHANGED <<recording, keep, uploaded, history>>

\* An output file that was being written when its writer died.
Torn(d) == IF d = None THEN {} ELSE {[d EXCEPT !.output = [heard |-> <<>>, whole |-> FALSE]]}

\* The process dies.  A file that was being written stays as it is.
Crash(r) ==
    /\ Inside(r)
    /\ Goto(r, "dead")
    /\ LET rest == IF WavThere THEN [dir EXCEPT !.wav.writers = @ \ {r}] ELSE dir IN
        dir' \in {rest} \cup (IF At(r, "listening") THEN Torn(rest) ELSE {})
    /\ UNCHANGED <<recording, keep, uploaded, history>>

-----------------------------------------------------------------------------
(* The steps of TranscriptionPipeline._run on files                        *)

\* fget_object makes the directory again if it has to, and moves the file into place
\* when it is complete.
Download(r) ==
    /\ At(r, "entered")
    /\ \/ /\ uploaded
          /\ dir' = [(IF dir = None THEN Empty ELSE dir) EXCEPT !.input = TRUE]
          /\ Goto(r, "downloaded")
          /\ UNCHANGED history
       \/ /\ ~uploaded
          /\ Fail(r, "audio_not_found")
          /\ UNCHANGED <<dir, history>>
       \/ /\ Fail(r, "audio_download_failed")
          /\ LetDown(r)
          /\ UNCHANGED dir
    /\ UNCHANGED <<recording, keep, uploaded>>

\* ffprobe fails on a file that is gone.
Validate(r) ==
    /\ At(r, "downloaded")
    /\ IF InputThere /\ Probe.error = Missing THEN Goto(r, "validated")
       ELSE Fail(r, IF InputThere THEN Probe.error ELSE "audio_validation_failed")
    /\ UNCHANGED <<recording, keep, uploaded, dir, history>>

\* Mutant: ffmpeg without -y refuses to write over a file.
StartNormalizeOnce(r) ==
    /\ At(r, "validated")
    /\ IF InputThere /\ ~WavThere
       THEN /\ dir' = [dir EXCEPT !.wav = [writers |-> {r}, whole |-> FALSE]]
            /\ Goto(r, "normalizing")
       ELSE /\ Fail(r, "normalization_failed")
            /\ UNCHANGED dir
    /\ UNCHANGED <<recording, keep, uploaded, history>>

\* Mutant: a WAV file that is there already is used.
StartNormalizeReusing(r) ==
    /\ At(r, "validated")
    /\ IF InputThere
       THEN /\ dir' = IF dir.wav = None THEN [dir EXCEPT !.wav = [writers |-> {r}, whole |-> FALSE]]
                      ELSE dir
            /\ Goto(r, "normalizing")
       ELSE /\ Fail(r, "normalization_failed")
            /\ UNCHANGED dir
    /\ UNCHANGED <<recording, keep, uploaded, history>>

\* ffmpeg -y opens the input, truncates the WAV file and begins to fill it.
StartNormalize(r) ==
    /\ At(r, "validated")
    /\ IF InputThere
       THEN /\ dir' = [dir EXCEPT !.wav = [whole |-> FALSE,
                                           writers |-> IF @ = None THEN {r} ELSE @.writers \cup {r}]]
            /\ Goto(r, "normalizing")
       ELSE /\ Fail(r, "normalization_failed")
            /\ UNCHANGED dir
    /\ UNCHANGED <<recording, keep, uploaded, history>>

\* The WAV file without its writer r: whole when r was the last one.
Closed(wav, r) ==
    IF wav = None \/ r \notin wav.writers THEN wav
    ELSE [writers |-> wav.writers \ {r}, whole |-> wav.writers = {r}]

\* ffmpeg ends.  The file may have been removed, or made anew by another run.
EndNormalize(r) ==
    /\ At(r, "normalizing")
    /\ \/ /\ dir' = IF dir = None THEN None ELSE [dir EXCEPT !.wav = Closed(@, r)]
          /\ IF WavThere THEN Goto(r, "normalized") ELSE Fail(r, "normalization_failed")
          /\ UNCHANGED history
       \/ /\ dir' = IF WavThere THEN [dir EXCEPT !.wav.writers = @ \ {r}] ELSE dir
          /\ Fail(r, "normalization_failed")
          /\ LetDown(r)
    /\ UNCHANGED <<recording, keep, uploaded>>

\* What whisper.cpp may hear in a WAV file: of one that is not whole, any beginning.
Heard(wav) ==
    IF wav.whole THEN {recording.said}
    ELSE {SubSeq(recording.said, 1, n) : n \in 0 .. Len(recording.said)}

\* ensure_available, then whisper.cpp reads the whole WAV file.
StartWhisper(r) ==
    /\ At(r, "normalized")
    /\ \/ /\ WavThere
          /\ \E heard \in Heard(dir.wav) :
                run' = [run EXCEPT ![r] = [step |-> "listening", heard |-> heard]]
          /\ UNCHANGED history
       \/ /\ ~WavThere
          /\ Fail(r, "whisper_cpp_failed")
          /\ UNCHANGED history
       \/ /\ Fail(r, "whisper_cpp_missing")
          /\ LetDown(r)
    /\ UNCHANGED <<recording, keep, uploaded, dir>>

\* whisper.cpp ends: it wrote its output (into a directory that is gone it writes
\* nothing), or succeeded without writing, or failed or was killed at the time-out.
EndWhisper(r) ==
    /\ At(r, "listening")
    /\ \/ /\ dir' = IF dir = None THEN None
                    ELSE [dir EXCEPT !.output = [heard |-> run[r].heard, whole |-> TRUE]]
          /\ Goto(r, "written")
          /\ UNCHANGED history
       \/ /\ Goto(r, "written")
          /\ history' = [history EXCEPT !.mute = @ \cup {r}]
          /\ UNCHANGED dir
       \/ /\ dir' \in {dir} \cup Torn(dir)
          /\ Fail(r, "whisper_cpp_failed")
          /\ LetDown(r)
    /\ UNCHANGED <<recording, keep, uploaded>>

\* The output is read, whoever wrote it, and the transcript and the manifest are built.
Build(r) ==
    /\ At(r, "written")
    /\ CASE dir = None \/ dir.output = None -> Fail(r, "whisper_cpp_failed")
         [] dir # None /\ dir.output # None /\ ~dir.output.whole -> Fail(r, "transcript_parse_failed")
         [] OTHER ->
              LET transcript == TranscriptOf(dir.output.heard, recording.raw) IN
              run' = [run EXCEPT ![r] = [step |-> "built", transcript |-> transcript,
                                         manifest |-> BuildManifest(transcript, Probe)]]
    /\ UNCHANGED <<recording, keep, uploaded, dir, history>>

\* A run on another host finished and deleted the audio.
DeleteAudio ==
    /\ uploaded
    /\ uploaded' = FALSE
    /\ UNCHANGED <<recording, keep, dir, run, history>>

-----------------------------------------------------------------------------
RunStep(r) ==
    \/ Enter(r) \/ Download(r) \/ Validate(r) \/ StartNormalize(r) \/ EndNormalize(r)
    \/ StartWhisper(r) \/ EndWhisper(r) \/ Build(r) \/ Leave(r) \/ Crash(r)

Next == (\E r \in Runs : RunStep(r)) \/ DeleteAudio

Spec == Init /\ [][Next]_vars

-----------------------------------------------------------------------------
(* Safety                                                                  *)

Alone(r) == r \notin history.met

\* A transcript is the one of the whole recording, if its run had the directory to
\* itself and whisper.cpp wrote its output: nothing an earlier run left behind, whole or
\* torn, kept or after a crash, finds its way into it.
AloneMeansWhole ==
    \A r \in Runs :
        At(r, "built") /\ Alone(r) /\ r \notin history.mute =>
            run[r].transcript = TranscriptOf(recording.said, recording.raw)

\* A run that had the directory to itself, with programs and storage that worked, fails
\* only because of its audio: what an earlier run left behind never makes it fail.
AloneFailsForItsAudio ==
    \A r \in Runs :
        /\ At(r, "failed") /\ Alone(r)
        /\ r \notin history.let_down \cup history.mute
        => run[r].error = "audio_not_found" \/ run[r].error = Probe.error

\* A transcript is built only of audio with a duration and a size within the limits.
BuiltWithinLimits ==
    \A r \in Runs :
        At(r, "built") =>
            /\ NumberOf(DurationField(recording.raw)) \in Int
            /\ NumberOf(DurationField(recording.raw)) <= MaxSeconds
            /\ recording.raw.size \in 1 .. MaxBytes

\* The numbers of a transcript agree with its text: the words of the joined text are
\* those counted per segment, and segments are numbered from 0 without a gap.
TranscriptAddsUp ==
    \A r \in Runs :
        At(r, "built") =>
            LET t == run[r].transcript IN
            /\ t.word_count = CountWords(t.text)
            /\ t.segment_count = Len(t.segments)
            /\ \A i \in DOMAIN t.segments : t.segments[i].id = i - 1

\* Nothing stays on the disk when no run is inside, unless one of them died or files are
\* to be kept: the last run to leave finds everything the others put there.
NothingLeftBehind ==
    ~keep /\ (\A r \in Runs : run[r].step \in {"idle", "left"}) => dir = None
=============================================================================
