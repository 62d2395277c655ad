----------------------------- MODULE Workspace_proofs -----------------------------
(***************************************************************************)
(* Theorems about Workspace, for any number of runs and any recordings.  A *)
(* run that met nobody finds every file as it left it, because nobody      *)
(* else was inside when it made the step before.  The second part is about *)
(* the pure functions: what passes the probe, and what the folds over      *)
(* entries and texts of any length add up to.                              *)
(***************************************************************************)
EXTENDS Workspace, NumberLemmas, FiniteSetTheorems

\* Two runs inside at once have met.
InsideTogetherMet ==
    \A q, r \in Runs : q # r /\ Inside(q) /\ Inside(r) => r \in history.met

\* Only a run in ffmpeg writes the WAV file; one that died does not.
WritersNormalize ==
    WavThere => \A q \in dir.wav.writers : At(q, "normalizing")

\* The files of a run that met nobody are those its own steps made.
FilesOfRun(r) ==
    /\ run[r].step \in {"downloaded", "validated", "normalizing", "normalized"} => InputThere
    /\ At(r, "normalizing") => WavThere /\ dir.wav.writers = {r}
    /\ At(r, "normalized") => WavThere /\ dir.wav.whole
    /\ At(r, "listening") => dir # None /\ run[r].heard = recording.said
    /\ At(r, "written") /\ r \notin history.mute =>
        dir # None /\ dir.output = [heard |-> recording.said, whole |-> TRUE]
    /\ At(r, "built") /\ r \notin history.mute =>
        run[r].transcript = TranscriptOf(recording.said, recording.raw)
    /\ At(r, "failed") /\ r \notin history.let_down \cup history.mute =>
        run[r].error = "audio_not_found" \/ run[r].error = Probe.error

AloneFindsOwnFiles == \A r \in Runs : Alone(r) => FilesOfRun(r)

\* The directory is there only while somebody is inside, or after somebody died inside.
SomebodyInside == ~keep /\ dir # None => \E r \in Runs : Inside(r) \/ At(r, "dead")

IInv ==
    /\ TypeOK
    /\ DOMAIN run = Runs
    /\ InsideTogetherMet
    /\ WritersNormalize
    /\ AloneFindsOwnFiles
    /\ SomebodyInside

-----------------------------------------------------------------------------
(* Types                                                                   *)

\* A refused file is refused with one of the codes of the pipeline.
LEMMA ProbeErrors ==
    Probe.error \in ErrorCodes \cup {Missing}
<1>. DEFINE parsed == ParseFfprobe(recording.raw)
<1>1. parsed.error \in ErrorCodes \cup {Missing}
  BY DEF ParseFfprobe, Refused, ErrorCodes, RefusalCodes
<1>. HIDE DEF parsed
<1>2. QED
  BY <1>1 DEF Probe, ProbeAudio, parsed, Refused, ErrorCodes, RefusalCodes

\* What is heard of a WAV file is a sequence of entries; of a whole file it is everything.
LEMMA HeardOfWav ==
    ASSUME TypeOK, NEW wav, NEW heard \in Heard(wav)
    PROVE  heard \in Seq(Entry) /\ (wav.whole => heard = recording.said)
<1>1. recording.said \in Seq(Entry)
  BY WorkspaceAssumption DEF TypeOK, Recording
<1>2. CASE wav.whole
  BY <1>1, <1>2 DEF Heard
<1>3. CASE ~wav.whole
  BY <1>1, <1>3 DEF Heard
<1>. QED BY <1>2, <1>3

\* The runs are at a step each, and only the step of the run that moves changes.
LEMMA OneRunMoves ==
    ASSUME DOMAIN run = Runs, NEW r \in Runs, NEW state, run' = [run EXCEPT ![r] = state]
    PROVE  /\ DOMAIN run' = Runs
           /\ run'[r] = state
           /\ \A q \in Runs : q # r => run'[q] = run[q]
OBVIOUS

\* Types: the directory and the histories keep theirs if the moving run keeps to its steps.
LEMMA RunStepTypes ==
    ASSUME TypeOK, DOMAIN run = Runs, NEW r \in Runs, NEW state,
           run' = [run EXCEPT ![r] = state],
           state.step \in InsideSteps \cup {"idle", "left", "dead"},
           state.step = "failed" => state.error \in ErrorCodes,
           state.step = "listening" => state.heard \in Seq(Entry),
           UNCHANGED <<recording, keep, uploaded>>,
           dir' = None \/ dir' \in Directory,
           history' \in [met: SUBSET Runs, let_down: SUBSET Runs, mute: SUBSET Runs]
    PROVE  TypeOK' /\ DOMAIN run' = Runs
<1>1. /\ DOMAIN run' = Runs
      /\ run'[r] = state
      /\ \A q \in Runs : q # r => run'[q] = run[q]
  BY OneRunMoves
<1>. QED BY <1>1 DEF TypeOK, At

-----------------------------------------------------------------------------
(* The steps                                                               *)

\* What a run inside the directory has to show of its step: types, that it writes the WAV
\* file in ffmpeg only, that its files are its own if it met nobody, and that it does not
\* leave the directory behind.  Runs that met nobody are not inside meanwhile.
LEMMA MovingRun ==
    ASSUME IInv, NEW r \in Runs, Inside(r), NEW state,
           run' = [run EXCEPT ![r] = state],
           state.step \in InsideSteps \cup {"left", "dead"},
           state.step = "failed" => state.error \in ErrorCodes,
           state.step = "listening" => state.heard \in Seq(Entry),
           UNCHANGED <<recording, keep, uploaded>>,
           dir' = None \/ dir' \in Directory,
           history' \in [met: {history.met}, let_down: SUBSET Runs, mute: SUBSET Runs],
           WritersNormalize',
           Alone(r) => FilesOfRun(r)',
           ~keep /\ dir' # None => state.step # "left"
    PROVE  IInv'
<1>1. /\ DOMAIN run' = Runs
      /\ run'[r] = state
      /\ \A q \in Runs : q # r => run'[q] = run[q]
  BY OneRunMoves DEF IInv
<1>2. history.met \subseteq Runs /\ history'.met = history.met
  BY DEF IInv, TypeOK
<1>3. history' \in [met: SUBSET Runs, let_down: SUBSET Runs, mute: SUBSET Runs]
  BY <1>2
<1>4. TypeOK'
  BY <1>3, RunStepTypes DEF IInv
<1>5. InsideTogetherMet'
  BY <1>1, <1>2 DEF IInv, InsideTogetherMet, Inside
<1>6. AloneFindsOwnFiles'
  <2>. SUFFICES ASSUME NEW q \in Runs, Alone(q)' PROVE FilesOfRun(q)'
    BY DEF AloneFindsOwnFiles
  <2>1. Alone(q)
    BY <1>2 DEF Alone
  <2>2. CASE q = r
    BY <2>1, <2>2
  <2>3. CASE q # r
    <3>1. ~Inside(q)
      BY <2>1, <2>3 DEF IInv, InsideTogetherMet, Alone
    <3>. QED BY <1>1, <2>3, <3>1 DEF FilesOfRun, At, Inside, InsideSteps
  <2>. QED BY <2>2, <2>3
<1>7. SomebodyInside'
  BY <1>1 DEF SomebodyInside, Inside, At
<1>. QED BY <1>1, <1>4, <1>5, <1>6, <1>7 DEF IInv

\* A step that leaves the WAV file alone, or removes it, made by a run that is not in ffmpeg
\* and stays out of it, leaves the writers in ffmpeg.
LEMMA WritersKept ==
    ASSUME IInv, NEW r \in Runs, NEW state, run' = [run EXCEPT ![r] = state],
           run[r].step # "normalizing",
           dir' = None \/ dir'.wav = None \/ (dir # None /\ dir'.wav = dir.wav)
    PROVE  WritersNormalize'
<1>1. \A q \in Runs : q # r => run'[q] = run[q]
  BY OneRunMoves DEF IInv
<1>2. dir # None /\ dir.wav # None => dir.wav.writers \subseteq Runs
  BY DEF IInv, TypeOK, Directory, Wav
<1>. QED BY <1>1, <1>2 DEF IInv, WritersNormalize, WavThere, At

\* A run enters: it and whoever is inside have met.
LEMMA EnterInv ==
    ASSUME IInv, NEW r \in Runs, Enter(r)
    PROVE  IInv'
<1>. DEFINE others == {q \in Runs : Inside(q)}
            state == [step |-> "entered"]
<1>1. /\ run' = [run EXCEPT ![r] = state]
      /\ dir' = IF dir = None THEN Empty ELSE dir
      /\ history' = IF others = {} THEN history
                    ELSE [history EXCEPT !.met = history.met \cup others \cup {r}]
      /\ UNCHANGED <<recording, keep, uploaded>>
      /\ run[r].step = "idle"
  BY DEF Enter, Goto, At
<1>2. /\ DOMAIN run' = Runs
      /\ run'[r] = state
      /\ \A q \in Runs : q # r => run'[q] = run[q]
  BY <1>1, OneRunMoves DEF IInv
<1>3. /\ history' \in [met: SUBSET Runs, let_down: SUBSET Runs, mute: SUBSET Runs]
      /\ history.met \subseteq history'.met
      /\ others \subseteq history'.met \/ others = {}
      /\ others # {} => r \in history'.met
      /\ history'.mute = history.mute /\ history'.let_down = history.let_down
  BY <1>1 DEF IInv, TypeOK
<1>4. dir' = None \/ dir' \in Directory
  BY <1>1 DEF IInv, TypeOK, Empty, Directory
<1>5. TypeOK'
  BY <1>1, <1>3, <1>4, RunStepTypes DEF IInv, InsideSteps
<1>6. InsideTogetherMet'
  BY <1>2, <1>3 DEF IInv, InsideTogetherMet, Inside
<1>7. WritersNormalize'
  <2>1. dir' = None \/ dir'.wav = None \/ (dir # None /\ dir'.wav = dir.wav)
    BY <1>1 DEF Empty
  <2>. QED BY <1>1, <2>1, WritersKept
<1>8. AloneFindsOwnFiles'
  <2>. SUFFICES ASSUME NEW q \in Runs, Alone(q)' PROVE FilesOfRun(q)'
    BY DEF AloneFindsOwnFiles
  <2>1. CASE q = r
    BY <1>2, <2>1 DEF FilesOfRun, At
  <2>2. CASE q # r
    <3>1. ~Inside(q)
      BY <1>3 DEF Alone
    <3>. QED BY <1>2, <2>2, <3>1 DEF FilesOfRun, At, Inside, InsideSteps
  <2>. QED BY <2>1, <2>2
<1>9. SomebodyInside'
  BY <1>2 DEF SomebodyInside, Inside, InsideSteps
<1>. QED BY <1>2, <1>5, <1>6, <1>7, <1>8, <1>9 DEF IInv

\* A run leaves, and takes the directory with it unless files are kept.
LEMMA LeaveInv ==
    ASSUME IInv, NEW r \in Runs, Leave(r)
    PROVE  IInv'
<1>. DEFINE state == [step |-> "left", outcome |-> run[r]]
<1>1. /\ run' = [run EXCEPT ![r] = state]
      /\ dir' = IF keep THEN dir ELSE None
      /\ UNCHANGED <<recording, keep, uploaded, history>>
      /\ run[r].step \in {"built", "failed"}
  BY DEF Leave
<1>2. Inside(r) /\ state.step = "left"
  BY <1>1 DEF Inside, InsideSteps
<1>3. dir' = None \/ dir' \in Directory
  BY <1>1 DEF IInv, TypeOK
<1>4. history' \in [met: {history.met}, let_down: SUBSET Runs, mute: SUBSET Runs]
  BY <1>1 DEF IInv, TypeOK
<1>5. WritersNormalize'
  BY <1>1, WritersKept
<1>6. run'[r] = state
  BY <1>1, OneRunMoves DEF IInv
<1>7. FilesOfRun(r)'
  BY <1>2, <1>6 DEF FilesOfRun, At
<1>. HIDE DEF state
<1>. QED BY <1>1, <1>2, <1>3, <1>4, <1>5, <1>7, MovingRun

\* A directory after a crash or the end of a program is a directory.
LEMMA DirectoryEdits ==
    ASSUME NEW d \in Directory
    PROVE  /\ d # None
           /\ \A n \in Wav \cup {None} : [d EXCEPT !.wav = n] \in Directory
           /\ \A n \in Output \cup {None} : [d EXCEPT !.output = n] \in Directory
           /\ [d EXCEPT !.input = TRUE] \in Directory
           /\ d.wav \in Wav \cup {None}
BY WorkspaceAssumption DEF Directory

\* A run dies and is no writer any more; a torn output may stay behind.
LEMMA CrashInv ==
    ASSUME IInv, NEW r \in Runs, Crash(r)
    PROVE  IInv'
<1>. DEFINE state == [step |-> "dead"]
            rest == IF WavThere THEN [dir EXCEPT !.wav.writers = @ \ {r}] ELSE dir
<1>1. /\ run' = [run EXCEPT ![r] = state]
      /\ dir' \in {rest} \cup (IF At(r, "listening") THEN Torn(rest) ELSE {})
      /\ UNCHANGED <<recording, keep, uploaded, history>>
      /\ Inside(r)
  BY DEF Crash, Goto
<1>2. dir = None \/ dir \in Directory
  BY DEF IInv, TypeOK
<1>3. /\ rest = None \/ rest \in Directory
      /\ WavThere => /\ rest # None /\ rest.wav \in Wav
                     /\ rest.wav.writers = dir.wav.writers \ {r}
      /\ ~WavThere => rest = dir
  <2>1. CASE WavThere
    <3>1. dir \in Directory /\ dir.wav \in Wav
      BY <1>2, <2>1, DirectoryEdits DEF WavThere
    <3>2. [dir.wav EXCEPT !.writers = dir.wav.writers \ {r}] \in Wav
      BY <3>1 DEF Wav
    <3>3. rest = [dir EXCEPT !.wav = [dir.wav EXCEPT !.writers = dir.wav.writers \ {r}]]
      BY <2>1, <3>1
    <3>4. rest \in Directory /\ rest.wav = [dir.wav EXCEPT !.writers = dir.wav.writers \ {r}]
      BY <3>1, <3>2, <3>3, DirectoryEdits DEF Directory
    <3>. QED BY <2>1, <3>1, <3>2, <3>4, DirectoryEdits DEF Wav
  <2>2. CASE ~WavThere
    BY <1>2, <2>2
  <2>. QED BY <2>1, <2>2
<1>. HIDE DEF rest
<1>4. /\ dir' = None \/ dir' \in Directory
      /\ dir' = None <=> rest = None
      /\ dir' # None => dir'.wav = rest.wav
  <2>0. [heard |-> <<>>, whole |-> FALSE] \in Output
    BY DEF Output
  <2>1. \A d \in Torn(rest) : rest \in Directory /\ d \in Directory /\ d.wav = rest.wav
    <3>1. CASE rest \in Directory
      <4>1. rest # None
        BY <3>1, DirectoryEdits
      <4>2. Torn(rest) = {[rest EXCEPT !.output = [heard |-> <<>>, whole |-> FALSE]]}
        BY <4>1 DEF Torn
      <4>3. [rest EXCEPT !.output = [heard |-> <<>>, whole |-> FALSE]] \in Directory
        BY <2>0, <3>1, DirectoryEdits
      <4>4. [rest EXCEPT !.output = [heard |-> <<>>, whole |-> FALSE]].wav = rest.wav
        BY <3>1 DEF Directory
      <4>. QED BY <3>1, <4>2, <4>3, <4>4
    <3>2. CASE rest = None
      BY <3>2 DEF Torn
    <3>. QED BY <1>3, <3>1, <3>2
  <2>. QED BY <1>1, <1>3, <2>1, DirectoryEdits
<1>5. /\ run'[r] = state
      /\ \A q \in Runs : q # r => run'[q] = run[q]
  BY <1>1, OneRunMoves DEF IInv
<1>6. WritersNormalize'
  <2>1. CASE WavThere
    <3>1. dir.wav.writers \subseteq Runs
      BY <1>2, <2>1, DirectoryEdits DEF WavThere, Wav
    <3>. QED BY <1>3, <1>4, <1>5, <2>1, <3>1 DEF IInv, WritersNormalize, At, WavThere
  <2>2. CASE ~WavThere
    BY <1>3, <1>4, <2>2 DEF WritersNormalize, WavThere
  <2>. QED BY <2>1, <2>2
<1>7. FilesOfRun(r)'
  BY <1>5 DEF FilesOfRun, At
<1>8. history' \in [met: {history.met}, let_down: SUBSET Runs, mute: SUBSET Runs]
  BY <1>1 DEF IInv, TypeOK
<1>9. state.step = "dead"
  OBVIOUS
<1>. HIDE DEF state
<1>. QED BY <1>1, <1>4, <1>6, <1>7, <1>8, <1>9, MovingRun

\* The audio is downloaded, is not there, or the store fails.
LEMMA DownloadInv ==
    ASSUME IInv, NEW r \in Runs, Download(r)
    PROVE  IInv'
<1>1. /\ At(r, "entered")
      /\ Inside(r)
      /\ UNCHANGED <<recording, keep, uploaded>>
      /\ dir = None \/ dir \in Directory
      /\ history \in [met: {history.met}, let_down: SUBSET Runs, mute: SUBSET Runs]
  BY DEF Download, Inside, InsideSteps, At, IInv, TypeOK
<1>2. ASSUME NEW state, run' = [run EXCEPT ![r] = state]
      PROVE  run'[r] = state
  BY <1>2, OneRunMoves DEF IInv
<1>3. CASE /\ dir' = [(IF dir = None THEN Empty ELSE dir) EXCEPT !.input = TRUE]
           /\ Goto(r, "downloaded")
           /\ UNCHANGED history
  <2>. DEFINE state == [step |-> "downloaded"]
  <2>1. run' = [run EXCEPT ![r] = state]
    BY <1>3 DEF Goto
  <2>2. Empty \in Directory
    BY DEF Empty, Directory
  <2>3. /\ dir' \in Directory
        /\ dir'.input
        /\ dir'.wav = None \/ (dir # None /\ dir'.wav = dir.wav)
    BY <1>1, <1>3, <2>2, DirectoryEdits DEF Directory, Empty
  <2>4. WritersNormalize'
    BY <1>1, <2>1, <2>3, WritersKept DEF At
  <2>5. FilesOfRun(r)'
    <3>1. dir' # None /\ run'[r].step = "downloaded"
      <4>1. dir' # None
        BY <2>3, DirectoryEdits
      <4>2. run'[r] = state
        BY <2>1, OneRunMoves DEF IInv
      <4>. QED BY <4>1, <4>2
    <3>. QED BY <2>3, <3>1 DEF FilesOfRun, At, InputThere
  <2>6. state.step = "downloaded"
    OBVIOUS
  <2>. HIDE DEF state
  <2>. QED BY <1>1, <1>3, <2>1, <2>3, <2>4, <2>5, <2>6, MovingRun DEF InsideSteps
<1>4. CASE /\ UNCHANGED dir
           /\ \/ Fail(r, "audio_not_found") /\ UNCHANGED history
              \/ Fail(r, "audio_download_failed") /\ LetDown(r)
  <2>1. PICK code \in {"audio_not_found", "audio_download_failed"} :
            /\ Fail(r, code)
            /\ code = "audio_not_found" \/ r \in history'.let_down
            /\ history' \in [met: {history.met}, let_down: SUBSET Runs, mute: SUBSET Runs]
    BY <1>1, <1>4 DEF LetDown
  <2>. DEFINE state == [step |-> "failed", error |-> code]
  <2>2. run' = [run EXCEPT ![r] = state]
    BY <2>1 DEF Fail
  <2>3. WritersNormalize'
    BY <1>1, <1>4, <2>2, WritersKept DEF At
  <2>4. FilesOfRun(r)'
    BY <1>2, <2>1, <2>2 DEF FilesOfRun, At
  <2>5. state.step = "failed" /\ state.error \in ErrorCodes
    BY DEF ErrorCodes, RefusalCodes
  <2>. HIDE DEF state
  <2>. QED BY <1>1, <1>4, <2>1, <2>2, <2>3, <2>4, <2>5, MovingRun DEF InsideSteps
<1>. QED BY <1>3, <1>4 DEF Download

\* ffprobe looks at the input.
LEMMA ValidateInv ==
    ASSUME IInv, NEW r \in Runs, Validate(r)
    PROVE  IInv'
<1>1. /\ At(r, "downloaded")
      /\ Inside(r)
      /\ UNCHANGED <<recording, keep, uploaded, dir, history>>
      /\ dir = None \/ dir \in Directory
      /\ history' \in [met: {history.met}, let_down: SUBSET Runs, mute: SUBSET Runs]
  BY DEF Validate, Inside, InsideSteps, At, IInv, TypeOK
<1>2. Probe' = Probe
  BY <1>1 DEF Probe
<1>3. CASE InputThere /\ Probe.error = Missing
  <2>. DEFINE state == [step |-> "validated"]
  <2>1. run' = [run EXCEPT ![r] = state]
    BY <1>3 DEF Validate, Goto
  <2>2. WritersNormalize'
    BY <1>1, <2>1, WritersKept DEF At
  <2>3. run'[r] = state
    BY <2>1, OneRunMoves DEF IInv
  <2>4. FilesOfRun(r)'
    BY <1>1, <1>3, <2>3 DEF FilesOfRun, At, InputThere
  <2>5. state.step = "validated"
    OBVIOUS
  <2>. HIDE DEF state
  <2>. QED BY <1>1, <2>1, <2>2, <2>4, <2>5, MovingRun DEF InsideSteps
<1>4. CASE ~(InputThere /\ Probe.error = Missing)
  <2>1. PICK code \in {IF InputThere THEN Probe.error ELSE "audio_validation_failed"} : TRUE
    OBVIOUS
  <2>. DEFINE state == [step |-> "failed", error |-> code]
  <2>2. run' = [run EXCEPT ![r] = state]
    BY <1>4, <2>1 DEF Validate, Fail
  <2>3. WritersNormalize'
    BY <1>1, <2>2, WritersKept DEF At
  <2>4. run'[r] = state
    BY <2>2, OneRunMoves DEF IInv
  <2>5. Alone(r) => code = Probe.error
    BY <1>1, <2>1 DEF IInv, AloneFindsOwnFiles, FilesOfRun, At
  <2>6. Alone(r) => FilesOfRun(r)'
    BY <1>2, <2>4, <2>5 DEF FilesOfRun, At
  <2>7. state.step = "failed" /\ state.error \in ErrorCodes
    BY <1>4, <2>1, ProbeErrors DEF ErrorCodes, RefusalCodes
  <2>. HIDE DEF state
  <2>. QED BY <1>1, <2>2, <2>3, <2>6, <2>7, MovingRun DEF InsideSteps
<1>. QED BY <1>3, <1>4

\* ffmpeg begins: it finds the input, and a WAV file of nobody else.
LEMMA StartNormalizeInv ==
    ASSUME IInv, NEW r \in Runs, StartNormalize(r)
    PROVE  IInv'
<1>1. /\ At(r, "validated")
      /\ Inside(r)
      /\ UNCHANGED <<recording, keep, uploaded, history>>
      /\ dir = None \/ dir \in Directory
      /\ history' \in [met: {history.met}, let_down: SUBSET Runs, mute: SUBSET Runs]
  BY DEF StartNormalize, Inside, InsideSteps, At, IInv, TypeOK
<1>2. CASE InputThere
  <2>. DEFINE state == [step |-> "normalizing"]
              begun == [whole |-> FALSE,
                        writers |-> IF dir.wav = None THEN {r} ELSE dir.wav.writers \cup {r}]
  <2>1. run' = [run EXCEPT ![r] = state] /\ dir' = [dir EXCEPT !.wav = begun]
    BY <1>2 DEF StartNormalize, Goto
  <2>2. dir \in Directory /\ dir.input
    BY <1>1, <1>2 DEF InputThere
  <2>3. begun \in Wav
    BY <2>2, DirectoryEdits DEF Wav
  <2>4. /\ dir' \in Directory
        /\ dir' # None
        /\ dir'.wav = begun
        /\ dir'.wav # None
        /\ dir'.input
    <3>. HIDE DEF begun
    <3>1. dir' \in Directory /\ dir' # None
      BY <2>1, <2>2, <2>3, DirectoryEdits
    <3>2. dir'.wav = begun /\ dir'.input
      BY <2>1, <2>2 DEF Directory
    <3>. QED BY <2>3, <3>1, <3>2, WorkspaceAssumption
  <2>5. run'[r] = state /\ \A q \in Runs : q # r => run'[q] = run[q]
    BY <2>1, OneRunMoves DEF IInv
  <2>6. \A q \in begun.writers : q # r => WavThere /\ q \in dir.wav.writers /\ q \in Runs
    BY <2>2, DirectoryEdits DEF WavThere, Wav
  <2>7. \A q \in begun.writers : At(q, "normalizing")'
    BY <2>5, <2>6 DEF IInv, WritersNormalize, At
  <2>8. WritersNormalize'
    BY <2>4, <2>7 DEF WritersNormalize
  <2>9. Alone(r) => begun.writers = {r}
    <3>. SUFFICES ASSUME Alone(r), NEW q \in begun.writers, q # r PROVE FALSE
      OBVIOUS
    <3>1. q \in Runs /\ At(q, "normalizing")
      BY <2>6 DEF IInv, WritersNormalize
    <3>2. Inside(q)
      BY <3>1 DEF At, Inside, InsideSteps
    <3>. QED BY <1>1, <3>1, <3>2 DEF IInv, InsideTogetherMet, Alone
  <2>10. Alone(r) => FilesOfRun(r)'
    BY <2>4, <2>5, <2>9 DEF FilesOfRun, At, InputThere, WavThere
  <2>11. state.step = "normalizing"
    OBVIOUS
  <2>. HIDE DEF state, begun
  <2>. QED BY <1>1, <2>1, <2>4, <2>8, <2>10, <2>11, MovingRun DEF InsideSteps
<1>3. CASE ~InputThere
  <2>. DEFINE state == [step |-> "failed", error |-> "normalization_failed"]
  <2>1. run' = [run EXCEPT ![r] = state] /\ UNCHANGED dir
    BY <1>3 DEF StartNormalize, Fail
  <2>2. WritersNormalize'
    BY <1>1, <2>1, WritersKept DEF At
  <2>3. ~Alone(r)
    BY <1>1, <1>3 DEF IInv, AloneFindsOwnFiles, FilesOfRun, At
  <2>4. state.step = "failed" /\ state.error \in ErrorCodes
    BY DEF ErrorCodes, RefusalCodes
  <2>. HIDE DEF state
  <2>. QED BY <1>1, <2>1, <2>2, <2>3, <2>4, MovingRun DEF InsideSteps
<1>. QED BY <1>2, <1>3

\* The field of a record that is a comparison.
LEMMA WholeField ==
    ASSUME NEW f, NEW a, NEW b, f = [writers |-> a, whole |-> b], b
    PROVE  f.whole
OBVIOUS

\* ffmpeg ends: the WAV file is whole when its last writer is done.
LEMMA EndNormalizeInv ==
    ASSUME IInv, NEW r \in Runs, EndNormalize(r)
    PROVE  IInv'
<1>1. /\ At(r, "normalizing")
      /\ Inside(r)
      /\ UNCHANGED <<recording, keep, uploaded>>
      /\ dir = None \/ dir \in Directory
      /\ history \in [met: {history.met}, let_down: SUBSET Runs, mute: SUBSET Runs]
      /\ Alone(r) => WavThere /\ dir.wav.writers = {r} /\ InputThere
  BY DEF EndNormalize, Inside, InsideSteps, At, IInv, TypeOK, AloneFindsOwnFiles, FilesOfRun
<1>2. CASE dir = None
  <2>. DEFINE state == [step |-> "failed", error |-> "normalization_failed"]
  <2>1. run' = [run EXCEPT ![r] = state] /\ dir' = None
    BY <1>2 DEF EndNormalize, Fail, WavThere
  <2>2. history' \in [met: {history.met}, let_down: SUBSET Runs, mute: SUBSET Runs]
    BY <1>1 DEF EndNormalize, LetDown
  <2>3. WritersNormalize'
    BY <2>1 DEF WritersNormalize, WavThere
  <2>4. ~Alone(r)
    BY <1>1, <1>2 DEF WavThere
  <2>5. state.step = "failed" /\ state.error \in ErrorCodes
    BY DEF ErrorCodes, RefusalCodes
  <2>. HIDE DEF state
  <2>. QED BY <1>1, <2>1, <2>2, <2>3, <2>4, <2>5, MovingRun DEF InsideSteps
<1>3. CASE dir # None
  <2>1. dir \in Directory /\ dir.wav \in Wav \cup {None} /\ (WavThere <=> dir.wav # None)
    BY <1>1, <1>3, DirectoryEdits DEF WavThere
  <2>2. ASSUME NEW state, NEW wav \in Wav \cup {None},
               run' = [run EXCEPT ![r] = state],
               dir' = [dir EXCEPT !.wav = wav],
               wav # None => dir.wav # None /\ wav.writers = dir.wav.writers \ {r}
        PROVE  WritersNormalize' /\ dir' \in Directory /\ dir' # None /\ dir'.wav = wav
                   /\ dir'.input = dir.input
    <3>1. run'[r] = state /\ \A q \in Runs : q # r => run'[q] = run[q]
      BY <2>2, OneRunMoves DEF IInv
    <3>2. dir' \in Directory /\ dir' # None /\ dir'.wav = wav /\ dir'.input = dir.input
      <4>1. [dir EXCEPT !.wav = wav] \in Directory
        BY <2>1, <2>2, DirectoryEdits
      <4>2. dir' \in Directory /\ dir' # None
        BY <2>2, <4>1, DirectoryEdits
      <4>3. dir'.wav = wav /\ dir'.input = dir.input
        BY <2>1, <2>2 DEF Directory
      <4>. QED BY <4>2, <4>3
    <3>3. wav # None => dir.wav.writers \subseteq Runs
      BY <2>1, <2>2 DEF Wav
    <3>4. WritersNormalize'
      BY <2>1, <2>2, <3>1, <3>2, <3>3 DEF IInv, WritersNormalize, WavThere, At
    <3>. QED BY <3>2, <3>4
  <2>3. CASE /\ dir' = [dir EXCEPT !.wav = Closed(@, r)]
             /\ IF WavThere THEN Goto(r, "normalized") ELSE Fail(r, "normalization_failed")
             /\ UNCHANGED history
    <3>. DEFINE closed == Closed(dir.wav, r)
                state == IF WavThere THEN [step |-> "normalized"]
                         ELSE [step |-> "failed", error |-> "normalization_failed"]
    <3>1. run' = [run EXCEPT ![r] = state]
      BY <2>3 DEF Goto, Fail
    <3>2. /\ closed \in Wav \cup {None}
          /\ closed # None => dir.wav # None /\ closed.writers = dir.wav.writers \ {r}
          /\ WavThere => closed # None
          /\ WavThere /\ dir.wav.writers = {r} => closed.whole
      <4>1. CASE dir.wav = None
        BY <2>1, <4>1 DEF Closed
      <4>2. CASE dir.wav # None /\ r \notin dir.wav.writers
        BY <2>1, <4>2 DEF Closed, Wav
      <4>3. CASE dir.wav # None /\ r \in dir.wav.writers
        <5>1. closed = [writers |-> dir.wav.writers \ {r}, whole |-> dir.wav.writers = {r}]
          BY <4>3 DEF Closed
        <5>2. closed \in Wav
          BY <2>1, <4>3, <5>1 DEF Wav
        <5>3. closed.writers = dir.wav.writers \ {r}
          BY <5>1
        <5>4. dir.wav.writers = {r} => closed.whole
          BY <5>1, WholeField
        <5>5. closed # None
          BY <5>2, WorkspaceAssumption
        <5>. QED BY <4>3, <5>2, <5>3, <5>4, <5>5
      <4>. QED BY <4>1, <4>2, <4>3
    <3>3. /\ state.step \in {"normalized", "failed"}
          /\ state.step = "failed" => state.error \in ErrorCodes
          /\ WavThere => state.step = "normalized"
      BY DEF ErrorCodes, RefusalCodes
    <3>. HIDE DEF closed, state
    <3>4. dir' = [dir EXCEPT !.wav = closed]
      BY <2>3 DEF closed
    <3>5. /\ WritersNormalize'
          /\ dir' \in Directory /\ dir' # None /\ dir'.wav = closed /\ dir'.input = dir.input
      BY <2>2, <3>1, <3>2, <3>4
    <3>6. run'[r] = state
      BY <3>1, OneRunMoves DEF IInv
    <3>7. Alone(r) => FilesOfRun(r)'
      BY <1>1, <3>2, <3>3, <3>5, <3>6 DEF FilesOfRun, At, InputThere, WavThere
    <3>. QED BY <1>1, <2>3, <3>1, <3>3, <3>5, <3>7, MovingRun DEF InsideSteps
  <2>4. CASE /\ dir' = IF WavThere THEN [dir EXCEPT !.wav.writers = @ \ {r}] ELSE dir
             /\ Fail(r, "normalization_failed")
             /\ LetDown(r)
    <3>. DEFINE state == [step |-> "failed", error |-> "normalization_failed"]
                rest == [dir.wav EXCEPT !.writers = dir.wav.writers \ {r}]
    <3>1. run' = [run EXCEPT ![r] = state]
      BY <2>4 DEF Fail
    <3>2. /\ history' \in [met: {history.met}, let_down: SUBSET Runs, mute: SUBSET Runs]
          /\ r \in history'.let_down
      BY <1>1, <2>4 DEF LetDown
    <3>3. state.step = "failed" /\ state.error \in ErrorCodes
      BY DEF ErrorCodes, RefusalCodes
    <3>. HIDE DEF state
    <3>4. WritersNormalize' /\ dir' \in Directory
      <4>1. CASE WavThere
        <5>1. rest \in Wav /\ rest.writers = dir.wav.writers \ {r}
          BY <2>1, <4>1 DEF Wav
        <5>2. dir' = [dir EXCEPT !.wav = rest]
          BY <2>1, <2>4, <4>1
        <5>. HIDE DEF rest
        <5>. QED BY <2>1, <2>2, <3>1, <4>1, <5>1, <5>2
      <4>2. CASE ~WavThere
        BY <2>1, <2>4, <4>2 DEF WritersNormalize, WavThere
      <4>. QED BY <4>1, <4>2
    <3>5. run'[r] = state
      BY <3>1, OneRunMoves DEF IInv
    <3>6. FilesOfRun(r)'
      BY <3>2, <3>3, <3>5 DEF FilesOfRun, At
    <3>. QED BY <1>1, <3>1, <3>2, <3>3, <3>4, <3>6, MovingRun DEF InsideSteps
  <2>. QED BY <1>3, <2>3, <2>4 DEF EndNormalize
<1>. QED BY <1>2, <1>3

\* whisper.cpp begins: it hears everything if the WAV file is whole.
LEMMA StartWhisperInv ==
    ASSUME IInv, NEW r \in Runs, StartWhisper(r)
    PROVE  IInv'
<1>1. /\ At(r, "normalized")
      /\ Inside(r)
      /\ UNCHANGED <<recording, keep, uploaded, dir>>
      /\ dir = None \/ dir \in Directory
      /\ history \in [met: {history.met}, let_down: SUBSET Runs, mute: SUBSET Runs]
      /\ Alone(r) => WavThere /\ dir.wav.whole
  BY DEF StartWhisper, Inside, InsideSteps, At, IInv, TypeOK, AloneFindsOwnFiles, FilesOfRun
<1>2. CASE WavThere /\ UNCHANGED history /\ \E words \in Heard(dir.wav) :
                run' = [run EXCEPT ![r] = [step |-> "listening", heard |-> words]]
  <2>1. PICK words \in Heard(dir.wav) :
            run' = [run EXCEPT ![r] = [step |-> "listening", heard |-> words]]
    BY <1>2
  <2>. DEFINE state == [step |-> "listening", heard |-> words]
  <2>2. words \in Seq(Entry) /\ (dir.wav.whole => words = recording.said)
    BY <2>1, HeardOfWav DEF IInv
  <2>3. WritersNormalize'
    BY <1>1, <2>1, WritersKept DEF At
  <2>4. run'[r] = state
    BY <2>1, OneRunMoves DEF IInv
  <2>5. Alone(r) => FilesOfRun(r)'
    <3>1. dir' # None /\ recording' = recording
      BY <1>1, <1>2 DEF WavThere
    <3>2. Alone(r) => words = recording.said
      BY <1>1, <2>2
    <3>3. run'[r].step = "listening" /\ run'[r].heard = words
      BY <2>4
    <3>. QED BY <3>1, <3>2, <3>3 DEF FilesOfRun, At
  <2>6. state.step = "listening" /\ state.heard \in Seq(Entry) /\ run' = [run EXCEPT ![r] = state]
    BY <2>1, <2>2
  <2>. HIDE DEF state
  <2>. QED BY <1>1, <1>2, <2>3, <2>5, <2>6, MovingRun DEF InsideSteps
<1>3. CASE \/ ~WavThere /\ Fail(r, "whisper_cpp_failed") /\ UNCHANGED history
           \/ Fail(r, "whisper_cpp_missing") /\ LetDown(r)
  <2>1. PICK code \in {"whisper_cpp_failed", "whisper_cpp_missing"} :
            /\ Fail(r, code)
            /\ ~WavThere \/ r \in history'.let_down
            /\ history' \in [met: {history.met}, let_down: SUBSET Runs, mute: SUBSET Runs]
    BY <1>1, <1>3 DEF LetDown
  <2>. DEFINE state == [step |-> "failed", error |-> code]
  <2>2. run' = [run EXCEPT ![r] = state]
    BY <2>1 DEF Fail
  <2>3. WritersNormalize'
    BY <1>1, <2>2, WritersKept DEF At
  <2>4. run'[r] = state
    BY <2>2, OneRunMoves DEF IInv
  <2>5. Alone(r) => FilesOfRun(r)'
    BY <1>1, <2>1, <2>4 DEF FilesOfRun, At
  <2>6. state.step = "failed" /\ state.error \in ErrorCodes
    BY DEF ErrorCodes, RefusalCodes
  <2>. HIDE DEF state
  <2>. QED BY <1>1, <2>1, <2>2, <2>3, <2>5, <2>6, MovingRun DEF InsideSteps
<1>. QED BY <1>2, <1>3 DEF StartWhisper

\* whisper.cpp ends, with its output or without.
LEMMA EndWhisperInv ==
    ASSUME IInv, NEW r \in Runs, EndWhisper(r)
    PROVE  IInv'
<1>1. /\ At(r, "listening")
      /\ Inside(r)
      /\ run[r].heard \in Seq(Entry)
      /\ UNCHANGED <<recording, keep, uploaded>>
      /\ dir = None \/ dir \in Directory
      /\ history \in [met: {history.met}, let_down: SUBSET Runs, mute: SUBSET Runs]
      /\ Alone(r) => dir # None /\ run[r].heard = recording.said
  BY DEF EndWhisper, Inside, InsideSteps, At, IInv, TypeOK, AloneFindsOwnFiles, FilesOfRun
<1>2. ASSUME NEW output \in Output, dir # None
      PROVE  /\ [dir EXCEPT !.output = output] \in Directory
             /\ [dir EXCEPT !.output = output].wav = dir.wav
             /\ [dir EXCEPT !.output = output].output = output
  <2>1. [dir EXCEPT !.output = output] \in Directory
    BY <1>1, <1>2, DirectoryEdits
  <2>. QED BY <1>1, <1>2, <2>1 DEF Directory
<1>3. CASE /\ dir' = IF dir = None THEN None
                     ELSE [dir EXCEPT !.output = [heard |-> run[r].heard, whole |-> TRUE]]
           /\ Goto(r, "written")
           /\ UNCHANGED history
  <2>. DEFINE state == [step |-> "written"]
              output == [heard |-> run[r].heard, whole |-> TRUE]
  <2>1. run' = [run EXCEPT ![r] = state]
    BY <1>3 DEF Goto
  <2>2. output \in Output
    BY <1>1 DEF Output
  <2>3. /\ dir = None => dir' = None
        /\ dir # None => /\ dir' \in Directory
                          /\ dir'.wav = dir.wav
                          /\ dir'.output = output
    <3>1. dir # None => dir' = [dir EXCEPT !.output = output]
      BY <1>3
    <3>. HIDE DEF output
    <3>. QED BY <1>2, <1>3, <2>2, <3>1
  <2>4. WritersNormalize'
    BY <1>1, <2>1, <2>3, WritersKept DEF At
  <2>5. run'[r] = state
    BY <2>1, OneRunMoves DEF IInv
  <2>6. Alone(r) => FilesOfRun(r)'
    <3>1. dir # None => dir' # None
      BY <2>3, DirectoryEdits
    <3>2. Alone(r) => output = [heard |-> recording'.said, whole |-> TRUE]
      BY <1>1
    <3>3. run'[r].step = "written"
      BY <2>5
    <3>. HIDE DEF state, output
    <3>. QED BY <1>1, <2>3, <3>1, <3>2, <3>3 DEF FilesOfRun, At
  <2>7. state.step = "written"
    OBVIOUS
  <2>. HIDE DEF state, output
  <2>. QED BY <1>1, <1>3, <2>1, <2>3, <2>4, <2>6, <2>7, MovingRun DEF InsideSteps
<1>4. CASE /\ Goto(r, "written")
           /\ history' = [history EXCEPT !.mute = @ \cup {r}]
           /\ UNCHANGED dir
  <2>. DEFINE state == [step |-> "written"]
  <2>1. run' = [run EXCEPT ![r] = state]
    BY <1>4 DEF Goto
  <2>2. /\ history' \in [met: {history.met}, let_down: SUBSET Runs, mute: SUBSET Runs]
        /\ r \in history'.mute
    BY <1>1, <1>4
  <2>3. WritersNormalize'
    BY <1>1, <1>4, <2>1, WritersKept DEF At
  <2>4. run'[r] = state
    BY <2>1, OneRunMoves DEF IInv
  <2>5. FilesOfRun(r)'
    BY <2>2, <2>4 DEF FilesOfRun, At
  <2>6. state.step = "written"
    OBVIOUS
  <2>. HIDE DEF state
  <2>. QED BY <1>1, <1>4, <2>1, <2>2, <2>3, <2>5, <2>6, MovingRun DEF InsideSteps
<1>5. CASE /\ dir' \in {dir} \cup Torn(dir)
           /\ Fail(r, "whisper_cpp_failed")
           /\ LetDown(r)
  <2>. DEFINE state == [step |-> "failed", error |-> "whisper_cpp_failed"]
              torn == [heard |-> <<>>, whole |-> FALSE]
  <2>1. run' = [run EXCEPT ![r] = state]
    BY <1>5 DEF Fail
  <2>2. /\ history' \in [met: {history.met}, let_down: SUBSET Runs, mute: SUBSET Runs]
        /\ r \in history'.let_down
    BY <1>1, <1>5 DEF LetDown
  <2>3. torn \in Output
    BY DEF Output
  <2>4. dir' = dir \/ (dir # None /\ dir' \in Directory /\ dir'.wav = dir.wav)
    <3>1. dir' = dir \/ (dir # None /\ dir' = [dir EXCEPT !.output = torn])
      BY <1>5 DEF Torn
    <3>. HIDE DEF torn
    <3>. QED BY <1>2, <2>3, <3>1
  <2>5. WritersNormalize'
    BY <1>1, <2>1, <2>4, WritersKept DEF At
  <2>6. run'[r] = state
    BY <2>1, OneRunMoves DEF IInv
  <2>7. FilesOfRun(r)'
    BY <2>2, <2>6 DEF FilesOfRun, At
  <2>8. state.step = "failed" /\ state.error \in ErrorCodes
    BY DEF ErrorCodes, RefusalCodes
  <2>. HIDE DEF state
  <2>. QED BY <1>1, <2>1, <2>2, <2>4, <2>5, <2>7, <2>8, MovingRun DEF InsideSteps
<1>. QED BY <1>3, <1>4, <1>5 DEF EndWhisper

\* The output is read, and the transcript built or refused.
LEMMA BuildInv ==
    ASSUME IInv, NEW r \in Runs, Build(r)
    PROVE  IInv'
<1>1. /\ At(r, "written")
      /\ Inside(r)
      /\ UNCHANGED <<recording, keep, uploaded, dir, history>>
      /\ dir = None \/ dir \in Directory
      /\ history' \in [met: {history.met}, let_down: SUBSET Runs, mute: SUBSET Runs]
      /\ Alone(r) /\ r \notin history.mute =>
            dir # None /\ dir.output = [heard |-> recording.said, whole |-> TRUE]
  BY DEF Build, Inside, InsideSteps, At, IInv, TypeOK, AloneFindsOwnFiles, FilesOfRun
<1>2. [heard |-> recording.said, whole |-> TRUE] \in Output
  BY WorkspaceAssumption DEF IInv, TypeOK, Recording, Output
<1>3. Alone(r) /\ r \notin history.mute =>
        /\ dir # None /\ dir.output # None
        /\ dir.output.whole
        /\ dir.output.heard = recording.said
  BY <1>1, <1>2, WorkspaceAssumption
<1>4. CASE dir = None \/ dir.output = None \/ ~dir.output.whole
  <2>1. PICK code \in {"whisper_cpp_failed", "transcript_parse_failed"} : Fail(r, code)
    BY <1>4 DEF Build
  <2>. DEFINE state == [step |-> "failed", error |-> code]
  <2>2. run' = [run EXCEPT ![r] = state]
    BY <2>1 DEF Fail
  <2>3. WritersNormalize'
    BY <1>1, <2>2, WritersKept DEF At
  <2>4. run'[r] = state
    BY <2>2, OneRunMoves DEF IInv
  <2>5. Alone(r) => r \in history'.mute
    BY <1>1, <1>3, <1>4
  <2>6. Alone(r) => FilesOfRun(r)'
    BY <2>4, <2>5 DEF FilesOfRun, At
  <2>7. state.step = "failed" /\ state.error \in ErrorCodes
    BY DEF ErrorCodes, RefusalCodes
  <2>. HIDE DEF state
  <2>. QED BY <1>1, <2>2, <2>3, <2>6, <2>7, MovingRun DEF InsideSteps
<1>5. CASE dir # None /\ dir.output # None /\ dir.output.whole
  <2>1. PICK transcript \in {TranscriptOf(dir.output.heard, recording.raw)},
             manifest \in {BuildManifest(TranscriptOf(dir.output.heard, recording.raw), Probe)} :
            run' = [run EXCEPT ![r] = [step |-> "built", transcript |-> transcript,
                                       manifest |-> manifest]]
    BY <1>5 DEF Build
  <2>. DEFINE state == [step |-> "built", transcript |-> transcript, manifest |-> manifest]
  <2>2. WritersNormalize'
    BY <1>1, <2>1, WritersKept DEF At
  <2>3. run'[r] = state
    BY <2>1, OneRunMoves DEF IInv
  <2>4. Alone(r) /\ r \notin history.mute =>
            transcript = TranscriptOf(recording'.said, recording'.raw)
    BY <1>1, <1>3, <2>1
  <2>5. Alone(r) => FilesOfRun(r)'
    BY <1>1, <2>3, <2>4 DEF FilesOfRun, At
  <2>6. state.step = "built" /\ run' = [run EXCEPT ![r] = state]
    BY <2>1
  <2>. HIDE DEF state
  <2>. QED BY <1>1, <2>2, <2>5, <2>6, MovingRun DEF InsideSteps
<1>. QED BY <1>4, <1>5

-----------------------------------------------------------------------------
(* The theorems                                                            *)

\* Nobody is inside at first.
LEMMA InitInv == Init => IInv
BY DEF Init, IInv, TypeOK, InsideTogetherMet, WritersNormalize, WavThere, AloneFindsOwnFiles,
       FilesOfRun, SomebodyInside, Inside, InsideSteps, At

\* Every step of a run, and the end of the audio, keep the invariant.
LEMMA StepInv == IInv /\ [Next]_vars => IInv'
<1>. SUFFICES ASSUME IInv, [Next]_vars PROVE IInv'
  OBVIOUS
<1>1. ASSUME NEW r \in Runs, RunStep(r) PROVE IInv'
  BY <1>1, EnterInv, DownloadInv, ValidateInv, StartNormalizeInv, EndNormalizeInv,
     StartWhisperInv, EndWhisperInv, BuildInv, LeaveInv, CrashInv DEF RunStep
<1>2. CASE DeleteAudio \/ UNCHANGED vars
  <2>1. UNCHANGED <<recording, keep, dir, run, history>> /\ uploaded' \in BOOLEAN
    BY <1>2 DEF DeleteAudio, vars, IInv, TypeOK
  <2>2. TypeOK'
    BY <2>1 DEF IInv, TypeOK, At
  <2>3. InsideTogetherMet' /\ SomebodyInside' /\ WritersNormalize'
    BY <2>1 DEF IInv, InsideTogetherMet, SomebodyInside, WritersNormalize, WavThere, Inside, At
  <2>4. AloneFindsOwnFiles'
    BY <2>1 DEF IInv, AloneFindsOwnFiles, FilesOfRun, Alone, WavThere, InputThere, Probe, At
  <2>. QED BY <2>1, <2>2, <2>3, <2>4 DEF IInv
<1>. QED BY <1>1, <1>2 DEF Next

\* The inductive invariant holds of every reachable state.
THEOREM WorkspaceInvariance == Spec => []IInv
BY InitInv, StepInv, PTL DEF Spec

\* Runs, the directory and the files in it keep their types.
THEOREM WorkspaceTypeCorrect == Spec => []TypeOK
<1>1. IInv => TypeOK
  BY DEF IInv
<1>. QED BY <1>1, WorkspaceInvariance, PTL

\* A run that met nobody builds the transcript of the whole recording, whatever earlier runs
\* left in the directory.
THEOREM AloneBuildsWhole == Spec => []AloneMeansWhole
<1>1. IInv => AloneMeansWhole
  BY DEF IInv, AloneFindsOwnFiles, FilesOfRun, AloneMeansWhole
<1>. QED BY <1>1, WorkspaceInvariance, PTL

\* A run that met nobody, with programs and a store that worked, fails for its audio only.
THEOREM AloneFailsForAudio == Spec => []AloneFailsForItsAudio
<1>1. IInv => AloneFailsForItsAudio
  BY DEF IInv, AloneFindsOwnFiles, FilesOfRun, AloneFailsForItsAudio
<1>. QED BY <1>1, WorkspaceInvariance, PTL

\* The last run to leave takes the directory with it.
THEOREM DirectoryIsRemoved == Spec => []NothingLeftBehind
<1>1. IInv => NothingLeftBehind
  BY DEF IInv, SomebodyInside, NothingLeftBehind, Inside, InsideSteps, At
<1>. QED BY <1>1, WorkspaceInvariance, PTL

-----------------------------------------------------------------------------
(* The limits                                                              *)

\* A run that is past the validation validated its audio.
PastValidation == {"validated", "normalizing", "normalized", "listening", "written", "built"}
ProbePassed == \A r \in Runs : run[r].step \in PastValidation => Probe.error = Missing

\* A report with a usable audio stream has a duration field of the types ffprobe writes.
LEMMA DurationType ==
    ASSUME NEW raw \in FfprobeOutput, AudioStreams(raw) # {}
    PROVE  DurationField(raw) \in Field /\ raw.size \in Field
<1>1. AudioStreams(raw) \subseteq DOMAIN raw.streams /\ raw.streams \in Seq(Stream)
  BY DEF AudioStreams, FfprobeOutput
<1>2. Min(AudioStreams(raw)) \in AudioStreams(raw)
  BY <1>1, MinIsLeast
<1>3. FirstAudio(raw) \in Stream
  BY <1>1, <1>2 DEF FirstAudio
<1>. QED BY <1>3 DEF DurationField, FfprobeOutput, Stream

\* What passes the probe is within the limits.
LEMMA ProbeLimits ==
    ASSUME NEW raw \in FfprobeOutput, ProbeAudio(raw).error = Missing
    PROVE  /\ NumberOf(DurationField(raw)) \in Int
           /\ NumberOf(DurationField(raw)) <= MaxSeconds
           /\ raw.size \in 1 .. MaxBytes
<1>. DEFINE parsed == ParseFfprobe(raw)
<1>1. \A code \in RefusalCodes : Refused(code).error # Missing
  BY AudioProbeAssumption DEF Refused
<1>2. parsed.error = Missing
  <2>. HIDE DEF parsed
  <2>. QED BY <1>1 DEF ProbeAudio, parsed
<1>3. raw.json /\ AudioStreams(raw) # {}
  <2>1. ASSUME ~raw.json PROVE FALSE
    <3>1. parsed = Refused("audio_validation_failed")
      BY <2>1 DEF ParseFfprobe
    <3>. QED BY <1>1, <1>2, <3>1 DEF RefusalCodes
  <2>2. ASSUME raw.json, AudioStreams(raw) = {} PROVE FALSE
    <3>1. parsed = Refused("unsupported_audio_format")
      BY <2>2 DEF ParseFfprobe
    <3>. QED BY <1>1, <1>2, <3>1 DEF RefusalCodes
  <2>. QED BY <2>1, <2>2
<1>4. {DurationField(raw), raw.size} \cap {Missing, Text, EmptyText} = {}
  BY <1>1, <1>2, <1>3 DEF ParseFfprobe
<1>5. parsed.size = NumberOf(raw.size) /\ parsed.duration = NumberOf(DurationField(raw))
  BY <1>3, <1>4 DEF ParseFfprobe
<1>6. parsed.duration \in Int /\ parsed.size \in Int
  <2>1. DurationField(raw) \in Field /\ raw.size \in Field
    BY <1>3, DurationType
  <2>2. DurationField(raw) \in Int \cup {Zero} /\ raw.size \in Int \cup {Zero}
    BY <1>4, <2>1 DEF Field
  <2>. QED BY <1>5, <2>2 DEF NumberOf
<1>. HIDE DEF parsed
<1>7. ASSUME parsed.size <= 0 PROVE FALSE
  <2>1. ProbeAudio(raw) = Refused("audio_validation_failed")
    BY <1>2, <1>6, <1>7, AudioProbeAssumption DEF ProbeAudio, parsed
  <2>. QED BY <1>1, <2>1 DEF RefusalCodes
<1>8. ASSUME ~(parsed.size <= 0), parsed.size > MaxBytes PROVE FALSE
  <2>1. ProbeAudio(raw) = Refused("audio_too_large")
    BY <1>2, <1>6, <1>8, AudioProbeAssumption DEF ProbeAudio, parsed
  <2>. QED BY <1>1, <2>1 DEF RefusalCodes
<1>9. ASSUME parsed.size \in 1 .. MaxBytes, parsed.duration > MaxSeconds PROVE FALSE
  <2>1. ProbeAudio(raw) = Refused("audio_duration_too_long")
    BY <1>2, <1>9, AudioProbeAssumption DEF ProbeAudio, parsed
  <2>. QED BY <1>1, <2>1 DEF RefusalCodes
<1>10. raw.size \in Int
  BY <1>5, <1>6, <1>7 DEF NumberOf
<1>. QED BY <1>5, <1>6, <1>7, <1>8, <1>9, <1>10, AudioProbeAssumption DEF NumberOf

\* The steps of a run come in their order, and the recording does not change.
LEMMA ProbeStep == IInv /\ ProbePassed /\ [Next]_vars => ProbePassed'
<1>. SUFFICES ASSUME IInv, ProbePassed, [Next]_vars,
                     NEW q \in Runs, run'[q].step \in PastValidation
              PROVE  Probe'.error = Missing
  BY DEF ProbePassed
<1>1. recording' = recording
  BY DEF Next, RunStep, Enter, Download, Validate, StartNormalize, EndNormalize, StartWhisper,
         EndWhisper, Build, Leave, Crash, DeleteAudio, vars
<1>2. Probe' = Probe
  BY <1>1 DEF Probe
<1>3. Probe.error = Missing
  <2>1. CASE run'[q].step = run[q].step
    BY <2>1 DEF ProbePassed
  <2>2. CASE run'[q].step # run[q].step
    <3>1. PICK r \in Runs : RunStep(r)
      BY <2>2 DEF Next, DeleteAudio, vars
    <3>2. \A state : run' = [run EXCEPT ![r] = state] => q = r /\ run'[q] = state
      BY <2>2 DEF IInv
    <3>3. CASE Validate(r)
      BY <3>2, <3>3 DEF Validate, Goto, Fail, PastValidation
    <3>4. CASE Enter(r) \/ Download(r) \/ Leave(r) \/ Crash(r)
      BY <3>2, <3>4 DEF Enter, Download, Leave, Crash, Goto, Fail, PastValidation
    <3>5. CASE StartNormalize(r) \/ EndNormalize(r) \/ StartWhisper(r) \/ EndWhisper(r) \/ Build(r)
      <4>1. run[r].step \in PastValidation
        BY <3>5 DEF StartNormalize, EndNormalize, StartWhisper, EndWhisper, Build, At,
                    PastValidation
      <4>. QED BY <4>1 DEF ProbePassed
    <3>. QED BY <3>1, <3>3, <3>4, <3>5 DEF RunStep
  <2>. QED BY <2>1, <2>2
<1>. QED BY <1>2, <1>3

\* A transcript is built only of audio within the limits, whatever other runs did to the
\* files: the probe's answer is about the recording, which nobody can replace.
THEOREM BuiltIsWithinLimits == Spec => []BuiltWithinLimits
<1>1. Init => ProbePassed
  BY DEF Init, ProbePassed, PastValidation
<1>2. IInv /\ ProbePassed => BuiltWithinLimits
  <2>. SUFFICES ASSUME IInv, ProbePassed, NEW r \in Runs, At(r, "built")
                PROVE  /\ NumberOf(DurationField(recording.raw)) \in Int
                       /\ NumberOf(DurationField(recording.raw)) <= MaxSeconds
                       /\ recording.raw.size \in 1 .. MaxBytes
    BY DEF BuiltWithinLimits
  <2>1. Probe.error = Missing
    BY DEF ProbePassed, PastValidation, At
  <2>2. recording.raw \in FfprobeOutput
    BY WorkspaceAssumption DEF IInv, TypeOK, Recording
  <2>. QED BY <2>1, <2>2, ProbeLimits DEF Probe
<1>. QED BY <1>1, <1>2, ProbeStep, WorkspaceInvariance, PTL DEF Spec

-----------------------------------------------------------------------------
(* Words                                                                   *)

\* The places where a word begins.
WordStarts(text) == {i \in DOMAIN text : text[i] # Blank /\ (i = 1 \/ text[i - 1] = Blank)}

\* Words are counted by their beginnings.
LEMMA CountType ==
    ASSUME NEW text \in TextOf
    PROVE  IsFiniteSet(WordStarts(text)) /\ CountWords(text) = Cardinality(WordStarts(text))
             /\ CountWords(text) \in Nat
<1>1. Len(text) \in Nat /\ DOMAIN text = 1 .. Len(text)
    BY DEF TextOf
<1>2. WordStarts(text) \subseteq 1 .. Len(text) /\ IsFiniteSet(1 .. Len(text))
    BY <1>1, FS_Interval DEF WordStarts
<1>3. IsFiniteSet(WordStarts(text))
    BY <1>2, FS_Subset
<1>. QED BY <1>3, FS_CardinalityType DEF CountWords, WordStarts

\* The words further on in a text are as many as before.
LEMMA Shift ==
    ASSUME NEW S, S \subseteq Nat, IsFiniteSet(S), NEW d \in Nat
    PROVE  LET T == {i + d : i \in S} IN IsFiniteSet(T) /\ Cardinality(T) = Cardinality(S)
<1>. DEFINE T == {i + d : i \in S}
            f == [i \in S |-> i + d]
<1>1. f \in Bijection(S, T)
    BY DEF Bijection, Injection, Surjection, IsInjective
<1>. HIDE DEF f
<1>2. ExistsBijection(S, T)
    BY <1>1 DEF ExistsBijection
<1>3. IsFiniteSet(T) /\ Cardinality(T) = Cardinality(S)
  <2>. HIDE DEF T
  <2>. QED BY <1>2, FS_Bijection
<1>. QED BY <1>3

\* A blank between two texts keeps their words apart.
LEMMA WordsApart ==
    ASSUME NEW x \in TextOf, NEW y \in TextOf
    PROVE  /\ x \o <<Blank>> \o y \in TextOf
           /\ CountWords(x \o <<Blank>> \o y) = CountWords(x) + CountWords(y)
<1>. DEFINE z == x \o <<Blank>> \o y
            d == Len(x) + 1
            T == {i + d : i \in WordStarts(y)}
<1>1. /\ z \in TextOf
      /\ Len(z) = Len(x) + 1 + Len(y)
      /\ \A i \in 1 .. Len(x) : z[i] = x[i]
      /\ z[d] = Blank
      /\ \A i \in 1 .. Len(y) : z[i + d] = y[i]
    BY DEF TextOf
<1>2. /\ Len(x) \in Nat /\ DOMAIN x = 1 .. Len(x)
      /\ Len(y) \in Nat /\ DOMAIN y = 1 .. Len(y)
      /\ DOMAIN z = 1 .. Len(z)
    BY <1>1 DEF TextOf
<1>. HIDE DEF z
<1>3. WordStarts(z) = WordStarts(x) \cup T
  <2>1. ASSUME NEW i \in WordStarts(z) PROVE i \in WordStarts(x) \cup T
    <3>1. i \in 1 .. Len(x) + 1 + Len(y) /\ z[i] # Blank /\ (i = 1 \/ z[i - 1] = Blank)
        BY <1>1, <1>2 DEF WordStarts
    <3>2. CASE i <= Len(x)
      <4>1. i \in 1 .. Len(x) /\ (i # 1 => i - 1 \in 1 .. Len(x))
          BY <3>1, <3>2, <1>2
      <4>. QED BY <1>1, <1>2, <3>1, <4>1 DEF WordStarts
    <3>3. CASE i > d
      <4>1. i - d \in 1 .. Len(y) /\ i = (i - d) + d
          BY <1>2, <3>1, <3>3
      <4>2. i - d = 1 \/ ((i - d) - 1 \in 1 .. Len(y) /\ i - 1 = ((i - d) - 1) + d)
          BY <1>2, <4>1
      <4>3. i - d \in WordStarts(y)
          BY <1>1, <1>2, <3>1, <3>3, <4>1, <4>2 DEF WordStarts
      <4>. QED BY <4>1, <4>3
    <3>4. i # d
        BY <1>1, <3>1
    <3>. QED BY <1>2, <3>1, <3>2, <3>3, <3>4
  <2>2. ASSUME NEW i \in WordStarts(x) PROVE i \in WordStarts(z)
    <3>1. i \in 1 .. Len(x) /\ (i # 1 => i - 1 \in 1 .. Len(x))
        BY <1>2 DEF WordStarts
    <3>2. i \in 1 .. Len(z)
        BY <1>1, <1>2, <3>1
    <3>. QED BY <1>1, <1>2, <3>1, <3>2 DEF WordStarts
  <2>3. ASSUME NEW i \in WordStarts(y) PROVE i + d \in WordStarts(z)
    <3>1. i \in 1 .. Len(y) /\ (i # 1 => i - 1 \in 1 .. Len(y) /\ (i - 1) + d = (i + d) - 1)
        BY <1>2 DEF WordStarts
    <3>2. i + d \in 1 .. Len(z) /\ (i = 1 => (i + d) - 1 = d)
        BY <1>1, <1>2, <3>1
    <3>3. z[i + d] # Blank /\ z[(i + d) - 1] = Blank
        BY <1>1, <1>2, <3>1, <3>2 DEF WordStarts
    <3>. QED BY <1>2, <3>2, <3>3 DEF WordStarts
  <2>. QED BY <2>1, <2>2, <2>3
<1>4. WordStarts(x) \cap T = {}
  <2>. SUFFICES ASSUME NEW i \in WordStarts(y), i + d \in WordStarts(x) PROVE FALSE
      OBVIOUS
  <2>. QED BY <1>2 DEF WordStarts
<1>5. WordStarts(y) \subseteq Nat /\ d \in Nat
    BY <1>2 DEF WordStarts
<1>6. IsFiniteSet(T) /\ Cardinality(T) = Cardinality(WordStarts(y))
    BY <1>5, CountType, Shift
<1>. HIDE DEF T
<1>7. Cardinality(WordStarts(z)) = Cardinality(WordStarts(x)) + Cardinality(T) - Cardinality({})
    BY <1>3, <1>4, <1>6, CountType, FS_Union
<1>8. CountWords(z) = CountWords(x) + CountWords(y)
    BY <1>1, <1>6, <1>7, CountType, FS_EmptySet
<1>. QED BY <1>1, <1>8 DEF z

\* Blanks at the ends of a text are no words.
LEMMA StripKeepsWords ==
    ASSUME NEW x \in TextOf
    PROVE  Strip(x) \in TextOf /\ CountWords(Strip(x)) = CountWords(x)
<1>. DEFINE inked == {i \in DOMAIN x : x[i] # Blank}
<1>1. Len(x) \in Nat /\ DOMAIN x = 1 .. Len(x) /\ x \in [1 .. Len(x) -> Letters \cup {Blank}]
    BY DEF TextOf
<1>2. CASE inked = {}
  <2>1. Strip(x) = <<>>
      BY <1>2 DEF Strip
  <2>2. WordStarts(x) = {} /\ WordStarts(<<>>) = {} /\ <<>> \in TextOf
      BY <1>2 DEF WordStarts, TextOf
  <2>. QED BY <2>1, <2>2, CountType
<1>3. CASE inked # {}
  <2>. DEFINE m == Min(inked)
              n == Max(inked)
              y == SubSeq(x, m, n)
              d == m - 1
              T == {i + d : i \in WordStarts(y)}
  <2>1. inked \subseteq Nat /\ inked \subseteq 0 .. Len(x) /\ inked \subseteq 1 .. Len(x)
      BY <1>1
  <2>2. m \in inked /\ n \in inked /\ \A i \in inked : m <= i /\ i <= n
      BY <1>1, <1>3, <2>1, MinIsLeast, MaxIsGreatest
  <2>. HIDE DEF m, n
  <2>3. m \in 1 .. Len(x) /\ n \in 1 .. Len(x) /\ m <= n
      BY <2>1, <2>2
  <2>4. \A i \in 1 .. Len(x) : x[i] # Blank => m <= i /\ i <= n
      BY <1>1, <2>2
  <2>5. x[m] # Blank /\ x[n] # Blank
      BY <2>2
  <2>6. Strip(x) = y
      BY <1>3 DEF Strip, m, n
  <2>. HIDE DEF inked
  <2>7. /\ y \in TextOf
        /\ Len(y) = n - m + 1
        /\ \A i \in 1 .. Len(y) : y[i] = x[i + d]
        /\ DOMAIN y = 1 .. Len(y)
      BY <1>1, <2>3 DEF TextOf
  <2>. HIDE DEF y
  <2>8. WordStarts(x) = T
    <3>1. ASSUME NEW i \in WordStarts(x) PROVE i \in T
      <4>1. i \in 1 .. Len(x) /\ x[i] # Blank /\ (i = 1 \/ x[i - 1] = Blank)
          BY <1>1 DEF WordStarts
      <4>2. m <= i /\ i <= n
          BY <2>4, <4>1
      <4>3. i - d \in 1 .. Len(y) /\ (i - d) + d = i
          BY <1>1, <2>3, <2>7, <4>1, <4>2
      <4>4. i - d # 1 => (i - d) - 1 \in 1 .. Len(y) /\ ((i - d) - 1) + d = i - 1 /\ i # 1
          BY <1>1, <2>3, <2>7, <4>1, <4>2, <4>3
      <4>5. i - d \in WordStarts(y)
          BY <2>7, <4>1, <4>3, <4>4 DEF WordStarts
      <4>. QED BY <4>3, <4>5
    <3>2. ASSUME NEW i \in WordStarts(y) PROVE i + d \in WordStarts(x)
      <4>1. i \in 1 .. Len(y) /\ y[i] # Blank /\ (i = 1 \/ y[i - 1] = Blank)
          BY <2>7 DEF WordStarts
      <4>2. i + d \in 1 .. Len(x) /\ x[i + d] # Blank
          BY <1>1, <2>3, <2>7, <4>1
      <4>3. CASE i = 1
        <5>1. i + d = m
            BY <2>3, <4>3
        <5>2. ASSUME m # 1 PROVE x[m - 1] = Blank
          <6>1. m - 1 \in 1 .. Len(x) /\ ~(m <= m - 1)
              BY <1>1, <2>3, <5>2
          <6>. QED BY <2>4, <6>1
        <5>. QED BY <1>1, <4>2, <5>1, <5>2 DEF WordStarts
      <4>4. CASE i # 1
        <5>1. i - 1 \in 1 .. Len(y) /\ (i - 1) + d = (i + d) - 1
            BY <2>3, <2>7, <4>1, <4>4
        <5>2. x[(i + d) - 1] = Blank
            BY <2>7, <4>1, <4>4, <5>1
        <5>. QED BY <1>1, <4>2, <5>2 DEF WordStarts
      <4>. QED BY <4>3, <4>4
    <3>. QED BY <3>1, <3>2
  <2>9. WordStarts(y) \subseteq Nat /\ d \in Nat
      BY <2>3, <2>7 DEF WordStarts
  <2>10. Cardinality(T) = Cardinality(WordStarts(y))
      BY <2>7, <2>9, CountType, Shift
  <2>. QED BY <2>6, <2>7, <2>8, <2>10, CountType
<1>. QED BY <1>2, <1>3

-----------------------------------------------------------------------------
(* The folds of parse_whisper_output and build_transcript                  *)

\* word_count is a sum over the texts.
LEMMA WordsFold ==
    ASSUME NEW n \in Nat, NEW texts \in [1 .. n -> TextOf]
    PROVE  \E g \in [0 .. n -> Nat] :
              /\ g[0] = 0
              /\ \A k \in 0 .. n - 1 : g[k + 1] = g[k] + CountWords(texts[k + 1])
              /\ g[n] = FoldLeft(PlusWords, 0, texts)
<1>. DEFINE op == [p \in Nat \X TextOf |-> PlusWords(p[1], p[2])]
            IsFold(f) == f = [s \in SUBSET (1 .. n) |->
                               IF s = {} THEN 0 ELSE PlusWords(f[s \ {Max(s)}], texts[Max(s)])]
<1>1. FoldLeft(PlusWords, 0, texts) = (CHOOSE f : IsFold(f))[1 .. n]
  <2>1. DOMAIN texts = 1 .. n
      OBVIOUS
  <2>. QED BY <2>1 DEF FoldLeft, MapThenFoldSet
<1>2. \A k \in Nat : \A t \in TextOf :
        /\ PlusWords(k, t) = k + CountWords(t)
        /\ PlusWords(k, t) \in Nat
        /\ op[<<k, t>>] = PlusWords(k, t)
    BY CountType DEF PlusWords
<1>3. op \in [Nat \X TextOf -> Nat]
    BY <1>2
<1>. HIDE DEF op
<1>4. PICK h \in [SUBSET (1 .. n) -> Nat] : Folds(h, n, op, 0, texts)
    BY <1>3, FoldExists
<1>5. IsFold(h)
  <2>1. ASSUME NEW s \in SUBSET (1 .. n)
        PROVE  h[s] = IF s = {} THEN 0 ELSE PlusWords(h[s \ {Max(s)}], texts[Max(s)])
    <3>1. h[s] = IF s = {} THEN 0 ELSE op[<<h[s \ {Max(s)}], texts[Max(s)]>>]
        BY <1>4 DEF Folds
    <3>2. ASSUME s # {} PROVE h[s \ {Max(s)}] \in Nat /\ texts[Max(s)] \in TextOf
        BY <3>2, GreatestPlace
    <3>. QED BY <1>2, <3>1, <3>2
  <2>. QED BY <2>1
<1>6. PICK f \in {CHOOSE f : IsFold(f)} : TRUE
    OBVIOUS
<1>7. IsFold(f)
  <2>. HIDE DEF IsFold
  <2>. QED BY <1>5, <1>6
<1>8. \A s \in SUBSET (1 .. n) :
        f[s] = IF s = {} THEN 0 ELSE PlusWords(f[s \ {Max(s)}], texts[Max(s)])
    BY <1>7
<1>9. FoldLeft(PlusWords, 0, texts) = f[1 .. n]
    BY <1>1, <1>6
<1>. HIDE DEF IsFold
<1>. DEFINE g == [k \in 0 .. n |-> f[1 .. k]]
<1>10. g[0] = 0
  <2>1. 1 .. 0 = {}
      OBVIOUS
  <2>2. f[{}] = 0
      BY <1>8
  <2>. QED BY <2>1, <2>2
<1>11. ASSUME NEW k \in 0 .. n - 1 PROVE g[k + 1] = PlusWords(g[k], texts[k + 1])
  <2>1. 1 .. k + 1 \in SUBSET (1 .. n) /\ k + 1 \in 0 .. n /\ k \in 0 .. n /\ k \in Nat
      OBVIOUS
  <2>2. f[1 .. k + 1] = PlusWords(f[1 .. k], texts[k + 1])
      BY <1>8, <2>1, Prefix
  <2>. QED BY <2>1, <2>2
<1>12. g[n] = FoldLeft(PlusWords, 0, texts)
    BY <1>9
<1>13. DOMAIN g = 0 .. n /\ g = [k \in 0 .. n |-> g[k]]
    OBVIOUS
<1>. HIDE DEF g
<1>14. ASSUME NEW k \in 0 .. n - 1
       PROVE  texts[k + 1] \in TextOf /\ (g[k] \in Nat => g[k + 1] \in Nat)
  <2>1. texts[k + 1] \in TextOf
      OBVIOUS
  <2>. QED BY <1>2, <1>11, <2>1
<1>15. \A k \in 0 .. n : g[k] \in Nat
  <2>1. g[0] \in Nat
      BY <1>10
  <2>. QED BY <2>1, <1>14, PlaceInduction
<1>16. g \in [0 .. n -> Nat]
    BY <1>13, <1>15
<1>17. \A k \in 0 .. n - 1 : g[k + 1] = g[k] + CountWords(texts[k + 1])
  <2>. SUFFICES ASSUME NEW k \in 0 .. n - 1 PROVE g[k + 1] = g[k] + CountWords(texts[k + 1])
      OBVIOUS
  <2>1. k \in 0 .. n
      OBVIOUS
  <2>. QED BY <1>2, <1>11, <1>14, <1>15, <2>1
<1>. QED BY <1>10, <1>12, <1>16, <1>17
\* The text is joined part by part.
LEMMA JoinFold ==
    ASSUME NEW n \in Nat, NEW parts \in [1 .. n -> TextOf]
    PROVE  \E g \in [0 .. n -> TextOf] :
              /\ g[0] = <<>>
              /\ \A k \in 0 .. n - 1 : g[k + 1] = Spaced(g[k], parts[k + 1])
              /\ g[n] = FoldLeft(Spaced, <<>>, parts)
<1>. DEFINE op == [p \in TextOf \X TextOf |-> Spaced(p[1], p[2])]
            IsFold(f) == f = [s \in SUBSET (1 .. n) |->
                               IF s = {} THEN <<>> ELSE Spaced(f[s \ {Max(s)}], parts[Max(s)])]
<1>1. FoldLeft(Spaced, <<>>, parts) = (CHOOSE f : IsFold(f))[1 .. n]
  <2>1. DOMAIN parts = 1 .. n
      OBVIOUS
  <2>. QED BY <2>1 DEF FoldLeft, MapThenFoldSet
<1>2. \A t \in TextOf : \A p \in TextOf :
        /\ Spaced(t, p) \in TextOf
        /\ op[<<t, p>>] = Spaced(t, p)
    BY WordsApart DEF Spaced
<1>3. op \in [TextOf \X TextOf -> TextOf]
    BY <1>2
<1>. HIDE DEF op
<1>4. PICK h \in [SUBSET (1 .. n) -> TextOf] : Folds(h, n, op, <<>>, parts)
  <2>1. <<>> \in TextOf
      BY DEF TextOf
  <2>. QED BY <1>3, <2>1, FoldExists
<1>5. IsFold(h)
  <2>1. ASSUME NEW s \in SUBSET (1 .. n)
        PROVE  h[s] = IF s = {} THEN <<>> ELSE Spaced(h[s \ {Max(s)}], parts[Max(s)])
    <3>1. h[s] = IF s = {} THEN <<>> ELSE op[<<h[s \ {Max(s)}], parts[Max(s)]>>]
        BY <1>4 DEF Folds
    <3>2. ASSUME s # {} PROVE h[s \ {Max(s)}] \in TextOf /\ parts[Max(s)] \in TextOf
        BY <3>2, GreatestPlace
    <3>. QED BY <1>2, <3>1, <3>2
  <2>. QED BY <2>1
<1>6. PICK f \in {CHOOSE f : IsFold(f)} : TRUE
    OBVIOUS
<1>7. IsFold(f)
  <2>. HIDE DEF IsFold
  <2>. QED BY <1>5, <1>6
<1>8. \A s \in SUBSET (1 .. n) :
        f[s] = IF s = {} THEN <<>> ELSE Spaced(f[s \ {Max(s)}], parts[Max(s)])
    BY <1>7
<1>9. FoldLeft(Spaced, <<>>, parts) = f[1 .. n]
    BY <1>1, <1>6
<1>. HIDE DEF IsFold
<1>. DEFINE g == [k \in 0 .. n |-> f[1 .. k]]
<1>10. g[0] = <<>>
  <2>1. 1 .. 0 = {}
      OBVIOUS
  <2>2. f[{}] = <<>>
      BY <1>8
  <2>. QED BY <2>1, <2>2
<1>11. ASSUME NEW k \in 0 .. n - 1 PROVE g[k + 1] = Spaced(g[k], parts[k + 1])
  <2>1. 1 .. k + 1 \in SUBSET (1 .. n) /\ k + 1 \in 0 .. n /\ k \in 0 .. n /\ k \in Nat
      OBVIOUS
  <2>2. f[1 .. k + 1] = Spaced(f[1 .. k], parts[k + 1])
      BY <1>8, <2>1, Prefix
  <2>. QED BY <2>1, <2>2
<1>12. g[n] = FoldLeft(Spaced, <<>>, parts)
    BY <1>9
<1>13. DOMAIN g = 0 .. n /\ g = [k \in 0 .. n |-> g[k]]
    OBVIOUS
<1>. HIDE DEF g
<1>14. ASSUME NEW k \in 0 .. n - 1
       PROVE  parts[k + 1] \in TextOf /\ (g[k] \in TextOf => g[k + 1] \in TextOf)
  <2>1. parts[k + 1] \in TextOf
      OBVIOUS
  <2>. QED BY <1>2, <1>11, <2>1
<1>15. \A k \in 0 .. n : g[k] \in TextOf
  <2>1. g[0] \in TextOf
      BY <1>10 DEF TextOf
  <2>. QED BY <2>1, <1>14, PlaceInduction
<1>16. g \in [0 .. n -> TextOf]
    BY <1>13, <1>15
<1>17. \A k \in 0 .. n - 1 : g[k + 1] = Spaced(g[k], parts[k + 1])
  <2>. SUFFICES ASSUME NEW k \in 0 .. n - 1 PROVE g[k + 1] = Spaced(g[k], parts[k + 1])
      OBVIOUS
  <2>1. k \in 0 .. n
      OBVIOUS
  <2>. QED BY <1>2, <1>11, <1>14, <1>15, <2>1
<1>. QED BY <1>10, <1>12, <1>16, <1>17
\* The segments of parse_whisper_output.
Segment == [start: Nat, end: Nat, text: TextOf]

\* An entry adds a segment, or nothing.
LEMMA EntryType ==
    ASSUME NEW segments \in Seq(Segment), NEW entry \in Entry
    PROVE  WithEntry(segments, entry) \in Seq(Segment)
<1>. DEFINE s == [start |-> entry.from, end |-> entry.to, text |-> Strip(entry.text)]
<1>1. CASE Missing \in {entry.from, entry.to}
    BY <1>1 DEF WithEntry
<1>2. CASE Missing \notin {entry.from, entry.to}
  <2>1. s \in Segment
      BY <1>2, StripKeepsWords DEF Entry, Segment
  <2>. HIDE DEF s
  <2>2. Append(segments, s) \in Seq(Segment)
      BY <2>1
  <2>. QED BY <1>2, <2>2 DEF WithEntry, s
<1>. QED BY <1>1, <1>2

\* Segments are made entry by entry.
LEMMA ParseFold ==
    ASSUME NEW n \in Nat, NEW entries \in [1 .. n -> Entry]
    PROVE  FoldLeft(WithEntry, <<>>, entries) \in Seq(Segment)
<1>. DEFINE op == [p \in Seq(Segment) \X Entry |-> WithEntry(p[1], p[2])]
            IsFold(f) == f = [s \in SUBSET (1 .. n) |->
                               IF s = {} THEN <<>> ELSE WithEntry(f[s \ {Max(s)}], entries[Max(s)])]
<1>1. FoldLeft(WithEntry, <<>>, entries) = (CHOOSE f : IsFold(f))[1 .. n]
  <2>1. DOMAIN entries = 1 .. n
      OBVIOUS
  <2>. QED BY <2>1 DEF FoldLeft, MapThenFoldSet
<1>2. \A t \in Seq(Segment) : \A e \in Entry :
        /\ WithEntry(t, e) \in Seq(Segment)
        /\ op[<<t, e>>] = WithEntry(t, e)
    BY EntryType
<1>3. op \in [Seq(Segment) \X Entry -> Seq(Segment)]
    BY <1>2
<1>. HIDE DEF op
<1>4. PICK h \in [SUBSET (1 .. n) -> Seq(Segment)] : Folds(h, n, op, <<>>, entries)
  <2>1. <<>> \in Seq(Segment)
      OBVIOUS
  <2>. QED BY <1>3, <2>1, FoldExists
<1>5. IsFold(h)
  <2>1. ASSUME NEW s \in SUBSET (1 .. n)
        PROVE  h[s] = IF s = {} THEN <<>> ELSE WithEntry(h[s \ {Max(s)}], entries[Max(s)])
    <3>1. h[s] = IF s = {} THEN <<>> ELSE op[<<h[s \ {Max(s)}], entries[Max(s)]>>]
        BY <1>4 DEF Folds
    <3>2. ASSUME s # {} PROVE h[s \ {Max(s)}] \in Seq(Segment) /\ entries[Max(s)] \in Entry
        BY <3>2, GreatestPlace
    <3>. QED BY <1>2, <3>1, <3>2
  <2>. QED BY <2>1
<1>6. PICK f \in {CHOOSE f : IsFold(f)} : TRUE
    OBVIOUS
<1>7. IsFold(f)
  <2>. HIDE DEF IsFold
  <2>. QED BY <1>5, <1>6
<1>8. \A s \in SUBSET (1 .. n) :
        f[s] = IF s = {} THEN <<>> ELSE WithEntry(f[s \ {Max(s)}], entries[Max(s)])
    BY <1>7
<1>9. FoldLeft(WithEntry, <<>>, entries) = f[1 .. n]
    BY <1>1, <1>6
<1>. HIDE DEF IsFold
<1>. DEFINE g == [k \in 0 .. n |-> f[1 .. k]]
<1>10. g[0] = <<>>
  <2>1. 1 .. 0 = {}
      OBVIOUS
  <2>2. f[{}] = <<>>
      BY <1>8
  <2>. QED BY <2>1, <2>2
<1>11. ASSUME NEW k \in 0 .. n - 1 PROVE g[k + 1] = WithEntry(g[k], entries[k + 1])
  <2>1. 1 .. k + 1 \in SUBSET (1 .. n) /\ k + 1 \in 0 .. n /\ k \in 0 .. n /\ k \in Nat
      OBVIOUS
  <2>2. f[1 .. k + 1] = WithEntry(f[1 .. k], entries[k + 1])
      BY <1>8, <2>1, Prefix
  <2>. QED BY <2>1, <2>2
<1>12. g[n] = FoldLeft(WithEntry, <<>>, entries)
    BY <1>9
<1>13. DOMAIN g = 0 .. n /\ g = [k \in 0 .. n |-> g[k]]
    OBVIOUS
<1>. HIDE DEF g
<1>14. ASSUME NEW k \in 0 .. n - 1
       PROVE  entries[k + 1] \in Entry /\ (g[k] \in Seq(Segment) => g[k + 1] \in Seq(Segment))
  <2>1. entries[k + 1] \in Entry
      OBVIOUS
  <2>. QED BY <1>2, <1>11, <2>1
<1>15. \A k \in 0 .. n : g[k] \in Seq(Segment)
  <2>1. g[0] \in Seq(Segment)
      BY <1>10
  <2>. QED BY <2>1, <1>14, PlaceInduction
<1>. QED BY <1>12, <1>15

-----------------------------------------------------------------------------
(* The numbers of a transcript                                             *)

\* The words of a joined text are those of its parts.
LEMMA JoinAddsUp ==
    ASSUME NEW n \in Nat, NEW texts \in [1 .. n -> TextOf]
    PROVE  CountWords(Join(texts)) = FoldLeft(PlusWords, 0, texts)
<1>1. PICK w \in [0 .. n -> Nat] :
              /\ w[0] = 0
              /\ \A k \in 0 .. n - 1 : w[k + 1] = w[k] + CountWords(texts[k + 1])
              /\ w[n] = FoldLeft(PlusWords, 0, texts)
    BY WordsFold
<1>2. PICK g \in [0 .. n -> TextOf] :
              /\ g[0] = <<>>
              /\ \A k \in 0 .. n - 1 : g[k + 1] = Spaced(g[k], texts[k + 1])
              /\ g[n] = FoldLeft(Spaced, <<>>, texts)
    BY JoinFold
<1>3. CountWords(<<>>) = 0
  <2>1. <<>> \in TextOf /\ WordStarts(<<>>) = {}
      BY DEF TextOf, WordStarts
  <2>. QED BY <2>1, CountType, FS_EmptySet
<1>4. ASSUME NEW x \in TextOf, NEW y \in TextOf
      PROVE  CountWords(Spaced(x, y)) = CountWords(x) + CountWords(y)
  <2>1. CountWords(x) \in Nat /\ CountWords(y) \in Nat
      BY CountType
  <2>2. CASE y = <<>>
      BY <1>3, <2>1, <2>2 DEF Spaced
  <2>3. CASE y # <<>> /\ x = <<>>
      BY <1>3, <2>1, <2>3 DEF Spaced
  <2>4. CASE y # <<>> /\ x # <<>>
      BY <2>4, WordsApart DEF Spaced
  <2>. QED BY <2>2, <2>3, <2>4
<1>. DEFINE S == {k \in Nat : k <= n => CountWords(g[k]) = w[k]}
<1>5. 0 \in S
    BY <1>1, <1>2, <1>3
<1>6. ASSUME NEW k \in Nat, k \in S PROVE k + 1 \in S
  <2>. SUFFICES ASSUME k + 1 <= n PROVE CountWords(g[k + 1]) = w[k + 1]
      OBVIOUS
  <2>1. k \in 0 .. n - 1 /\ k \in 0 .. n /\ k + 1 \in 1 .. n /\ k <= n
      OBVIOUS
  <2>2. CountWords(g[k]) = w[k]
      BY <1>6, <2>1
  <2>3. g[k] \in TextOf /\ texts[k + 1] \in TextOf
      BY <2>1
  <2>. QED BY <1>1, <1>2, <1>4, <2>1, <2>2, <2>3
<1>. HIDE DEF S
<1>7. Nat \subseteq S
    BY <1>5, <1>6, SetInduction
<1>8. CountWords(g[n]) = w[n]
    BY <1>7 DEF S
<1>9. g[n] \in TextOf
    OBVIOUS
<1>. QED BY <1>1, <1>2, <1>8, <1>9, StripKeepsWords DEF Join

\* The numbers agree with the text and the segments, whatever was heard.
AddsUp(t) ==
    /\ t.word_count = CountWords(t.text)
    /\ t.segment_count = Len(t.segments)
    /\ \A i \in DOMAIN t.segments : t.segments[i].id = i - 1

\* Every transcript that is built adds up.
LEMMA TranscriptNumbers ==
    ASSUME NEW entries \in Seq(Entry), NEW raw
    PROVE  AddsUp(TranscriptOf(entries, raw))
<1>. DEFINE segments == ParseWhisper(entries)
            n == Len(segments)
            texts == [i \in DOMAIN segments |-> Strip(segments[i].text)]
            numbered == [i \in DOMAIN segments |->
                            [id |-> i - 1, start |-> segments[i].start, end |-> segments[i].end,
                             text |-> texts[i]]]
            t == TranscriptOf(entries, raw)
<1>1. segments \in Seq(Segment)
  <2>1. Len(entries) \in Nat /\ entries \in [1 .. Len(entries) -> Entry]
      OBVIOUS
  <2>. QED BY <2>1, ParseFold DEF ParseWhisper
<1>2. /\ t.word_count = FoldLeft(PlusWords, 0, texts)
      /\ t.segment_count = n
      /\ t.text = Join(texts)
      /\ t.segments = numbered
  <2>. HIDE DEF segments
  <2>. QED BY DEF TranscriptOf, BuildTranscript, segments
<1>. HIDE DEF segments, t
<1>3. n \in Nat /\ DOMAIN segments = 1 .. n
    BY <1>1
<1>4. texts \in [1 .. n -> TextOf]
  <2>1. ASSUME NEW i \in 1 .. n PROVE Strip(segments[i].text) \in TextOf
    <3>1. segments[i] \in Segment
        BY <1>1, <1>3
    <3>2. segments[i].text \in TextOf
        BY <3>1 DEF Segment
    <3>. QED BY <3>2, StripKeepsWords
  <2>. QED BY <1>3, <2>1
<1>5. Len(numbered) = n /\ \A i \in DOMAIN numbered : numbered[i].id = i - 1
    BY <1>3
<1>. HIDE DEF texts, numbered, n
<1>6. CountWords(Join(texts)) = FoldLeft(PlusWords, 0, texts)
    BY <1>3, <1>4, JoinAddsUp
<1>. QED BY <1>2, <1>5, <1>6 DEF AddsUp, t

\* Once built, a transcript stays as it is until its run leaves, and it is built from
\* entries, whoever wrote the output that is read.
LEMMA NumbersStep == TypeOK /\ DOMAIN run = Runs /\ TranscriptAddsUp /\ [Next]_vars => TranscriptAddsUp'
<1>. SUFFICES ASSUME TypeOK, DOMAIN run = Runs, TranscriptAddsUp, [Next]_vars,
                     NEW q \in Runs, run'[q].step = "built"
              PROVE  AddsUp(run'[q].transcript)
  BY DEF TranscriptAddsUp, AddsUp, At
<1>1. CASE run'[q] = run[q]
  BY <1>1 DEF TranscriptAddsUp, AddsUp, At
<1>2. CASE run'[q] # run[q]
  <2>1. PICK r \in Runs : RunStep(r)
    BY <1>2 DEF Next, DeleteAudio, vars
  <2>2. \A state : run' = [run EXCEPT ![r] = state] => q = r /\ run'[q] = state
    BY <1>2
  <2>3. Build(r)
    BY <2>1, <2>2 DEF RunStep, Enter, Download, Validate, StartNormalize, EndNormalize,
                      StartWhisper, EndWhisper, Leave, Crash, Goto, Fail
  <2>4. dir # None /\ dir.output # None
    BY <2>2, <2>3 DEF Build, Fail
  <2>5. run'[q].transcript = TranscriptOf(dir.output.heard, recording.raw)
    BY <2>2, <2>3, <2>4 DEF Build, Fail
  <2>6. dir.output.heard \in Seq(Entry)
    BY <2>4 DEF TypeOK, Directory, Output
  <2>. QED BY <2>5, <2>6, TranscriptNumbers
<1>. QED BY <1>1, <1>2

\* The numbers of every transcript built agree with its text, however many segments there
\* are, which of them are blank and whichever run wrote the output.
THEOREM NumbersAgree == Spec => []TranscriptAddsUp
<1>1. Init => TranscriptAddsUp
  BY DEF Init, TranscriptAddsUp, At
<1>2. IInv => TypeOK /\ DOMAIN run = Runs
  BY DEF IInv
<1>. QED BY <1>1, <1>2, NumbersStep, WorkspaceInvariance, PTL DEF Spec
=============================================================================
