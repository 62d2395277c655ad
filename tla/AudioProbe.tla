-------------------------------- MODULE AudioProbe --------------------------------
(***************************************************************************)
(* What the worker makes of ffprobe's report on a file: the parsed result  *)
(* or an error code, and whether it is within the limits.                  *)
(***************************************************************************)
EXTENDS Integers, Sequences, FiniteSetsExt

CONSTANTS
    MaxBytes,     \* MAX_AUDIO_SIZE_BYTES
    MaxSeconds,   \* MAX_AUDIO_DURATION_SECONDS
    Missing,      \* a field that is not there, None
    Text,         \* a field that is no number, such as N/A
    EmptyText,        \* an empty text
    Zero          \* the bare number 0; the integers stand for texts that are true, "0" too

\* The codes a file is refused with.
RefusalCodes == {"audio_validation_failed", "unsupported_audio_format", "audio_too_large",
                 "audio_duration_too_long"}

ASSUME AudioProbeAssumption ==
    /\ MaxBytes \in Nat
    /\ MaxSeconds \in Nat
    /\ Missing \notin Int \cup RefusalCodes
    /\ {Text, EmptyText, Zero} \cap Int = {}
    /\ Zero \notin {Missing, Text, EmptyText}

Field == Int \cup {Missing, Text, EmptyText, Zero}
Stream == [codec_type: {"audio", "video"}, duration: Field, sample_rate: Field]
FfprobeOutput == [json: BOOLEAN, duration: Field, size: Field, streams: Seq(Stream)]

\* The positions of the audio streams, and the first of these streams.
AudioStreams(raw) == {i \in DOMAIN raw.streams : raw.streams[i].codec_type = "audio"}
FirstAudio(raw) == raw.streams[Min(AudioStreams(raw))]

\* The container's duration "or" the one of the first audio stream.
DurationField(raw) ==
    IF raw.duration \in {Missing, EmptyText, Zero} THEN FirstAudio(raw).duration ELSE raw.duration

NumberOf(field) == IF field = Zero THEN 0 ELSE field

\* _safe_int: a field nobody depends on may be missing or nonsense.
SafeInt(field) == IF field \in {Text, EmptyText} THEN Missing ELSE NumberOf(field)

Refused(code) == [error |-> code]

\* parse_ffprobe_output: a usable audio stream, a duration and a size, or an error.
ParseFfprobe(raw) ==
    CASE ~raw.json -> Refused("audio_validation_failed")
      [] raw.json /\ AudioStreams(raw) = {} -> Refused("unsupported_audio_format")
      [] OTHER ->
           IF {DurationField(raw), raw.size} \cap {Missing, Text, EmptyText} # {}
           THEN Refused("audio_validation_failed")
           ELSE [error |-> Missing, duration |-> NumberOf(DurationField(raw)),
                 size |-> NumberOf(raw.size),
                 sample_rate |-> SafeInt(FirstAudio(raw).sample_rate)]

\* Mutant: a file without a duration passes for one without a length limit.
ProbeAudioLenient(raw) ==
    LET probe == ParseFfprobe(raw) IN
    CASE probe.error # Missing -> probe
      [] probe.error = Missing /\ probe.size \notin 1 .. MaxBytes -> Refused("audio_too_large")
      [] OTHER -> probe

\* probe_audio and validate_audio: the limits, in the order they are tested.
ProbeAudio(raw) ==
    LET probe == ParseFfprobe(raw) IN
    CASE probe.error # Missing -> probe
      [] probe.error = Missing /\ probe.size <= 0 -> Refused("audio_validation_failed")
      [] probe.error = Missing /\ probe.size > MaxBytes -> Refused("audio_too_large")
      [] probe.error = Missing /\ probe.size \in 1 .. MaxBytes /\ probe.duration > MaxSeconds ->
            Refused("audio_duration_too_long")
      [] OTHER -> probe
=============================================================================
