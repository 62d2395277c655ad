-------------------------------- MODULE Transcript --------------------------------
(***************************************************************************)
(* From whisper.cpp's JSON output to transcript.json and manifest.json.    *)
(* A text is a sequence of letters and blanks; times are in milliseconds.  *)
(***************************************************************************)
EXTENDS AudioProbe, SequencesExt

CONSTANTS Letters, Blank

ASSUME TranscriptAssumption == Blank \notin Letters

TextOf == Seq(Letters \cup {Blank})

\* An entry of "transcription" in the output, with what offsets it has.
Entry == [from: Nat \cup {Missing}, to: Nat \cup {Missing}, text: TextOf]

\* str.strip()
Strip(text) ==
    LET inked == {i \in DOMAIN text : text[i] # Blank} IN
    IF inked = {} THEN <<>> ELSE SubSeq(text, Min(inked), Max(inked))

\* len(text.split())
CountWords(text) ==
    Cardinality({i \in DOMAIN text : text[i] # Blank /\ (i = 1 \/ text[i - 1] = Blank)})

\* Mutant: the parts follow each other without a blank.
JoinTight(parts) == FlattenSeq(parts)

\* A part behind a text, with a blank between them; an empty part is left out.
Spaced(text, part) ==
    CASE part = <<>> -> text
      [] part # <<>> /\ text = <<>> -> part
      [] OTHER -> text \o <<Blank>> \o part

\* " ".join(part for part in text_parts if part).strip()
Join(parts) == Strip(FoldLeft(Spaced, <<>>, parts))

PlusWords(count, text) == count + CountWords(text)

\* The segments with that of one more entry; an entry without offsets is skipped.
WithEntry(segments, entry) ==
    IF Missing \in {entry.from, entry.to} THEN segments
    ELSE Append(segments, [start |-> entry.from, end |-> entry.to, text |-> Strip(entry.text)])

\* parse_whisper_output
ParseWhisper(entries) == FoldLeft(WithEntry, <<>>, entries)

\* build_transcript
BuildTranscript(segments, seconds) ==
    LET texts == [i \in DOMAIN segments |-> Strip(segments[i].text)]
    IN  [duration_seconds |-> seconds,
         word_count |-> FoldLeft(PlusWords, 0, texts),
         segment_count |-> Len(segments),
         text |-> Join(texts),
         segments |-> [i \in DOMAIN segments |->
                        [id |-> i - 1, start |-> segments[i].start, end |-> segments[i].end,
                         text |-> texts[i]]]]

\* build_manifest: the digest stands for the whole transcript.
BuildManifest(transcript, probe) ==
    [status |-> "completed", sha256 |-> transcript, duration_seconds |-> probe.duration,
     sample_rate |-> probe.sample_rate]

\* The transcript of a recording of which "entries" were recognised.
TranscriptOf(entries, raw) == BuildTranscript(ParseWhisper(entries), ProbeAudio(raw).duration)
=============================================================================
