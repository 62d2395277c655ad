-------------------------------- MODULE MCWorkspace --------------------------------
(* Values for the constants of Workspace. *)
EXTENDS Workspace

CONSTANTS r1, r2, r3, a

\* The entries of whisper.cpp's output: blanks around and between words, a blank text,
\* a missing offset.
Entries ==
    {[from |-> 0, to |-> 1, text |-> <<Blank, a, a, Blank, a>>],
     [from |-> 1, to |-> 2, text |-> <<Blank>>],
     [from |-> Missing, to |-> 2, text |-> <<a>>]}

Said == UNION {[1 .. n -> Entries] : n \in 0 .. 2}
OneWord == <<[from |-> 0, to |-> 2, text |-> <<a, Blank>>]>>

AudioStream(duration) ==
    [codec_type |-> "audio", duration |-> duration, sample_rate |-> Text]
VideoStream == [codec_type |-> "video", duration |-> 1, sample_rate |-> Missing]
Song == [json |-> TRUE, duration |-> 2, size |-> 2, streams |-> <<VideoStream, AudioStream(9)>>]

\* Reports that differ from the one on a good file in one thing or two.
Reports ==
    {Song, [Song EXCEPT !.json = FALSE], [Song EXCEPT !.streams = <<VideoStream>>]}
        \cup {[Song EXCEPT !.duration = d] : d \in {0, 3, Missing, Text}}
        \cup {[Song EXCEPT !.size = n] : n \in {0, 3, Missing, Text, EmptyText, Zero}}
        \cup {[Song EXCEPT !.duration = d[1], !.streams = <<AudioStream(d[2]), AudioStream(1)>>] :
                d \in {Missing, EmptyText, Zero} \X {2, 3, Missing, EmptyText, Zero}}

Uploads == {[raw |-> Song, said |-> s] : s \in Said} \cup {[raw |-> p, said |-> OneWord] : p \in Reports}

Symmetry == Permutations(Runs)
=============================================================================
