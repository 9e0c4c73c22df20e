----------------------------- MODULE SceneAudio -----------------------------
(***************************************************************************)
(* The sound and the captions of a video of the MVP renderer: a sentence   *)
(* at a time is spoken or replaced by silence, the sentences of a scene    *)
(* are joined, captions are laid out from the durations claimed for them,  *)
(* and the scenes are joined into one track.                               *)
(*                                                                         *)
(* Speech and FFmpeg are external.  A file is the sequence of sounds heard *)
(* in it, empty for a placeholder that is no audio; time is in half        *)
(* seconds.                                                                *)
(***************************************************************************)
EXTENDS Naturals, Sequences, SequencesExt

CONSTANTS
  Scripts,    \* scripts: the length each sentence of each scene is spoken in
  Estimates,  \* durations a speech provider may claim from the text's length
  Padding,    \* SCENE_SILENCE_PADDING_SEC
  Silence,    \* SILENCE_DURATION_SEC
  Faults      \* what may fail: "speech", "probe", "silence", "join"

ASSUME SceneAudioAssumption ==
  /\ Scripts \subseteq Seq(Seq(Nat \ {0})) \ {<<>>}
  /\ Estimates \subseteq Nat \ {0}
  /\ Padding \in Nat /\ Silence \in Nat \ {0}
  /\ Faults \subseteq {"speech", "probe", "silence", "join"}

VARIABLES
  script,    \* the script; never changes
  ffmpeg,    \* _has_ffmpeg; never changes
  spoken,    \* sentence_results of the scene in hand
  sounds,    \* the sound of each scene that is over
  lengths,   \* duration_sec of each, padding included
  captions,  \* captions_json so far
  track,     \* tts_audio_path
  srt,       \* the entries of the subtitle file
  pc,        \* "scenes", "join", "subtitle" or "done"
  guessed    \* history: a duration was claimed that is not the file's

vars == <<script, ffmpeg, spoken, sounds, lengths, captions, track, srt, pc, guessed>>

(* Running totals of a sequence of numbers: what its first n add up to. *)
Totals(s) ==
  LET total[n \in 0..Len(s)] == IF n = 0 THEN 0 ELSE total[n - 1] + s[n] IN total

Sum(s) == Totals(s)[Len(s)]

Captions == [start : Nat, end : Nat, scene : Nat]

TypeOK ==
  /\ script \in Scripts
  /\ ffmpeg \in BOOLEAN
  /\ spoken \in Seq([file : Seq(Nat), duration : Nat])
  /\ sounds \in Seq(Seq(Nat))
  /\ lengths \in Seq(Nat)
  /\ captions \in Seq(Captions)
  /\ track \in Seq(Nat)
  /\ srt \in Seq(Captions)
  /\ pc \in {"scenes", "join", "subtitle", "done"}
  /\ guessed \in BOOLEAN

Init ==
  /\ script \in Scripts
  /\ ffmpeg \in BOOLEAN
  /\ spoken = <<>>
  /\ sounds = <<>>
  /\ lengths = <<>>
  /\ captions = <<>>
  /\ track = <<>>
  /\ srt = <<>>
  /\ pc = "scenes"
  /\ guessed = FALSE

Fails(kind) == IF kind \in Faults THEN BOOLEAN ELSE {FALSE}

-----------------------------------------------------------------------------
(* What the external programs give. *)

(* ffprobe: the length of a file, or 0 when it is no audio, when the query  *)
(* fails and without FFmpeg.                                                *)
GetAudioDuration(file) ==
  IF ffmpeg THEN {IF failed THEN 0 ELSE Sum(file) : failed \in Fails("probe")} ELSE {0}

(* FFmpeg's silence, or a placeholder. *)
CreateSilenceAudio ==
  IF ffmpeg THEN {IF failed THEN <<>> ELSE <<Silence>> : failed \in Fails("silence")}
  ELSE {<<>>}

(* The files one after another.  A placeholder among them is skipped or     *)
(* makes FFmpeg fail; without the join the first file stands for all.       *)
Joined(files) ==
  LET first == [sound |-> files[1], joined |-> FALSE]
      whole == [sound |-> FlattenSeq(files), joined |-> TRUE]
      sane  == \A i \in DOMAIN files : files[i] # <<>>
  IN IF Len(files) = 1 \/ ~ffmpeg THEN {first}
     ELSE {whole} \cup IF sane /\ "join" \notin Faults THEN {} ELSE {first}

-----------------------------------------------------------------------------
(* generate_scene_audio. *)

Scene == Len(sounds) + 1

Sentence == Len(spoken) + 1

(* A sentence is spoken: its duration is the file's if that can be told,     *)
(* the provider's estimate otherwise.                                       *)
Speak ==
  LET file == <<script[Scene][Sentence]>> IN
  \E d \in GetAudioDuration(file), e \in Estimates :
    LET duration == IF d > 0 THEN d ELSE e IN
    /\ spoken' = Append(spoken, [file |-> file, duration |-> duration])
    /\ guessed' = (guessed \/ duration # Sum(file))

(* A sentence that fails is silence of a fixed duration. *)
Substitute ==
  \E file \in CreateSilenceAudio :
    /\ spoken' = Append(spoken, [file |-> file, duration |-> Silence])
    /\ guessed' = (guessed \/ Silence # Sum(file))

GenerateSentenceAudio ==
  /\ pc = "scenes" /\ Sentence <= Len(script[Scene])
  /\ \/ Speak
     \/ "speech" \in Faults /\ Substitute
  /\ UNCHANGED <<script, ffmpeg, sounds, lengths, captions, track, srt, pc>>

(* What is claimed for the sentences of the scene. *)
Durations == [i \in 1..Len(spoken) |-> spoken[i].duration]

(* Captions follow each other from the scene's offset on. *)
Timeline(offset) ==
  LET ends == Totals(Durations)
  IN [i \in 1..Len(spoken) |->
        [start |-> offset + ends[i - 1], end |-> offset + ends[i], scene |-> Scene]]

(* The scene's sound and its duration: the joined file's if that can be     *)
(* told, what was claimed for the sentences otherwise.                      *)
ConcatAudios ==
  LET claimed == Sum(Durations)
      of(j)   == IF j.joined
                 THEN {IF d > 0 THEN d ELSE claimed : d \in GetAudioDuration(j.sound)}
                 ELSE {claimed}
  IN UNION {{[sound |-> j.sound, duration |-> d] : d \in of(j)} :
              j \in Joined([i \in 1..Len(spoken) |-> spoken[i].file])}

(* A scene ends; the next one starts a padding later. *)
EndScene(audio, entries) ==
  /\ sounds' = Append(sounds, audio.sound)
  /\ lengths' = Append(lengths, audio.duration + Padding)
  /\ captions' = captions \o entries
  /\ spoken' = <<>>
  /\ pc' = IF Scene = Len(script) THEN "join" ELSE "scenes"
  /\ UNCHANGED <<script, ffmpeg, track, srt, guessed>>

(* Variants: the offset keeps its default, or counts a padding too many. *)
GenerateSceneAudio_NoOffset ==
  /\ pc = "scenes" /\ script[Scene] # <<>> /\ Len(spoken) = Len(script[Scene])
  /\ \E audio \in ConcatAudios : EndScene(audio, Timeline(0))

GenerateSceneAudio_Padded ==
  /\ pc = "scenes" /\ script[Scene] # <<>> /\ Len(spoken) = Len(script[Scene])
  /\ \E audio \in ConcatAudios : EndScene(audio, Timeline(Sum(lengths) + Padding))

GenerateSceneAudio ==
  /\ pc = "scenes" /\ script[Scene] # <<>> /\ Len(spoken) = Len(script[Scene])
  /\ \E audio \in ConcatAudios : EndScene(audio, Timeline(Sum(lengths)))

(* No narration: a placeholder, and only the padding. *)
CreateSilentResult ==
  /\ pc = "scenes" /\ script[Scene] = <<>>
  /\ EndScene([sound |-> <<>>, duration |-> 0], <<>>)

-----------------------------------------------------------------------------
(* The renderer. *)

(* The scenes' files make the track; the paddings are in none of them. *)
ConcatSceneAudios ==
  /\ pc = "join"
  /\ \E j \in Joined(sounds) : track' = j.sound
  /\ pc' = "subtitle"
  /\ UNCHANGED <<script, ffmpeg, spoken, sounds, lengths, captions, srt, guessed>>

(* Without captions every scene gets an equal share. *)
GenerateSubtitle ==
  /\ pc = "subtitle"
  /\ LET share == Sum(lengths) \div Len(script) IN
       srt' = IF captions # <<>> THEN captions
              ELSE [i \in 1..Len(script) |->
                      [start |-> (i - 1) * share, end |-> i * share, scene |-> i]]
  /\ pc' = "done"
  /\ UNCHANGED <<script, ffmpeg, spoken, sounds, lengths, captions, track, guessed>>

Next ==
  \/ GenerateSentenceAudio
  \/ GenerateSceneAudio
  \/ CreateSilentResult
  \/ ConcatSceneAudios
  \/ GenerateSubtitle

Spec == Init /\ [][Next]_vars

-----------------------------------------------------------------------------
(* Properties. *)

(* Durations were measured alike: all by FFmpeg, or all claimed. *)
Consistent == ffmpeg => ~guessed

(* Every sentence has a caption, whether it was spoken or not; the captions *)
(* come in the script's order, never overlap, and end within the video.     *)
CaptionsInOrder ==
  pc = "done" /\ Consistent =>
    /\ captions # <<>> =>
         [i \in 1..Len(captions) |-> captions[i].scene]
           = FlattenSeq([s \in 1..Len(script) |-> [k \in 1..Len(script[s]) |-> s]])
    /\ \A i \in 1..Len(srt) : srt[i].start < srt[i].end \/ Padding = 0
    /\ \A i \in 2..Len(srt) : srt[i - 1].end <= srt[i].start
    /\ srt[Len(srt)].end <= Sum(lengths)

(* When the n-th sound of the track is heard. *)
Heard(n) == Totals(track)[n - 1]

(* With every sentence in the track, a caption comes after its sound by the *)
(* paddings of the scenes before, no more and no less.                      *)
CaptionLag ==
  pc = "done" /\ ffmpeg /\ ~guessed /\ Len(track) = Len(captions) =>
    \A i \in 1..Len(captions) :
      captions[i].start = Heard(i) + Padding * (captions[i].scene - 1)

(* "The timeline in captions_json: exact timing sentence by sentence."      *)
CaptionsFollowSound ==
  pc = "done" /\ ffmpeg /\ ~guessed /\ Len(track) = Len(captions) =>
    \A i \in 1..Len(captions) : captions[i].start = Heard(i)
=============================================================================
