--------------------------------- MODULE Pcm ---------------------------------
(***************************************************************************)
(* The counting of samples on the two paths of the voice program: from the *)
(* microphone through the chunks of AudioCapture (spacemit_audio.cpp) and  *)
(* the linear resampler (resampler.cpp), a round at a time; and from the   *)
(* speech buffer through the resampler to the player, an answer at a time  *)
(* (voice_chat.cpp). The paths share nothing, so a behaviour follows one.  *)
(* Sample values are left out: of an output frame the model keeps which    *)
(* input frames it is made of.                                             *)
(*                                                                         *)
(* The resampler calculates in doubles. Where the exact result is a whole  *)
(* number, the calculated one may lie a little beside it and ceil or the   *)
(* cast to an index fall on either side: there the model has a choice.     *)
(* Elsewhere the rounding is smaller than the distance to a whole number.  *)
(***************************************************************************)
EXTENDS FiniteSetsExt, Integers

CONSTANTS
  Rates,      \* sample rates, in a common unit
  Channels,   \* channel counts of the microphone
  Sizes,      \* chunks: samples of the capture, frames of the player
  MaxFrames   \* bound: frames of a round or an answer

ASSUME PcmAssumption ==
  /\ Rates \subseteq Nat \ {0} /\ Channels \subseteq Nat \ {0}
  /\ Sizes \subseteq Nat \ {0} /\ MaxFrames \in Nat

VARIABLES
  path, in, out, channels, size,   \* the configuration
  fed,      \* capture: samples delivered; playback: frames in g_tts_buf
  held,     \* capture: samples in the accumulation buffer
  last,     \* frames of the last resampling, 0 before the first
  made,     \* frames the resampler has returned
  chunks,   \* chunks sent or written
  played    \* playback: frames written

config == <<path, in, out, channels, size>>
vars == <<config, fed, held, last, made, chunks, played>>

Fresh ==
  fed = 0 /\ held = 0 /\ last = 0 /\ made = 0 /\ chunks = 0 /\ played = 0
Forget ==
  /\ fed' = 0 /\ held' = 0 /\ last' = 0 /\ made' = 0 /\ chunks' = 0 /\ played' = 0
  /\ UNCHANGED config

Init ==
  /\ path \in {"capture", "playback"}
  /\ in \in Rates /\ out \in Rates /\ size \in Sizes
  /\ channels \in Channels
  /\ Fresh

-----------------------------------------------------------------------------
(* The resampler.                                                          *)
Ceil(n, d) == (n + d - 1) \div d

(* ratio_ is out / in, which is certainly exact when it is a whole number. *)
Rounds == out % in # 0

OutputFrames_Floor(n) == {(n * out) \div in}   \* fault: rounds down

(* process: a copy for equal rates, else std::ceil(num_frames * ratio_):   *)
(* of 147 frames at 44100 it makes 161 at 48000, not 160.                  *)
OutputFrames(n) ==
  LET least == Ceil(n * out, in)
  IN  least..(IF Rounds /\ n > 0 THEN (n * out) \div in + 1 ELSE least)

(* The position i / ratio_ between two input frames, as the index of the   *)
(* left one and the fraction times `out`. A whole position rounded down is *)
(* the right end of the pair before.                                       *)
Sources(i) ==
  LET at == i * in
  IN  {[idx |-> at \div out, frac |-> at % out]} \cup
      {src \in {[idx |-> (at \div out) - 1, frac |-> out]} : Rounds /\ at % out = 0 /\ i > 0}

Upsampled_LastFrame(n, src) ==   \* fault: clamps as linearDownsample does
  IF src.idx >= n - 1 THEN [idx |-> n - 1, frac |-> 0] ELSE src

(* linearUpsample and linearDownsample: past the last pair of frames the   *)
(* one takes the right end of that pair, the other the last frame.         *)
Upsampled(n, src) ==
  IF src.idx >= n - 1 THEN [idx |-> n - 2, frac |-> out] ELSE src

Downsampled(n, src) ==
  IF src.idx >= n - 1 THEN [idx |-> n - 1, frac |-> 0] ELSE src

(* How the program chooses the method (voice_chat.cpp).                    *)
Resampled(n, src) == IF out > in THEN Upsampled(n, src) ELSE Downsampled(n, src)

(* The input frames a frame at such a place is computed from.              *)
(* linearDownsample copies the last frame; linearUpsample reads the pair   *)
(* even then.                                                              *)
Reads(n, src) ==
  IF out <= in /\ src.idx = n - 1 THEN {src.idx} ELSE {src.idx, src.idx + 1}

-----------------------------------------------------------------------------
(* The capture: bytes go to the end of the buffer, full chunks leave at    *)
(* its front before the callback returns.                                  *)
OnAudioData(frames) ==
  /\ path = "capture" /\ held < size
  /\ fed + frames * channels <= MaxFrames * channels
  /\ fed' = fed + frames * channels
  /\ held' = held + frames * channels
  /\ UNCHANGED <<config, last, made, chunks, played>>

(* A chunk's whole frames are mixed to one channel and resampled by        *)
(* themselves.                                                             *)
SendChunk ==
  /\ path = "capture" /\ held >= size
  /\ held' = held - size /\ chunks' = chunks + 1
  /\ last' = size \div channels
  /\ \E frames \in OutputFrames(last') : made' = made + frames
  /\ UNCHANGED <<config, fed, played>>

(* AudioCapture::Start of the next round empties the buffer, whatever the  *)
(* last round left in it.                                                  *)
StartRound ==
  /\ path = "capture" /\ held < size /\ fed > 0 /\ Forget

-----------------------------------------------------------------------------
(* The playback: speech is collected, resampled at once and written in     *)
(* chunks, the last of which is what remains.                              *)
TtsAudio(frames) ==
  /\ path = "playback" /\ last = 0 /\ fed + frames <= MaxFrames
  /\ fed' = fed + frames
  /\ UNCHANGED <<config, held, last, made, chunks, played>>

Play ==
  /\ path = "playback" /\ last = 0 /\ fed > 0
  /\ last' = fed /\ made' \in OutputFrames(fed)
  /\ UNCHANGED <<config, fed, held, chunks, played>>

WriteChunk ==
  /\ path = "playback" /\ chunks * size < made
  /\ played' = played + Min({size, made - chunks * size})
  /\ chunks' = chunks + 1
  /\ UNCHANGED <<config, fed, held, last, made>>

Written == path = "playback" /\ last > 0 /\ chunks * size >= made

Answered == Written /\ Forget

Next ==
  \/ \E n \in 1..MaxFrames : OnAudioData(n) \/ TtsAudio(n)
  \/ SendChunk \/ StartRound \/ Play \/ WriteChunk \/ Answered

Spec == Init /\ [][Next]_vars

-----------------------------------------------------------------------------
(* Every output frame of a resampling (linearUpsample, linearDownsample)   *)
(* is interpolated at its own time in the input, or at the last frame when *)
(* that time is past it, from frames that exist. Two frames at least: a    *)
(* single one has no pair to interpolate between, and linearUpsample reads *)
(* outside the input then.                                                 *)
ResampleFollowsReference ==
  last >= 2 /\ in # out =>
    \A frames \in OutputFrames(last) : \A i \in 0..(frames - 1) : \A at \in Sources(i) :
      LET src == Resampled(last, at)
          end == (last - 1) * out
      IN  /\ src.idx * out + src.frac = Min({i * in, end})
          /\ Reads(last, src) \subseteq 0..(last - 1)

(* The pieces make up the whole. However PortAudio cuts the audio into     *)
(* callbacks of onAudioData, no sample is lost or sent twice within a      *)
(* round, and resampling chunk by chunk (send_capture_chunk) gives each    *)
(* chunk the time its frames took, and at most one frame more; this needs  *)
(* chunks of whole frames: one that ends inside a frame loses the rest of  *)
(* it and starts the next chunk at the wrong channel. An answer is played  *)
(* whole and nothing beyond it (play_tts_buffer), and lasts as long as the *)
(* speech received, and at most one frame more. The frame more is a whole  *)
(* one where ratio_ is rounded up, and not only its part.                  *)
SamplesAddUp ==
  /\ path = "capture" =>
       /\ fed = chunks * size + held
       /\ size % channels = 0 =>
            made * in - ((chunks * size) \div channels) * out \in 0..(chunks * in)
  /\ path = "playback" =>
       /\ played <= made
       /\ Written => played = made /\ made * in - fed * out \in 0..in
=============================================================================
