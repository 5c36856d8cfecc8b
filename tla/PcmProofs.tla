------------------------------- MODULE PcmProofs -------------------------------
(***************************************************************************)
(* Theorems about the counting of samples, for any rates, channel counts,  *)
(* chunk sizes and lengths, and whichever way the doubles are rounded.     *)
(* Both rest on one characterisation of the number of output frames: they  *)
(* last as long as the input, and at most one frame longer.                *)
(***************************************************************************)
EXTENDS Pcm, TLAPS

-----------------------------------------------------------------------------
(* Division. The provers find a quotient by the two bounds on it.          *)
LEMMA DivBounds ==
  ASSUME NEW n \in Int, NEW d \in Nat \ {0}
  PROVE  /\ n \div d \in Int
         /\ d * (n \div d) <= n /\ n < d * (n \div d) + d
         /\ n % d = n - d * (n \div d)
  BY SMT

LEMMA Scaled ==
  ASSUME NEW d \in Nat \ {0}, NEW a \in Int, NEW b \in Int, d * a < d * b + d
  PROVE  a <= b
<1> SUFFICES ASSUME a > b PROVE FALSE
  OBVIOUS
<1>1. a - b >= 1
  OBVIOUS
<1>2. d * (a - b) >= d
  BY <1>1
<1> QED BY <1>2

LEMMA QuotientUnique ==
  ASSUME NEW n \in Int, NEW d \in Nat \ {0}, NEW q \in Int, d * q <= n, n < d * q + d
  PROVE  n \div d = q
<1> DEFINE r == n \div d
<1>1. r \in Int /\ d * r <= n /\ n < d * r + d
  BY DivBounds
<1> HIDE DEF r
<1>2. d * r \in Int /\ d * q \in Int
  BY <1>1
<1>3. d * r < d * q + d /\ d * q < d * r + d
  BY <1>1, <1>2
<1>4. r <= q /\ q <= r
  BY <1>1, <1>3, Scaled
<1> QED BY <1>1, <1>4 DEF r

LEMMA MinPair ==
  ASSUME NEW a \in Int, NEW b \in Int
  PROVE  Min({a, b}) = IF a <= b THEN a ELSE b
BY DEF Min

-----------------------------------------------------------------------------
(* The resampler.                                                          *)
Config ==
  /\ path \in {"capture", "playback"}
  /\ in \in Nat \ {0} /\ out \in Nat \ {0} /\ channels \in Nat \ {0} /\ size \in Nat \ {0}

(* process returns frames that last as long as what it was given, and at   *)
(* most one frame longer.                                                  *)
LEMMA OutputFramesBounds ==
  ASSUME Config, NEW n \in Nat, NEW f \in OutputFrames(n)
  PROVE  f \in Nat /\ n * out <= in * f /\ in * f <= n * out + in
<1> USE DEF Config
<1> DEFINE x == n * out + in - 1
           least == x \div in
           q == (n * out) \div in
<1>1. n * out \in Nat /\ x \in Nat
  OBVIOUS
<1>2. least \in Int /\ in * least <= x /\ x < in * least + in
  BY <1>1, DivBounds
<1>3. q \in Int /\ in * q <= n * out
  BY <1>1, DivBounds
<1>4. f \in Int /\ f >= least /\ (f = least \/ f <= q + 1)
  BY <1>2, <1>3 DEF OutputFrames, Ceil
<1> HIDE DEF least, q
<1>5. in * f >= in * least
  <2>1. in * (f - least) >= 0
    BY <1>2, <1>4
  <2> QED BY <1>2, <1>4, <2>1
<1>6. n * out <= in * f
  BY <1>1, <1>2, <1>4, <1>5
<1>7. in * f <= n * out + in
  <2>1. CASE f = least
    BY <1>1, <1>2, <2>1
  <2>2. CASE f <= q + 1
    <3>1. in * (q + 1 - f) >= 0
      BY <1>3, <1>4, <2>2
    <3> QED BY <1>1, <1>3, <1>4, <3>1
  <2> QED BY <1>4, <2>1, <2>2
<1>8. f \in Nat
  <2>1. in * 0 < in * f + in
    BY <1>1, <1>4, <1>6
  <2> QED BY <1>4, <2>1, Scaled
<1> QED BY <1>6, <1>7, <1>8

(* The places a frame may be taken from are those of its time.             *)
LEMMA SourcesOfTime ==
  ASSUME Config, NEW i \in Nat, NEW src \in Sources(i)
  PROVE  /\ src = [idx |-> src.idx, frac |-> src.frac]
         /\ src.idx \in Nat /\ src.frac \in 0..out
         /\ src.idx * out + src.frac = i * in
<1> USE DEF Config
<1> DEFINE t == i * in
           q == t \div out
           r == t % out
<1>1. t \in Nat /\ q \in Int /\ out * q <= t /\ t < out * q + out /\ r = t - out * q
  BY DivBounds
<1>2. i > 0 => t > 0
  OBVIOUS
<1>3. \/ src = [idx |-> q, frac |-> r]
      \/ src = [idx |-> q - 1, frac |-> out] /\ r = 0 /\ i > 0
  BY DEF Sources
<1> HIDE DEF t, q, r
<1>4. q \in Nat
  <2>1. out * 0 < out * q + out
    BY <1>1
  <2> QED BY <1>1, <2>1, Scaled
<1>5. CASE src = [idx |-> q, frac |-> r]
  BY <1>1, <1>4, <1>5 DEF t
<1>6. CASE src = [idx |-> q - 1, frac |-> out] /\ r = 0 /\ i > 0
  <2>1. q # 0
    BY <1>1, <1>2, <1>6
  <2>2. (q - 1) * out + out = out * q
    BY <1>4
  <2> QED BY <1>1, <1>4, <1>6, <2>1, <2>2 DEF t
<1> QED BY <1>3, <1>5, <1>6

(* The frames an output frame is made of exist, and its time is its own.   *)
LEMMA FrameFollowsReference ==
  ASSUME Config, NEW n \in Nat, n >= 2, NEW i \in Nat, NEW at \in Sources(i)
  PROVE  LET src == Resampled(n, at)
         IN  /\ src.idx * out + src.frac = Min({i * in, (n - 1) * out})
             /\ Reads(n, src) \subseteq 0..(n - 1)
<1> USE DEF Config
<1> DEFINE t == i * in
           q == at.idx
           r == at.frac
<1>1. at = [idx |-> q, frac |-> r] /\ q \in Nat /\ r \in 0..out /\ q * out + r = t /\ t \in Int
  BY SourcesOfTime
<1> HIDE DEF t, q, r
<1>2. Min({t, (n - 1) * out}) = IF t <= (n - 1) * out THEN t ELSE (n - 1) * out
  BY <1>1, MinPair
<1>3. CASE q >= n - 1
  <2>1. (n - 1) * out <= t
    <3>1. out * (q - (n - 1)) >= 0
      BY <1>1, <1>3
    <3> QED BY <1>1, <3>1
  <2>2. Min({t, (n - 1) * out}) = (n - 1) * out
    BY <1>1, <1>2, <2>1
  <2>3. CASE out > in
    <3>1. Resampled(n, at) = [idx |-> n - 2, frac |-> out]
      BY <1>1, <1>3, <2>3 DEF Resampled, Upsampled
    <3>2. (n - 2) * out + out = (n - 1) * out
      OBVIOUS
    <3>3. Reads(n, Resampled(n, at)) = {n - 2, (n - 2) + 1}
      BY <3>1, <2>3 DEF Reads
    <3> QED BY <2>2, <3>1, <3>2, <3>3 DEF t
  <2>4. CASE out <= in
    <3>1. Resampled(n, at) = [idx |-> n - 1, frac |-> 0]
      BY <1>1, <1>3, <2>4 DEF Resampled, Downsampled
    <3>2. Reads(n, Resampled(n, at)) = {n - 1}
      BY <3>1, <2>4 DEF Reads
    <3> QED BY <2>2, <3>1, <3>2 DEF t
  <2> QED BY <2>3, <2>4
<1>4. CASE q < n - 1
  <2>1. Resampled(n, at) = [idx |-> q, frac |-> r]
    BY <1>1, <1>4 DEF Resampled, Upsampled, Downsampled
  <2>2. t <= (n - 1) * out
    <3>1. out * ((n - 1) - (q + 1)) >= 0
      BY <1>1, <1>4
    <3> QED BY <1>1, <3>1
  <2>3. Reads(n, Resampled(n, at)) \subseteq {q, q + 1}
    BY <2>1 DEF Reads
  <2>4. Min({t, (n - 1) * out}) = q * out + r
    BY <1>1, <1>2, <2>2
  <2>5. Reads(n, Resampled(n, at)) \subseteq 0..(n - 1)
    BY <1>1, <1>4, <2>3
  <2> QED BY <2>1, <2>4, <2>5 DEF t
<1> QED BY <1>1, <1>3, <1>4

-----------------------------------------------------------------------------
(* The invariant: what each path has counted so far.                       *)
Counts ==
  /\ fed \in Nat /\ held \in Nat /\ last \in Nat
  /\ made \in Nat /\ chunks \in Nat /\ played \in Nat

Frames == (chunks * size) \div channels

CaptureInv ==
  /\ fed = chunks * size + held
  /\ size % channels = 0 => made * in - Frames * out \in 0..(chunks * in)

PlaybackInv ==
  /\ last = 0 => made = 0 /\ chunks = 0
  /\ last > 0 => made \in OutputFrames(fed)
  /\ chunks * size <= made => played = chunks * size
  /\ chunks * size >= made => played = made

PcmInv ==
  /\ Config /\ Counts
  /\ path = "capture" => CaptureInv
  /\ path = "playback" => PlaybackInv

LEMMA WholeFrames ==
  ASSUME Config, size % channels = 0, NEW k \in Nat
  PROVE  size \div channels \in Nat /\ (k * size) \div channels = k * (size \div channels)
<1> USE DEF Config
<1> DEFINE m == size \div channels
<1>1. m \in Int /\ size = channels * m
  BY DivBounds
<1> HIDE DEF m
<1>2. m \in Nat
  <2>1. channels * 0 < channels * m + channels
    BY <1>1
  <2> QED BY <1>1, <2>1, Scaled
<1>3. k * size = channels * (k * m) /\ k * m \in Int
  BY <1>1, <1>2
<1>4. (k * size) \div channels = k * m
  BY <1>3, QuotientUnique
<1> QED BY <1>2, <1>4 DEF m

LEMMA ChunkAdds ==
  ASSUME PcmInv, path = "capture", SendChunk
  PROVE  PcmInv'
<1> USE DEF PcmInv, Counts
<1>1. Config' /\ path' = "capture"
  BY DEF SendChunk, config, Config
<1> DEFINE m == size \div channels
<1>2. m \in Nat
  <2>1. channels * 0 < channels * (size \div channels) + channels /\ size \div channels \in Int
    BY DivBounds DEF Config
  <2> QED BY <2>1, Scaled DEF Config
<1>3. PICK y \in OutputFrames(m) : made' = made + y
  BY DEF SendChunk
<1>4. /\ held' = held - size /\ chunks' = chunks + 1 /\ fed' = fed /\ held >= size
      /\ last' = m /\ played' = played
      /\ size' = size /\ channels' = channels /\ in' = in /\ out' = out
  BY DEF SendChunk, config
<1>5. y \in Nat /\ m * out <= in * y /\ in * y <= m * out + in
  BY <1>2, OutputFramesBounds
<1>6. Counts'
  BY <1>2, <1>3, <1>4, <1>5 DEF Config
<1>7. fed' = chunks' * size' + held'
  <2>1. (chunks + 1) * size = chunks * size + size /\ chunks * size \in Nat
    BY DEF Config
  <2> QED BY <1>4, <2>1 DEF CaptureInv, Config
<1>8. ASSUME size % channels = 0
      PROVE  made' * in' - Frames' * out' \in 0..(chunks' * in')
  <2>1. Frames = chunks * m /\ Frames' = (chunks + 1) * m
    BY <1>4, <1>8, WholeFrames DEF Frames
  <2>2. made * in - (chunks * m) * out \in 0..(chunks * in)
    BY <1>8, <2>1 DEF CaptureInv
  <2> HIDE DEF m
  <2>3. /\ (made + y) * in = made * in + in * y
        /\ ((chunks + 1) * m) * out = (chunks * m) * out + m * out
        /\ (chunks + 1) * in = chunks * in + in
    BY <1>2, <1>5 DEF Config
  <2>4. /\ made * in \in Int /\ (chunks * m) * out \in Int /\ chunks * in \in Int
        /\ in * y \in Int /\ m * out \in Int /\ in \in Int
    BY <1>2, <1>5 DEF Config
  <2>5. (made + y) * in - ((chunks + 1) * m) * out \in 0..((chunks + 1) * in)
    BY <1>5, <2>2, <2>3, <2>4
  <2> QED BY <1>3, <1>4, <2>1, <2>5
<1> QED BY <1>1, <1>4, <1>6, <1>7, <1>8 DEF CaptureInv

LEMMA WriteAdds ==
  ASSUME PcmInv, WriteChunk
  PROVE  PcmInv'
<1> USE DEF PcmInv, Counts
<1>1. Config' /\ path' = "playback" /\ path = "playback"
  BY DEF WriteChunk, config, Config
<1> DEFINE c == chunks * size
<1>2. /\ c \in Nat /\ c < made /\ played = c
      /\ (chunks + 1) * size = c + size
  BY <1>1 DEF WriteChunk, PlaybackInv, Config
<1>3. Min({size, made - c}) = IF size <= made - c THEN size ELSE made - c
  BY <1>2, MinPair DEF Config
<1>4. /\ played' = played + Min({size, made - c}) /\ chunks' = chunks + 1 /\ size' = size
      /\ UNCHANGED <<fed, held, last, made>> /\ OutputFrames(fed)' = OutputFrames(fed)
  BY DEF WriteChunk, config, OutputFrames, Ceil, Rounds
<1> HIDE DEF c
<1>5. chunks' * size' = c + size
  BY <1>2, <1>4
<1>6. PlaybackInv'
  BY <1>1, <1>2, <1>3, <1>4, <1>5 DEF PlaybackInv, Config
<1>7. Counts'
  BY <1>2, <1>3, <1>4 DEF Config
<1> QED BY <1>1, <1>6, <1>7

LEMMA PcmInvStep ==
  ASSUME PcmInv, [Next]_vars
  PROVE  PcmInv'
<1> USE DEF PcmInv, Counts
<1>0. ASSUME Forget PROVE PcmInv'
  <2>1. Config' /\ Counts' /\ path' = path /\ chunks' = 0 /\ made' = 0 /\ last' = 0
        /\ fed' = 0 /\ held' = 0 /\ played' = 0
    BY <1>0 DEF Forget, config, Config
  <2>2. size' = size /\ channels' = channels /\ in' = in /\ out' = out
    BY <1>0 DEF Forget, config
  <2>3. 0 * size = 0 /\ 0 \div channels = 0
    BY QuotientUnique DEF Config
  <2>4. chunks' * size' = 0 /\ Frames' = 0
    BY <2>1, <2>2, <2>3 DEF Frames
  <2>5. made' * in' - Frames' * out' = 0 /\ chunks' * in' = 0
    BY <2>1, <2>2, <2>4 DEF Config
  <2> QED BY <2>1, <2>2, <2>4, <2>5 DEF CaptureInv, PlaybackInv
<1>1. ASSUME NEW n \in 1..MaxFrames, OnAudioData(n)
      PROVE  PcmInv'
  <2>1. n * channels \in Nat
    BY <1>1, PcmAssumption DEF PcmAssumption, Config
  <2> QED BY <1>1, <2>1 DEF OnAudioData, config, Config, CaptureInv, Frames
<1>2. ASSUME NEW n \in 1..MaxFrames, TtsAudio(n)
      PROVE  PcmInv'
  BY <1>2, PcmAssumption DEF PcmAssumption, TtsAudio, config, Config, PlaybackInv
<1>3. CASE SendChunk
  BY <1>3, ChunkAdds DEF SendChunk
<1>4. CASE StartRound \/ Answered
  BY <1>0, <1>4 DEF StartRound, Answered
<1>5. CASE Play
  <2>1. made' \in Nat /\ made' \in OutputFrames(fed) /\ OutputFrames(fed)' = OutputFrames(fed)
    BY <1>5, OutputFramesBounds DEF Play, config, OutputFrames, Ceil, Rounds
  <2>2. chunks = 0 /\ chunks * size = 0 /\ played = 0
    BY <1>5 DEF Play, PlaybackInv, Config
  <2> QED BY <1>5, <2>1, <2>2 DEF Play, config, Config, PlaybackInv
<1>6. CASE WriteChunk
  BY <1>6, WriteAdds
<1>7. CASE UNCHANGED vars
  BY <1>7 DEF vars, config, Config, CaptureInv, PlaybackInv, Frames, OutputFrames,
     Ceil, Rounds
<1> QED BY <1>1, <1>2, <1>3, <1>4, <1>5, <1>6, <1>7 DEF Next

LEMMA PcmInvariant == Spec => []PcmInv
<1>1. Init => PcmInv
  <2> SUFFICES ASSUME Init PROVE PcmInv
    OBVIOUS
  <2>1. Config /\ Counts
    BY PcmAssumption DEF PcmAssumption, Init, Fresh, Config, Counts
  <2>2. chunks * size = 0 /\ made = 0 /\ fed = 0 /\ held = 0 /\ played = 0 /\ chunks = 0 /\ last = 0
    BY <2>1 DEF Init, Fresh, Config
  <2>3. Frames = 0
    <3>1. 0 \div channels = 0
      BY <2>1, QuotientUnique DEF Config
    <3> QED BY <2>2, <3>1 DEF Frames
  <2>4. made * in - Frames * out = 0 /\ chunks * in = 0
    BY <2>1, <2>2, <2>3 DEF Config
  <2> QED BY <2>1, <2>2, <2>3, <2>4 DEF PcmInv, CaptureInv, PlaybackInv
<1>2. PcmInv /\ [Next]_vars => PcmInv'
  BY PcmInvStep
<1> QED BY <1>1, <1>2, PTL DEF Spec

(* Resampling follows the reference for any rates and any length of two    *)
(* frames or more: every output frame is interpolated at its own time,     *)
(* from frames that exist.                                                 *)
THEOREM PcmResampleFollowsReference == Spec => []ResampleFollowsReference
<1>1. PcmInv => ResampleFollowsReference
  <2> SUFFICES ASSUME PcmInv, last >= 2, NEW frames \in OutputFrames(last),
                      NEW i \in 0..(frames - 1), NEW at \in Sources(i)
               PROVE  LET src == Resampled(last, at)
                          end == (last - 1) * out
                      IN  /\ src.idx * out + src.frac = Min({i * in, end})
                          /\ Reads(last, src) \subseteq 0..(last - 1)
    BY DEF ResampleFollowsReference
  <2>1. Config /\ last \in Nat /\ frames \in Nat
    BY OutputFramesBounds DEF PcmInv, Counts
  <2>2. i \in Nat
    BY <2>1
  <2> QED BY <2>1, <2>2, FrameFollowsReference
<1> QED BY <1>1, PcmInvariant, PTL

(* Capture and playback lose and repeat nothing and last as long as their  *)
(* input, with at most a frame more a chunk or an answer, whatever the     *)
(* rates, the sizes, the rounding of the ratio and the ways the audio is   *)
(* cut into callbacks and messages.                                        *)
THEOREM PcmSamplesAddUp == Spec => []SamplesAddUp
<1>1. PcmInv => SamplesAddUp
  <2> SUFFICES ASSUME PcmInv PROVE SamplesAddUp
    OBVIOUS
  <2>1. CASE path = "capture"
    BY <2>1 DEF PcmInv, CaptureInv, Frames, SamplesAddUp
  <2>2. CASE path = "playback"
    <3>1. played <= made
      BY <2>2 DEF PcmInv, Counts, Config, PlaybackInv
    <3>2. ASSUME Written
          PROVE  played = made /\ made * in - fed * out \in 0..in
      <4>1. played = made /\ made \in OutputFrames(fed)
        BY <2>2, <3>2 DEF Written, PcmInv, Counts, Config, PlaybackInv
      <4>2. fed * out <= in * made /\ in * made <= fed * out + in
        BY <4>1, OutputFramesBounds DEF PcmInv, Counts
      <4>3. in * made = made * in
        BY DEF PcmInv, Counts, Config
      <4> QED BY <4>1, <4>2, <4>3 DEF PcmInv, Counts, Config
    <3> QED BY <2>2, <3>1, <3>2 DEF SamplesAddUp
  <2> QED BY <2>1, <2>2 DEF PcmInv, Config
<1> QED BY <1>1, PcmInvariant, PTL
================================================================================
