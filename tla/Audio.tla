-------------------------------- MODULE Audio --------------------------------
(***************************************************************************)
(* An AudioObject that records and one that plays what it recorded           *)
(* (AudioObject.cpp, and the properties of controls of type 1016 in           *)
(* callback.cpp).  The server is between them: it starts, stops and restarts  *)
(* both, sets DRM, and passes the sound on in its order, encrypted for each   *)
(* side that it set DRM for.                                                 *)
(*                                                                         *)
(* Samples are numbered as they are captured, and what comes out as something *)
(* else than it went in is Noise.  Codecs are external: the encoder picks the *)
(* size of each packet.  One channel is modelled; rates, bandwidths and the   *)
(* devices are left out.                                                     *)
(***************************************************************************)
EXTENDS AudioLength, Sequences, FiniteSets, SequencesExt

CONSTANTS
  Codec,       \* use_compression: "pcm", "speex" or "opus"
  FrameSize,   \* samples of 20 ms
  Blocks,      \* numbers of samples that the device delivers at once
  Sizes,       \* bytes of a packet
  MaxBuffers,  \* maxbuffers, 0 for no limit
  MaxSamples,  \* bound: samples captured
  MaxOrders    \* bound: what the server asks for

AudioAssumption ==
  /\ Codec \in {"pcm", "speex", "opus"} /\ FrameSize \in Nat \ {0}
  /\ Blocks \subseteq Nat \ {0} /\ Sizes \subseteq Nat \ {0}
  /\ MaxBuffers \in Nat /\ MaxSamples \in Nat /\ MaxOrders \in Nat

VARIABLES
  captured,   \* history: samples so far
  recording, encrypt,  \* stream and encrypt of the AudioObject that records
  propagation,         \* its samples that wait for a whole frame
  sent, lost,          \* history: samples in messages, and samples that never will be
  wire,       \* messages under way: sequences of packets
  playing, decrypt,    \* stream and decrypt of the AudioObject that plays
  audio_buf,  \* its decoded samples
  played,     \* history: what the device was given
  drm,        \* DRM of both
  distorted,  \* history: messages that were not heard as they were captured
  why,        \* history: what went wrong
  orders, crashed

recorder == <<captured, recording, encrypt, propagation, sent, lost>>
player == <<playing, decrypt, audio_buf, played, distorted, crashed>>
vars == <<recorder, player, wire, drm, why, orders>>

Noise == 0
Numbers(s) == {s[i] : i \in DOMAIN s}

-----------------------------------------------------------------------------
(* Recording *)

Packet(size, samples) == [size |-> size, samples |-> samples]

\* The frames of a sequence of samples: of 40 ms as long as there are that many (Opus).
Frames(samples) ==
  LET n == Len(samples)
      doubles == n \div (2 * FrameSize)
      single == IF n % (2 * FrameSize) >= FrameSize THEN 1 ELSE 0
      from(i) == (i - 1) * 2 * FrameSize + 1
      upto(i) == IF i <= doubles THEN i * 2 * FrameSize ELSE doubles * 2 * FrameSize + FrameSize
  IN [i \in 1..(doubles + single) |-> SubSeq(samples, from(i), upto(i))]

Rest(samples) == LET n == Len(samples) IN SubSeq(samples, n - (n % FrameSize) + 1, n)

\* A message goes out, unless it is to be encrypted and there is no key for it (Encrypt);
\* some samples were given up before.
Send(packets, given) ==
  LET samples == UNION {Numbers(packets[i].samples) : i \in DOMAIN packets} IN
  IF packets = <<>> THEN lost' = lost \cup given /\ UNCHANGED <<wire, sent>>
  ELSE IF drm /\ ~encrypt THEN lost' = lost \cup given \cup samples /\ UNCHANGED <<wire, sent>>
  ELSE wire' = Append(wire, packets) /\ sent' = sent \cup samples /\ lost' = lost \cup given

\* OpusBuffer2: what waited comes first, and what is no whole frame waits.  When opus_encode
\* fails, or the buffer is full, what was encoded goes out and all the rest is given up.
OpusBuffer2(block) ==
  LET all == propagation \o block
      frames == Frames(all)
  IN \E k \in 0..Len(frames) : \E sizes \in [1..k -> Sizes] :
       LET failed == k < Len(frames)
           rest == UNION {Numbers(frames[i]) : i \in (k + 1)..Len(frames)} \cup Numbers(Rest(all))
       IN /\ Send([i \in 1..k |-> Packet(sizes[i], frames[i])], IF failed THEN rest ELSE {})
          /\ propagation' = IF failed THEN <<>> ELSE Rest(all)
          /\ why' = IF failed THEN why \cup {"codec"} ELSE why

\* SpeexBuffer2: a block that does not complete a frame is forgotten with what waited.
SpeexBuffer2(block) ==
  LET all == propagation \o block
      n == Len(all) \div FrameSize
  IN IF Len(all) < FrameSize
       THEN /\ propagation' = <<>> /\ lost' = lost \cup Numbers(all) /\ why' = why \cup {"small"}
            /\ UNCHANGED <<wire, sent>>
       ELSE /\ Send(<<Packet(n, SubSeq(all, 1, n * FrameSize))>>, {})
            /\ propagation' = Rest(all)
            /\ UNCHANGED why

\* AudioInfo::writeData
Capture(n) ==
  LET block == [i \in 1..n |-> captured + i] IN
  /\ recording /\ captured + n <= MaxSamples
  /\ captured' = captured + n
  /\ CASE Codec = "opus" -> OpusBuffer2(block)
       [] Codec = "speex" -> SpeexBuffer2(block)
       [] Codec = "pcm" -> Send(<<Packet(n, block)>>, {}) /\ UNCHANGED <<propagation, why>>
  /\ UNCHANGED <<recording, encrypt, player, drm, orders>>

\* Property 1002 (callback.cpp): the key is made before Record, which stops what was active, and that forgets
\* the key.
Record ==
  /\ orders < MaxOrders /\ orders' = orders + 1
  /\ recording' = TRUE
  /\ encrypt' = (drm /\ ~recording)
  /\ why' = IF drm /\ recording THEN why \cup {"restarted"} ELSE why
  /\ UNCHANGED <<captured, propagation, sent, lost, player, wire, drm>>

\* Stop: samples that wait stay for the next recording.
StopRecording ==
  /\ recording /\ orders < MaxOrders /\ orders' = orders + 1
  /\ recording' = FALSE /\ encrypt' = FALSE
  /\ UNCHANGED <<captured, propagation, sent, lost, player, wire, drm, why>>

\* DRM is set for both, also while they are active.
SetDRM(on) ==
  /\ drm # on /\ orders < MaxOrders /\ orders' = orders + 1
  /\ drm' = on
  /\ why' = IF on /\ recording /\ ~encrypt THEN why \cup {"late"} ELSE why
  /\ UNCHANGED <<recorder, player, wire>>

-----------------------------------------------------------------------------
(* Playing *)

\* Packets up to which the lengths are read as they were written (OpusDeBuffer).
InStep(packets) == {i \in DOMAIN packets : \A j \in 1..i : LengthRead(packets[j].size) = packets[j].size}

\* A last packet of one byte is not looked at; one that lost a byte is another packet.
Decoded(packets) ==
  LET sound(i) == CASE i = Len(packets) /\ packets[i].size = 1 -> <<>>
                    [] Kept(packets[i].size) < packets[i].size ->
                         [k \in DOMAIN packets[i].samples |-> Noise]
                    [] OTHER -> packets[i].samples
  IN FlattenSeq([i \in 1..Cardinality(InStep(packets)) |-> sound(i)])

\* What the decoder makes of a message: noise or nothing of what is not in step, or
\* of what is still encrypted.
Outcomes(packets) ==
  CASE drm /\ ~decrypt -> IF Codec = "pcm" THEN {[i \in DOMAIN packets[1].samples |-> Noise]} ELSE {<<>>, <<Noise>>}
    [] ~(drm /\ ~decrypt) /\ Codec = "opus" ->
         IF InStep(packets) = DOMAIN packets THEN {Decoded(packets)}
         ELSE {Decoded(packets), Append(Decoded(packets), Noise)}
    [] OTHER -> {FlattenSeq([i \in DOMAIN packets |-> packets[i].samples])}

\* Samples of a message that count as one buffer: PCM counts bytes twice (AddBuffer).
Unit(sound) == IF Codec = "pcm" THEN 2 * Len(sound) ELSE Len(sound)

\* How a message was heard: which packets were not, and whether there was noise.
Heard(packets, sound) ==
  [secret |-> drm /\ ~decrypt, sizes |-> [i \in DOMAIN packets |-> packets[i].size],
   unheard |-> {i \in DOMAIN packets : Numbers(packets[i].samples) \cap Numbers(sound) = {}},
   noise |-> Noise \in Numbers(sound)]

\* AddBuffer: sound is added, or put in the place of what waits when that is too much.
AddBuffer ==
  /\ wire # <<>> /\ wire' = Tail(wire)
  /\ IF ~playing THEN UNCHANGED player
     ELSE \E sound \in Outcomes(Head(wire)) :
            /\ distorted' = distorted \cup
                 {h \in {Heard(Head(wire), sound)} : h.noise \/ h.unheard # {}}
            /\ IF MaxBuffers > 0 /\ sound = <<>> THEN crashed' = TRUE /\ UNCHANGED audio_buf
               ELSE /\ audio_buf' = IF MaxBuffers > 0 /\ Len(audio_buf) \div Unit(sound) > MaxBuffers
                                      THEN sound ELSE audio_buf \o sound
                    /\ UNCHANGED crashed
            /\ UNCHANGED <<playing, decrypt, played>>
  /\ UNCHANGED <<recorder, drm, why, orders>>

\* AudioInfo::readData, with silence when there is nothing.
ReadData(n) ==
  LET m == IF n < Len(audio_buf) THEN n ELSE Len(audio_buf) IN
  /\ playing /\ m > 0
  /\ played' = played \o SubSeq(audio_buf, 1, m)
  /\ audio_buf' = SubSeq(audio_buf, m + 1, Len(audio_buf))
  /\ UNCHANGED <<playing, decrypt, distorted, crashed, recorder, wire, drm, why, orders>>

\* Property 1004: as for Record.
Play ==
  /\ orders < MaxOrders /\ orders' = orders + 1
  /\ playing' = TRUE
  /\ decrypt' = (drm /\ ~playing)
  /\ why' = IF drm /\ playing THEN why \cup {"restarted"} ELSE why
  /\ UNCHANGED <<audio_buf, played, distorted, crashed, recorder, wire, drm>>

StopPlaying ==
  /\ playing /\ orders < MaxOrders /\ orders' = orders + 1
  /\ playing' = FALSE /\ decrypt' = FALSE
  /\ UNCHANGED <<audio_buf, played, distorted, crashed, recorder, wire, drm, why>>

ClearBuffer ==
  /\ audio_buf # <<>> /\ orders < MaxOrders /\ orders' = orders + 1
  /\ audio_buf' = <<>>
  /\ UNCHANGED <<playing, decrypt, played, distorted, crashed, recorder, wire, drm, why>>

-----------------------------------------------------------------------------
Init ==
  /\ captured = 0 /\ recording = FALSE /\ encrypt = FALSE /\ propagation = <<>> /\ sent = {} /\ lost = {}
  /\ wire = <<>> /\ playing = FALSE /\ decrypt = FALSE /\ audio_buf = <<>> /\ played = <<>>
  /\ drm \in BOOLEAN /\ distorted = {} /\ why = {} /\ orders = 0 /\ crashed = FALSE

Next ==
  /\ ~crashed
  /\ \/ Record \/ StopRecording \/ Play \/ StopPlaying \/ ClearBuffer \/ AddBuffer
     \/ \E n \in Blocks : Capture(n) \/ ReadData(n)
     \/ \E on \in BOOLEAN : SetDRM(on)

Spec == Init /\ [][Next]_vars

-----------------------------------------------------------------------------
(* What a reader may rely on *)

TypeOK ==
  /\ captured \in 0..MaxSamples /\ orders \in 0..MaxOrders
  /\ {recording, encrypt, playing, decrypt, drm, crashed} \subseteq BOOLEAN
  /\ Numbers(propagation) \cup sent \cup lost \subseteq 1..captured
  /\ Numbers(audio_buf) \cup Numbers(played) \subseteq 0..captured
  /\ why \subseteq {"restarted", "late", "small", "codec"}

\* A captured sample is in one message, or waits, or was given up: with a block too small for
\* a frame, when the encoder failed, or because there was no key after the recording was
\* restarted or DRM was set (OpusBuffer2, SpeexBuffer2, Encrypt, Record).
SamplesAreAccounted ==
  /\ sent \cup lost \cup Numbers(propagation) = 1..captured
  /\ sent \cap lost = {} /\ (sent \cup lost) \cap Numbers(propagation) = {}
  /\ lost # {} => why # {}
  /\ Len(propagation) < FrameSize

\* Sound is played in the order in which it was captured, none of it twice, whatever is
\* restarted, cleared or dropped (AddBuffer, AudioInfo::readData).
PlayedInOrder ==
  LET sound == SelectSeq(played \o audio_buf, LAMBDA s : s # Noise) IN
  \A i, j \in DOMAIN sound : i < j => sound[i] < sound[j]

\* Noise is heard only of a message that could not be decrypted or that has a packet longer
\* than ShortLimit, which loses its last byte before it is sent (OpusBuffer2).  A packet is not
\* heard only if it became noise so, if it or one before it has a length that cannot be
\* written, if it has one byte and is the last, or if the message could not be
\* decrypted; and a message without any sound divides by zero when there is a limit (OpusDeBuffer).
DistortionIsExplained ==
  /\ \A h \in distorted :
       /\ h.noise => h.secret \/ (Codec = "opus" /\ \E i \in DOMAIN h.sizes : h.sizes[i] > ShortLimit)
       /\ \A i \in h.unheard :
            \/ h.secret
            \/ h.noise /\ h.sizes[i] > ShortLimit
            \/ \E j \in 1..i : h.sizes[j] > LengthLimit
            \/ i = Len(h.sizes) /\ h.sizes[i] = 1
  /\ crashed => MaxBuffers > 0 /\ \E h \in distorted : h.unheard = DOMAIN h.sizes /\ ~h.noise

\* All of it: where the sound went and why (AudioObject).
Sound == TypeOK /\ SamplesAreAccounted /\ PlayedInOrder /\ DistortionIsExplained
=============================================================================
