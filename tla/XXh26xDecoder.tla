--------------------------- MODULE XXh26xDecoder ---------------------------
(***************************************************************************)
(* The hardware decoder of Objective-C/AV/XXh26xDecoder.m: parameter sets  *)
(* of a packet make a session of VideoToolbox, the first slice of a packet *)
(* is decoded in it, and decodeData returns the picture in the same call.   *)
(*                                                                         *)
(* A step is one call of decodeData, or one of the world around it: the    *)
(* sender's stream with new parameter sets and lost packets, and a session *)
(* that the system takes away.  A packet is the set of its nalu types with *)
(* the version of their parameter sets and the number of the picture.      *)
(***************************************************************************)
EXTENDS Integers

CONSTANTS
  H264,         \* h264 has no VPS
  MaxPicture,   \* bound: pictures sent
  MaxVersion    \* bound: versions of the parameter sets

VARIABLES
  isInited, vps, sps, pps,   \* versions, or None
  description, session,      \* versions they were made from, or None
  pixel,                     \* _pixelBufferRef: the picture last decoded
  result,                    \* what decodeData returned in this step
  given,                     \* the picture of the packet it was given
  version, picture,          \* the sender: parameter sets in use, pictures sent
  invalid                    \* the system took the session away

decoder == <<isInited, vps, sps, pps, description, session, pixel>>
vars == <<decoder, result, given, version, picture, invalid>>

None == 0

Init ==
  /\ isInited = FALSE /\ vps = None /\ sps = None /\ pps = None
  /\ description = None /\ session = None /\ pixel = None
  /\ result = None /\ given = None
  /\ version = 1 /\ picture = 0 /\ invalid = FALSE

(***************************************************************************)
(* The stream                                                              *)
(***************************************************************************)

Sets == {"SPS", "PPS"} \cup (IF H264 THEN {} ELSE {"VPS"})
KeyPacket == Sets \cup {"IFrame"}

\* What the sender makes: a key frame with its parameter sets, a frame alone, and
\* what is left of either when a nalu was lost.
Packet == {KeyPacket, Sets, {"SPS", "IFrame"}, {"IFrame"}, {"PFrame"}, {}}

\* The encoder is made again with another format.
newVersion ==
  /\ version < MaxVersion
  /\ version' = version + 1
  /\ UNCHANGED <<decoder, result, given, picture, invalid>>

\* The application goes to the background: the session is taken away.
invalidate ==
  /\ session # None /\ ~invalid
  /\ invalid' = TRUE
  /\ UNCHANGED <<decoder, result, given, version, picture>>

(***************************************************************************)
(* decodeData                                                              *)
(***************************************************************************)

\* mediaInfoSpliterHandle replaces all three, by nil where the packet has none.
mediaInfo(packet) ==
  /\ vps' = IF "VPS" \in packet THEN version ELSE None
  /\ sps' = IF "SPS" \in packet THEN version ELSE None
  /\ pps' = IF "PPS" \in packet THEN version ELSE None

lacksSets(packet) == ~(Sets \subseteq packet)

\* Variant: a session that could not be made is noticed only by its nil.
sessionFails_Kept == description' = version /\ session' = None /\ isInited' = TRUE
\* Both are nil then.
sessionFails == description' = None /\ session' = None /\ isInited' = FALSE

\* initDecode fails for want of parameter sets, of a description, or of a session; the
\* old session outlives the first two.
initFails(packet) ==
  /\ ~isInited
  /\ mediaInfo(packet)
  /\ \/ lacksSets(packet) /\ UNCHANGED <<description, session, isInited>>
     \/ ~lacksSets(packet) /\ description' = None /\ UNCHANGED <<session, isInited>>
     \/ ~lacksSets(packet) /\ sessionFails
  /\ invalid' = (invalid /\ session' = session)
  /\ result' = None
  /\ UNCHANGED pixel

initDecode(packet) ==
  IF isInited THEN UNCHANGED <<isInited, vps, sps, pps, description, session, invalid>>
  ELSE /\ ~lacksSets(packet) /\ mediaInfo(packet)
       /\ description' = version /\ session' = version
       /\ isInited' = TRUE /\ invalid' = FALSE

\* No slice: the session is made, and nothing decoded.
noFrame(packet) ==
  /\ initDecode(packet)
  /\ result' = None
  /\ UNCHANGED pixel

hasFrame(packet) == packet \cap {"IFrame", "PFrame"} # {}

\* Variant: a nil image leaves the last picture.
setPixelBufferRef_Keep(image) == IF image = None THEN pixel' = pixel ELSE pixel' = image
\* The callback releases the last picture and keeps the new one, nil included.
setPixelBufferRef(image) == pixel' = image

\* Decoding is synchronous: the callback has run when the call returns.  It delivers
\* the picture, or nil for one that is dropped or cannot be decoded in this session.
decoded(packet) ==
  /\ hasFrame(packet) /\ initDecode(packet)
  /\ session' # None /\ ~invalid'
  /\ \E image \in {None} \cup (IF session' = version THEN {picture'} ELSE {}) :
       setPixelBufferRef(image)
  /\ result' = pixel'

\* No sample could be made of the slice, or its data are bad: nothing else changes.
badData(packet) ==
  /\ hasFrame(packet) /\ initDecode(packet)
  /\ session' # None /\ ~invalid'
  /\ result' = None
  /\ UNCHANGED pixel

\* Variant: the parameter sets are forgotten, and the decoder still counts as ready.
resetDecoder_Ready == vps' = None /\ sps' = None /\ pps' = None /\ UNCHANGED isInited
resetDecoder == vps' = None /\ sps' = None /\ pps' = None /\ isInited' = FALSE

\* kVTInvalidSessionErr: the next packet with parameter sets makes a new session.
sessionLost(packet) ==
  /\ hasFrame(packet) /\ isInited /\ invalid
  /\ resetDecoder
  /\ result' = None
  /\ UNCHANGED <<description, session, invalid, pixel>>

call(packet) ==
  \/ initFails(packet)
  \/ noFrame(packet) /\ ~hasFrame(packet)
  \/ decoded(packet)
  \/ badData(packet)
  \/ sessionLost(packet)

\* Every packet is of the next picture; a split without a nalu returns at once.
decodeData(packet) ==
  /\ picture' = IF picture = MaxPicture THEN 1 ELSE picture + 1
  /\ given' = picture'
  /\ UNCHANGED version
  /\ IF packet = {} THEN result' = None /\ UNCHANGED <<decoder, invalid>> ELSE call(packet)

showsPicture == decodeData(KeyPacket) /\ result' # None

Next ==
  \/ newVersion \/ invalidate
  \/ \E packet \in Packet : decodeData(packet)

\* Key frames keep arriving, and VideoToolbox does not refuse for ever what it can
\* decode.
Fairness == WF_vars(decodeData(KeyPacket)) /\ SF_vars(showsPicture)
Spec == Init /\ [][Next]_vars /\ Fairness

(***************************************************************************)
(* Properties                                                              *)
(***************************************************************************)
TypeOK ==
  /\ isInited \in BOOLEAN /\ invalid \in BOOLEAN
  /\ {vps, sps, pps, description, session} \subseteq 0..MaxVersion
  /\ {pixel, result, given, picture} \subseteq 0..MaxPicture

\* decodeData returns the picture of its own packet or nil, never one of an earlier
\* packet that _pixelBufferRef still holds.
PictureOfPacket == result # None => result = given

\* A decoder that counts as ready has a session and the description its samples need,
\* both made of the parameter sets it keeps, whichever step of initDecode failed before.
ReadyToDecode ==
  isInited => /\ session # None /\ session = description
              /\ sps = session /\ pps = session /\ (~H264 => vps = session)

\* A session that is taken away is replaced, and pictures come again, if key frames do,
\* unless the encoder has changed its parameter sets: these are read only for a new
\* session (resetDecoder, initDecode).
Recovers == invalid ~> (~invalid /\ (result # None \/ session # version))
=============================================================================
