------------------------------- MODULE Mp4File -------------------------------
(***************************************************************************)
(* What an mp4 writer promises to its caller: a file exists from create to *)
(* close, media is put into it only after its header, and a file that is   *)
(* kept has a header; whether it is also complete is decided by close.     *)
(***************************************************************************)
VARIABLES phase,   \* "closed", "waiting" for the header, "writing"
          file,    \* "absent", "partial", "complete", "broken"
          media    \* the tracks that were given packets

vars == <<phase, file, media>>

Init == phase = "closed" /\ file = "absent" /\ media = {}

Create ==
  /\ phase = "closed"
  /\ phase' = "waiting" /\ file' = "partial" /\ media' = {}

\* The header goes out with the first packet or alone.
Header ==
  /\ phase = "waiting"
  /\ phase' = "writing" /\ media' \in {media, media \cup {"video"}}
  /\ UNCHANGED file

Packet(track) ==
  /\ phase = "writing"
  /\ media' = media \cup {track}
  /\ UNCHANGED <<phase, file>>

Save ==
  /\ phase = "writing"
  /\ phase' = "closed" /\ file' \in {"complete", "broken"}
  /\ UNCHANGED media

Discard ==
  /\ phase # "closed"
  /\ phase' = "closed" /\ file' = "absent"
  /\ UNCHANGED media

Next ==
  \/ Create \/ Header \/ Save \/ Discard
  \/ \E track \in {"video", "audio"} : Packet(track)

Spec == Init /\ [][Next]_vars
=============================================================================
