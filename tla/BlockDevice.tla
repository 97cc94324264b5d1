---------------------------- MODULE BlockDevice ----------------------------
(***************************************************************************)
(* What a replay through caches and deduplication is to be worth: a device *)
(* on which each read is answered with the content last written to its     *)
(* block.  A block never written holds what the trace says of it when the  *)
(* block is first read.                                                    *)
(***************************************************************************)
CONSTANTS Blocks, Contents

VARIABLES
  media,    \* the content of each block that is known
  answer    \* the last read and the content it was answered with

DeviceInit ==
  /\ media = [b \in {} |-> b]
  /\ answer = <<>>

Hold(b, k) ==
  media' = [c \in DOMAIN media \cup {b} |-> IF c = b THEN k ELSE media[c]]

Discover(b, k) ==
  /\ b \notin DOMAIN media
  /\ Hold(b, k)
  /\ UNCHANGED answer

Write(b, k) ==
  /\ Hold(b, k)
  /\ UNCHANGED answer

Read(b) ==
  /\ b \in DOMAIN media
  /\ answer' = <<b, media[b]>>
  /\ UNCHANGED media

DeviceNext ==
  \E b \in Blocks :
    \/ Read(b)
    \/ \E k \in Contents : Discover(b, k) \/ Write(b, k)

DeviceSpec == DeviceInit /\ [][DeviceNext]_<<media, answer>>
=============================================================================
