-------------------------- MODULE MCStandardReplay --------------------------
(***************************************************************************)
(* The standard replay with a copy of what its disk holds, which the       *)
(* refinement would otherwise work out anew for each step of the device.   *)
(***************************************************************************)
EXTENDS StandardReplay

VARIABLE image

MCVars == <<standardVars, image>>

MCInit == StandardInit /\ image = DiskImage
MCNext == StandardNext /\ image' = DiskImage'
MCSpec == MCInit /\ [][MCNext]_MCVars

MCWord == 32
MCBlocks == 0..(MCWord - 1)
MCPlaces == {<<0, 9>>, <<0, 10>>, <<0, 0>>, <<1, 0>>, <<1, 9>>, <<1, 10>>}
MCRows == {Row("a", 10, 0), Row("b", 0, 10), Row("b", 1, 9), Row("b", 0, 0), Row("b", 0, 5)}
MCRecords == {Record("a", 9, 2), Record("a", 10, 1), Record("b", 0, 1)}

MCContentSymmetry == Permutations(Contents \ {Zero})
MCTableKeys == Range(DiskKey)
MCBlkidhash(key) == Last(key) % 2

\* The replay answers each read as a plain device of volumes and blocks would,
\* whatever the trace says of a block, is cached or was evicted.
Device == INSTANCE BlockDevice WITH Blocks <- Places, media <- image, answer <- reply
VanillaImplementsDevice == Device!DeviceSpec
=============================================================================
