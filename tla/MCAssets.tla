------------------------------ MODULE MCAssets -------------------------------
(* One asset: an image or a video, of one size so that only the checksum      *)
(* tells them apart when the disk mixes them up; also as a type that can be   *)
(* uploaded but not referred to.  And a longer video, which comes through cut *)
(* off: as the other one, or as something ffprobe does not take.              *)
EXTENDS Assets

CONSTANTS c1, c2, c3

Picture == [checksum |-> c1, size |-> 1, magic |-> "image/png", mp4 |-> FALSE,
            videoStreams |-> 0, duration |-> 0, stream |-> "none", complete |-> FALSE]
Video == [checksum |-> c2, size |-> 1, magic |-> "other", mp4 |-> TRUE,
          videoStreams |-> 1, duration |-> 2000000, stream |-> "one", complete |-> TRUE]
Long == [Video EXCEPT !.checksum = c3, !.size = 2, !.duration = 3000000]

All == {Picture, Video, Long}
Uploaded == {<<Picture, "image/png">>, <<Picture, "image/webp">>,
             <<Video, "video/mp4">>, <<Long, "video/mp4">>}
=============================================================================
