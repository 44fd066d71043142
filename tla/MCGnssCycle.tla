----------------------------- MODULE MCGnssCycle -----------------------------
(* GnssCycle with sentences of two characters before the line ending.      *)
EXTENDS GnssCycle

(* A receiver that sends everything the firmware reads.                    *)
FullSchedule == << "gga", "gst", "heading" >>

(* At the begin of an epoch, within its first sentence, after it, and      *)
(* within its last sentence.                                               *)
FullStarts == {0, 1, 4, 9}

(* The receiver README.md asks for: GGA and heading.                       *)
ReadmeSchedule == << "gga", "heading" >>

=============================================================================
