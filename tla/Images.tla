------------------------------- MODULE Images --------------------------------
(* What the update of the firmware promises of the two images on the disk,   *)
(* GmAppMain.ex and GmAppMinor.ex, whatever happens on the network and       *)
(* whenever the power fails: the main image only ever gives way to a whole   *)
(* file of the server, and not before it has taken the place of the minor    *)
(* one.  Download implements this specification.                             *)
CONSTANTS
    Files,      \* the images a server may offer
    Factory,    \* the image the tracker was sold with
    None        \* no image

VARIABLES main, minor

images == <<main, minor>>

Whole == Files \union {Factory}

Init == main = Factory /\ minor = None

(* A power cut between two calls of the file system shows these apart.       *)
Drop == minor' = None /\ main' = main
Demote == main # None /\ minor' = main /\ main' = None
Promote(f) == main = None /\ minor' = None /\ main' = f
Replace(f) == main # None /\ minor' = main /\ main' = f

Next == Drop \/ Demote \/ \E f \in Files : Promote(f) \/ Replace(f)

Spec == Init /\ [][Next]_images
==============================================================================
