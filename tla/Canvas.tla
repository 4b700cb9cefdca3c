-------------------------------- MODULE Canvas --------------------------------
(***************************************************************************)
(* What a guac_common_surface promises to those who draw on it: everybody  *)
(* who watches sees the image, except in the cells whose update is still   *)
(* to be sent, and no update ever shows anything but the image as it is    *)
(* when the update is sent.                                                *)
(***************************************************************************)
CONSTANTS Surfaces, Cells

VARIABLES image,     \* image[s][c]: what has been drawn
          shown,     \* shown[u][s][c]: what user u sees
          watching,  \* the users who see anything
          late       \* late[s]: the cells whose update is still to be sent

canvasvars == <<image, shown, watching, late>>

\* Nobody sees anything wrong outside the late cells.
UpToDate ==
    \A u \in watching, s \in Surfaces : \A c \in Cells \ late[s] :
        shown[u][s][c] = image[s][c]

CanvasInit == /\ \A s \in Surfaces : late[s] = {}
              /\ UpToDate

\* A cell that changes on a screen changes to what is drawn there now.
CanvasNext ==
    /\ watching \subseteq watching'
    /\ \A u \in watching, s \in Surfaces, c \in Cells :
          shown'[u][s][c] \in {shown[u][s][c], image'[s][c]}
    /\ UpToDate'

CanvasSpec == CanvasInit /\ [][CanvasNext]_canvasvars
=============================================================================
