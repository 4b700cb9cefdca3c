------------------------------ MODULE MCDisplay ------------------------------
(* A display with four layers that are moved into each other, drawn on,      *)
(* shaded and disposed of, by any four instructions of the list, while a     *)
(* second worker, whose default layer was disposed of, allocates it again    *)
(* and flattens a display of its own that shows a cursor.                    *)
EXTENDS Display
CONSTANTS w1, w2

Size(i, w) == [op |-> "size", layer |-> i, w |-> w]
Rect(i, x, w) == [op |-> "rect", layer |-> i, x |-> x, w |-> w]
Cfill(i, m, c) == [op |-> "cfill", layer |-> i, mask |-> m, colour |-> c]
Move(i, p, x, z) == [op |-> "move", layer |-> i, parent |-> p, x |-> x, z |-> z]
Copy(s, sx, w, m, t, dx) ==
    [op |-> "copy", src |-> s, sx |-> sx, w |-> w, mask |-> m, dst |-> t, dx |-> dx]

TwoWorkers == {w1, w2}
Filled(i, w, c) == <<Size(i, w), Rect(i, 0, w), Cfill(i, "src", c)>>
Began ==
    w1 :> Filled(0, 2, "black") \o Filled(1, 2, "red") \o Filled(2, 1, "blue")
             \o Filled(3, 1, "green") \o <<Move(3, 1, 0, 0),
                  [op |-> "img", stream |-> 0, layer |-> -1, x |-> 1, mask |-> "over"]>>
       @@ w2 :> Filled(0, 2, "grey")
             \o <<[op |-> "cursor", src |-> 0, sx |-> 1, w |-> 2, hotspot |-> 1],
                  [op |-> "dispose", layer |-> 0]>>

Instructions ==
    w1 :> {[op |-> "sync"], Size(0, 1), Size(4, 1), Rect(1, 1, 1), Cfill(1, "src", "green"),
           Move(1, 0, 1, 0), Move(1, 0, 0, 1), Move(2, 3, 1, 0), Move(1, 2, 0, 0),
           Copy(2, 0, 1, "src", -1, 1), Copy(-1, 0, 2, "over", 1, 0), Copy(1, 0, 1, "over", 1, 1),
           [op |-> "shade", layer |-> 1, opaque |-> FALSE],
           [op |-> "dispose", layer |-> 1], [op |-> "dispose", layer |-> -1],
           [op |-> "blob", stream |-> 0, colour |-> "green"],
           [op |-> "end", stream |-> 0]}
       @@ w2 :> {[op |-> "sync"], [op |-> "mouse", x |-> 1], Size(0, 2)}
Lengths == w1 :> 4 @@ w2 :> 2
=============================================================================
