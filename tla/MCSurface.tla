------------------------------ MODULE MCSurface ------------------------------
EXTENDS Surface

CONSTANTS layer, buffer, owner, guest

\* A visible layer and a scratch buffer.
LayerAndBuffer == (layer :> 1) @@ (buffer :> -1)
Widths == (layer :> 5) @@ (buffer :> 2)
Blocks == [webp |-> 2, jpeg |-> 3]

OnLayer ==
    {[op |-> "draw", to |-> layer, x |-> x, img |-> <<1>>] : x \in {0, 4}}
      \union {[op |-> "draw", to |-> layer, x |-> 2, img |-> <<0>>],
              [op |-> "draw", to |-> layer, x |-> -1, img |-> <<1, 1, 0, Clear, 1>>]}
      \union {[op |-> "paint", to |-> layer, x |-> 1, mask |-> <<TRUE, FALSE>>, colour |-> 0]}
      \union {[op |-> "set", to |-> layer, x |-> 0, w |-> p[1], colour |-> p[2]] :
                 p \in {<<1, Clear>>, <<1, 0>>, <<5, Clear>>}}
      \union {[op |-> "copy", kind |-> "copy", fn |-> 3, from |-> layer, to |-> layer,
               sx |-> s, w |-> 3, dx |-> 2 - s] : s \in {0, 2}}
      \union {[op |-> "resize", to |-> layer, w |-> w] : w \in {3, 5}}
      \union {[op |-> "clip", to |-> layer, x |-> 1, w |-> 2], [op |-> "reset_clip", to |-> layer],
              [op |-> "move", to |-> layer, place |-> 1], [op |-> "shade", to |-> layer, opacity |-> 1]}

OnBuffer ==
    {[op |-> "draw", to |-> buffer, x |-> 0, img |-> <<1, 0>>],
     [op |-> "set", to |-> buffer, x |-> 1, w |-> 1, colour |-> 1]}

\* Between surfaces, a function that reads the destination (such as XOR) is left out: the
\* flush of pending rectangles already shows its result when the users apply it again.
Between ==
    {[op |-> "copy", kind |-> "copy", fn |-> 3, from |-> buffer, to |-> layer,
      sx |-> 0, w |-> 2, dx |-> 3],
     [op |-> "copy", kind |-> "transfer", fn |-> 12, from |-> buffer, to |-> layer,
      sx |-> 1, w |-> 2, dx |-> 1],
     [op |-> "copy", kind |-> "transfer", fn |-> 10, from |-> layer, to |-> layer,
      sx |-> 2, w |-> 2, dx |-> 2],
     [op |-> "copy", kind |-> "copy", fn |-> 3, from |-> layer, to |-> buffer,
      sx |-> 1, w |-> 2, dx |-> 0]}

\* What comes after something clear was blurred is not looked at.
Unblurred == ~murky

AllCalls == OnLayer \union OnBuffer \union Between
=============================================================================
