------------------------------- MODULE Display -------------------------------
(***************************************************************************)
(* The display of the encoder: the layers, buffers, image streams and the  *)
(* cursor that the instructions of a recording draw on, and the frame a    *)
(* sync makes of them (guacenc/display*.c, layer.c, buffer.c,              *)
(* image-stream.c, cursor.c, instruction-*.c).  Each worker of the server  *)
(* has a display of its own; they share the global __qsort_display.        *)
(*                                                                         *)
(* Simplifications.  Images have one row: a position is an x, a size is a  *)
(* width.  A pixel is a colour or Clear, an opacity is 0 or not, and of    *)
(* the composition modes SRC and OVER are looked at.  An image is one blob *)
(* of a solid colour.  The time line and the video are in Video.tla.       *)
(*                                                                         *)
(* While a worker sorts, another one may set __qsort_display to its own    *)
(* display; the comparator then looks layers up in that one, without a     *)
(* lock.  Such a lookup is two steps, as its test and its store are        *)
(* (guacenc_display_get_layer); that the layer it reads is not freed       *)
(* meanwhile is assumed.                                                   *)
(***************************************************************************)
EXTENDS Integers, Sequences, FiniteSets, SequencesExt

CONSTANTS Workers,       \* the workers, each with its display
          Recording,     \* Recording[w]: the instructions w's recording may have
          Prefix,        \* Prefix[w]: the instructions it begins with
          MaxRest,       \* MaxRest[w]: bound on the instructions after those
          MaxLayers,     \* GUACENC_DISPLAY_MAX_LAYERS
          MaxBuffers,    \* GUACENC_DISPLAY_MAX_BUFFERS
          MaxStreams,    \* GUACENC_DISPLAY_MAX_STREAMS
          None

VARIABLES display,       \* display[w]: the guacenc_display of w
          pc,            \* pc[w]: "read", "sort" (in guacenc_display_flatten) or "done"
          rest,          \* rest[w]: instructions w still handles
          qsort_display, \* the worker whose display __qsort_display points to
          found,         \* found[w]: the layer of another display that w is to allocate
          raced,         \* history: raced[w]: layers w allocated while found by others
          crashed        \* the process died on a null pointer or out of stack

vars == <<display, pc, rest, qsort_display, found, raced, crashed>>

Clear == "clear"
NoParent == -1           \* GUACENC_LAYER_NO_PARENT

-----------------------------------------------------------------------------
(* Images (buffer.c).  "path" is what cairo_rectangle added to the context  *)
(* and no cairo_fill has used yet; the context is there when w > 0.         *)

\* guacenc_buffer_alloc
NoImage == [w |-> 0, px |-> [c \in {} |-> Clear], path |-> {}]

\* guacenc_buffer_resize: a new context, on which the old image is painted
Resize(b, w) ==
    IF b.w = w THEN b
    ELSE [w |-> w,
          px |-> [c \in 0..(w - 1) |-> IF c < b.w THEN b.px[c] ELSE Clear],
          path |-> {}]

\* guacenc_buffer_fit
Fit(b, x) == IF b.w < x + 1 THEN Resize(b, x + 1) ELSE b

\* guacenc_buffer_copy
BufferCopy(dst, src) == [Resize(dst, src.w) EXCEPT !.px = src.px]

\* guacenc_display_cairo_operator, for an opaque or clear source
Compose(mask, src, dst) == IF mask = "over" /\ src = Clear THEN dst ELSE src

\* cairo_rectangle, if there is a context
Rectangle(b, x, w) ==
    IF b.w = 0 THEN b ELSE [b EXCEPT !.path = @ \union x..(x + w - 1)]

\* cairo_fill, if there is a context
Fill(b, mask, Source(_)) ==
    IF b.w = 0 THEN b
    ELSE [b EXCEPT
            !.px = [c \in DOMAIN b.px |->
                      IF c \in b.path THEN Compose(mask, Source(c), b.px[c]) ELSE b.px[c]],
            !.path = {}]

\* The pixel of image b at c; there is nothing outside it.
Pixel(b, c) == IF c \in DOMAIN b.px THEN b.px[c] ELSE Clear

-----------------------------------------------------------------------------
(* The tables (display-layers.c, display-buffers.c).                        *)

\* guacenc_layer_alloc, and the parent guacenc_display_get_layer gives it
NewLayer(i) ==
    [buffer |-> NoImage, frame |-> NoImage,
     parent |-> IF i = 0 THEN NoParent ELSE 0, x |-> 0, z |-> 0, opaque |-> TRUE]

IsLayer(i) == i \in 0..(MaxLayers - 1)
IsBuffer(i) == -i - 1 \in 0..(MaxBuffers - 1)

SetLayer(d, i, layer) == [d EXCEPT !.layers = (i :> layer) @@ @]
SetFrame(d, i, b) == SetLayer(d, i, [d.layers[i] EXCEPT !.frame = b])

\* guacenc_display_get_layer: the display with layer i allocated
GetLayer(d, i) ==
    IF IsLayer(i) /\ d.layers[i] = None THEN SetLayer(d, i, NewLayer(i)) ELSE d

\* guacenc_display_get_buffer
GetBuffer(d, i) ==
    IF IsBuffer(i) /\ d.buffers[i] = None THEN [d EXCEPT !.buffers[i] = NoImage] ELSE d

\* guacenc_display_get_related_buffer: allocate, read, and write back
Get(d, i) == IF i >= 0 THEN GetLayer(d, i) ELSE GetBuffer(d, i)
Found(i) == IsLayer(i) \/ IsBuffer(i)
Image(d, i) == IF i >= 0 THEN d.layers[i].buffer ELSE d.buffers[i]
SetImage(d, i, b) ==
    IF i >= 0 THEN SetLayer(d, i, [d.layers[i] EXCEPT !.buffer = b])
    ELSE [d EXCEPT !.buffers[i] = b]

\* The image a drawing up to x goes to: buffers are autosized.
Target(d, i, x) == IF i < 0 THEN Fit(Image(d, i), x) ELSE Image(d, i)

\* guacenc_display_alloc, guacenc_cursor_alloc
NewDisplay ==
    [layers  |-> [i \in 0..(MaxLayers - 1) |-> None],
     buffers |-> [i \in (-MaxBuffers)..(-1) |-> None],
     streams |-> [i \in 0..(MaxStreams - 1) |-> None],
     cursor  |-> [x |-> -1, hotspot |-> 0, buffer |-> NoImage]]

-----------------------------------------------------------------------------
(* The handlers of the instructions: the display after an instruction.      *)

handle_size(d, a) ==
    IF Found(a.layer)
    THEN LET e == Get(d, a.layer)
         IN  SetImage(e, a.layer, Resize(Image(e, a.layer), a.w))
    ELSE d

handle_rect(d, a) ==
    IF Found(a.layer)
    THEN LET e == Get(d, a.layer)
         IN  SetImage(e, a.layer, Rectangle(Target(e, a.layer, a.x + a.w), a.x, a.w))
    ELSE d

handle_cfill(d, a) ==
    IF Found(a.layer)
    THEN LET e == Get(d, a.layer)
             Colour(c) == a.colour
         IN  SetImage(e, a.layer, Fill(Image(e, a.layer), a.mask, Colour))
    ELSE d

\* A copy within one image goes through a temporary one that holds only the
\* rectangle.
handle_copy(d, a) ==
    LET e == Get(Get(d, a.src), a.dst)
        src == IF a.src = a.dst THEN Target(e, a.dst, a.dx + a.w) ELSE Image(e, a.src)
        dst == Target(e, a.dst, a.dx + a.w)
        Source(c) == IF a.src = a.dst /\ c \notin a.dx..(a.dx + a.w - 1)
                     THEN Clear ELSE Pixel(src, c - a.dx + a.sx)
    IN  IF ~ Found(a.src) THEN d
        ELSE IF ~ Found(a.dst) THEN Get(d, a.src)
        ELSE SetImage(e, a.dst,
                      IF src.w = 0 THEN dst
                      ELSE Fill(Rectangle(dst, a.dx, a.w), a.mask, Source))

\* The source is moved by +sx, not by -sx.
handle_cursor(d, a) ==
    LET e == Get(d, a.src)
        src == Image(e, a.src)
        dst == Resize(e.cursor.buffer, a.w)
        drawn == [dst EXCEPT !.px = [c \in DOMAIN dst.px |-> Pixel(src, c - a.sx)]]
    IN  IF Found(a.src)
        THEN [e EXCEPT !.cursor.hotspot = a.hotspot,
                       !.cursor.buffer = IF src.w = 0 THEN dst ELSE drawn]
        ELSE d

\* guacenc_display_free_layer, guacenc_display_free_buffer
handle_dispose(d, a) ==
    IF IsLayer(a.layer) THEN SetLayer(d, a.layer, None)
    ELSE IF IsBuffer(a.layer) THEN [d EXCEPT !.buffers[a.layer] = None]
    ELSE d

\* guacenc_display_create_image_stream: a stream of that index is replaced
handle_img(d, a) ==
    IF a.stream \in 0..(MaxStreams - 1)
    THEN [d EXCEPT !.streams[a.stream] =
              [layer |-> a.layer, x |-> a.x, mask |-> a.mask, data |-> None]]
    ELSE d

HasStream(d, s) == s \in 0..(MaxStreams - 1) /\ d.streams[s] # None

\* guacenc_image_stream_receive; decoders stop at the end of the first image
handle_blob(d, a) ==
    IF HasStream(d, a.stream) /\ d.streams[a.stream].data = None
    THEN [d EXCEPT !.streams[a.stream].data = a.colour]
    ELSE d

\* guacenc_image_stream_end: an image one pixel wide; the stream stays
handle_end(d, a) ==
    IF ~ HasStream(d, a.stream) THEN d
    ELSE LET s == d.streams[a.stream]
             e == Get(d, s.layer)
             Colour(c) == IF c = s.x THEN s.data ELSE Clear
         IN  IF ~ Found(s.layer) THEN d
             ELSE IF s.data = None THEN e
             ELSE SetImage(e, s.layer,
                      Fill(Rectangle(Target(e, s.layer, s.x + 1), s.x, 1), s.mask, Colour))

handle_mouse(d, a) == [d EXCEPT !.cursor.x = a.x]

handle_move(d, a) ==
    IF ~ IsLayer(a.layer) THEN d
    ELSE IF ~ IsLayer(a.parent) THEN GetLayer(d, a.layer)
    ELSE LET e == GetLayer(GetLayer(d, a.layer), a.parent)
         IN  SetLayer(e, a.layer, [e.layers[a.layer] EXCEPT
                                     !.parent = a.parent, !.x = a.x, !.z = a.z])

handle_shade(d, a) ==
    IF IsLayer(a.layer)
    THEN LET e == GetLayer(d, a.layer)
         IN  SetLayer(e, a.layer, [e.layers[a.layer] EXCEPT !.opaque = a.opaque])
    ELSE d

-----------------------------------------------------------------------------
(* Flattening (display-flatten.c).                                          *)

Allocated(d) == {i \in DOMAIN d.layers : d.layers[i] # None}

\* The parent of a layer that may have to be allocated to be looked at.
ParentOf(d, i) ==
    IF d.layers[i] = None THEN NewLayer(i).parent ELSE d.layers[i].parent

\* The indices met going up n times from i, and whether that ever ends.
Up(d, i) ==
    LET up[n \in 0..MaxLayers] ==
            IF n = 0 THEN i
            ELSE IF up[n - 1] = NoParent THEN NoParent ELSE ParentOf(d, up[n - 1])
    IN  [n \in 0..MaxLayers |-> up[n]]

Ancestors(d, i) == {Up(d, i)[n] : n \in 0..MaxLayers} \ {NoParent}
Rooted(d, i) == Up(d, i)[MaxLayers] = NoParent

\* guacenc_display_get_depth
Depth(d, i) == Cardinality({n \in 1..MaxLayers : Up(d, i)[n] # NoParent})

\* Mutant: the depth of the layers is not compared.
BeforeByZ(d, i, j) ==
    LET a == d.layers[i]  b == d.layers[j]
    IN  \/ a.parent > b.parent
        \/ a.parent = b.parent /\ (a.z > b.z \/ (a.z = b.z /\ i < j))

\* guacenc_display_layer_comparator, and the order qsort keeps among equals
Before(d, i, j) ==
    LET a == d.layers[i]  b == d.layers[j]
    IN  \/ Depth(d, i) > Depth(d, j)
        \/ /\ Depth(d, i) = Depth(d, j)
           /\ \/ a.parent > b.parent
              \/ a.parent = b.parent /\ (a.z > b.z \/ (a.z = b.z /\ i < j))

\* guacenc_display_get_depth allocates the layers on the way up from i.
SortAllocates(d, parents) ==
    LET met == UNION {Ancestors(d, i) : i \in parents}
    IN  [d EXCEPT !.layers = [i \in DOMAIN d.layers |->
            IF d.layers[i] = None /\ i \in met THEN NewLayer(i) ELSE d.layers[i]]]

\* Mutant: the lookup does not test whether the layer is there.
FirstMissingUntested(d, p) == Ancestors(d, p)

\* The layer, if any, that a way up from p meets and that is not there.
FirstMissing(d, p) ==
    {i \in Ancestors(d, p) \ Allocated(d) :
        \E n \in 0..MaxLayers : /\ Up(d, p)[n] = i
                               /\ \A m \in 0..(n - 1) : Up(d, p)[m] \in Allocated(d)}

\* The frames are reset to the images of the layers.
ResetFrames(d, layers) ==
    [d EXCEPT !.layers = [i \in DOMAIN d.layers |->
        IF i \in layers
        THEN [d.layers[i] EXCEPT !.frame = BufferCopy(@, d.layers[i].buffer)]
        ELSE d.layers[i]]]

\* cairo_paint_with_alpha of one frame on another
Paint(dst, src, x) ==
    [dst EXCEPT !.px = [c \in DOMAIN dst.px |-> Compose("over", Pixel(src, c - x), dst.px[c])]]

\* A layer that is drawn on the frame of its parent, both having pixels.
Drawn(d, i) ==
    LET a == d.layers[i]
    IN  a.opaque /\ a.parent # NoParent /\ d.layers[i].frame.w > 0
        /\ d.layers[a.parent] # None /\ d.layers[a.parent].frame.w > 0

\* One round of the loop that renders the layers.
Render(d, i) ==
    LET p == d.layers[i].parent
        e == IF d.layers[i].opaque /\ p # NoParent THEN GetLayer(d, p) ELSE d
    IN  IF Drawn(e, i)
        THEN SetFrame(e, p, Paint(e.layers[p].frame, e.layers[i].frame, e.layers[i].x))
        ELSE e

\* The part of the default layer that the clip of its last child leaves.
Clip(d, order) ==
    LET OnDefault(i) == Drawn(d, i) /\ d.layers[i].parent = 0
        children == SelectSeq(order, OnDefault)
        last == d.layers[Last(children)]
    IN  IF children = <<>> THEN Int ELSE last.x..(last.x + last.frame.w - 1)

CursorShown(d) == d.cursor.x >= 0 /\ d.cursor.buffer.w > 0

\* Mutant: the cursor is drawn at its position and not its hotspot.
RenderCursorAtPosition(d, clip) ==
    LET e == GetLayer(d, 0)
        frame == e.layers[0].frame
        At(c) == IF c \in clip THEN Pixel(d.cursor.buffer, c - d.cursor.x) ELSE Clear
    IN  IF CursorShown(d)
        THEN SetFrame(e, 0, [frame EXCEPT !.px =
                 [c \in DOMAIN @ |-> Compose("over", At(c), @[c])]])
        ELSE d

\* guacenc_display_render_cursor, which does not reset the clip
RenderCursor(d, clip) ==
    LET e == GetLayer(d, 0)
        frame == e.layers[0].frame
        x == d.cursor.x - d.cursor.hotspot
        At(c) == IF c \in clip THEN Pixel(d.cursor.buffer, c - x) ELSE Clear
    IN  IF CursorShown(d)
        THEN SetFrame(e, 0, [frame EXCEPT !.px =
                 [c \in DOMAIN @ |-> Compose("over", At(c), @[c])]])
        ELSE d

\* guacenc_display_flatten after the sort
Flattened(d, order) ==
    LET rendered == FoldLeft(Render, ResetFrames(d, ToSet(order)), order)
    IN  GetLayer(RenderCursor(rendered, Clip(rendered, order)), 0)

-----------------------------------------------------------------------------
(* The workers.                                                             *)

Handle(d, a) ==
    CASE a.op = "size" -> handle_size(d, a)       [] a.op = "rect" -> handle_rect(d, a)
      [] a.op = "cfill" -> handle_cfill(d, a)     [] a.op = "copy" -> handle_copy(d, a)
      [] a.op = "cursor" -> handle_cursor(d, a)   [] a.op = "dispose" -> handle_dispose(d, a)
      [] a.op = "img" -> handle_img(d, a)         [] a.op = "blob" -> handle_blob(d, a)
      [] a.op = "end" -> handle_end(d, a)         [] a.op = "mouse" -> handle_mouse(d, a)
      [] a.op = "move" -> handle_move(d, a)       [] a.op = "shade" -> handle_shade(d, a)
      [] OTHER -> d     \* transfer and the instructions without a handler

Init ==
    /\ display = [w \in Workers |-> FoldLeft(Handle, NewDisplay, Prefix[w])]
    /\ pc = [w \in Workers |-> "read"]
    /\ rest = MaxRest
    /\ qsort_display = None
    /\ found = [w \in Workers |-> None]
    /\ raced = [w \in Workers |-> {}]
    /\ crashed = FALSE

\* w changes its own display; what it allocates may have been found missing.
Owns(w, d) ==
    /\ display' = [display EXCEPT ![w] = d]
    /\ raced' = [raced EXCEPT ![w] = @ \union
           {i \in Allocated(d) \ Allocated(display[w]) :
               \E v \in Workers : found[v] = [of |-> w, layer |-> i]}]

\* guacenc_handle_instruction
Instruction(w, a) ==
    /\ pc[w] = "read" /\ rest[w] > 0 /\ ~ crashed
    /\ a.op # "sync"
    /\ Owns(w, Handle(display[w], a))
    /\ rest' = [rest EXCEPT ![w] = @ - 1]
    /\ UNCHANGED <<pc, qsort_display, found, crashed>>

\* guacenc_handle_sync, and guacenc_handle_mouse with a timestamp:
\* guacenc_display_flatten up to the call of qsort
Sync(w, a) ==
    /\ pc[w] = "read" /\ rest[w] > 0 /\ ~ crashed
    /\ a.op \in {"sync", "mouse"}
    /\ Owns(w, Handle(display[w], a))
    /\ qsort_display' = w
    /\ rest' = [rest EXCEPT ![w] = @ - 1]
    /\ pc' = [pc EXCEPT ![w] = "sort"]
    /\ UNCHANGED <<found, crashed>>

\* The parents whose depths the comparator looks up; it looks only if there
\* are two layers to compare.
Compared(d) ==
    IF Cardinality(Allocated(d)) < 2 THEN {}
    ELSE {d.layers[i].parent : i \in Allocated(d)} \ {NoParent}

\* A cursor cannot be drawn on a default layer without pixels: there is no
\* context to draw with.
CursorFits(d) ==
    CursorShown(d) => d.layers[0] # None /\ d.layers[0].buffer.w > 0

\* The depth of layers with parent p can be looked up in the display of g.
Sortable(p, g) == pc[g] # "done" /\ Rooted(display[g], p)

\* guacenc_display_flatten from qsort on, with __qsort_display still its own
Flatten(w) ==
    LET d == SortAllocates(display[w], Compared(display[w]))
        Precedes(i, j) == Before(d, i, j)
        order == SetToSortSeq(Allocated(display[w]), Precedes)
    IN  /\ pc[w] = "sort" /\ qsort_display = w /\ ~ crashed
        /\ \A p \in Compared(display[w]) : Sortable(p, w)
        /\ CursorFits(display[w])
        /\ Owns(w, Flattened(d, order))
        /\ pc' = [pc EXCEPT ![w] = "read"]
        /\ UNCHANGED <<rest, qsort_display, found, crashed>>

\* Another worker has set __qsort_display meanwhile: the comparator finds a layer
\* missing in that display ...
FindMissing(w) ==
    LET g == qsort_display IN
    /\ pc[w] = "sort" /\ g # w /\ found[w] = None /\ ~ crashed
    /\ pc[g] # "done"
    /\ \E p \in Compared(display[w]) :
          \E i \in FirstMissing(display[g], p) : found' = [found EXCEPT ![w] = [of |-> g, layer |-> i]]
    /\ UNCHANGED <<display, pc, rest, qsort_display, raced, crashed>>

\* ... and stores a new one, whatever is there by then.
StoreFound(w) ==
    /\ found[w] # None /\ ~ crashed
    /\ LET g == found[w].of  i == found[w].layer IN
         display' = [display EXCEPT ![g] = SetLayer(@, i, NewLayer(i))]
    /\ found' = [found EXCEPT ![w] = None]
    /\ crashed' = (pc[found[w].of] = "done")    \* the display was freed
    /\ UNCHANGED <<pc, rest, qsort_display, raced>>

\* What w's own display may be after the sort, if some of the depths were looked
\* up in it and the others in the display of g.
SortedWith(w, g) ==
    LET parents == Compared(display[w])
        Own == {own \in SUBSET parents : /\ \A p \in own : Sortable(p, w)
                                         /\ \A p \in parents \ own : Sortable(p, g)}
    IN  {SortAllocates(display[w], own) : own \in Own}

\* The end of flattening: by depths of two displays the order may be any.
FlattenOther(w) ==
    /\ pc[w] = "sort" /\ qsort_display # w /\ found[w] = None /\ ~ crashed
    /\ CursorFits(display[w])
    /\ \E d \in SortedWith(w, qsort_display), order \in SetToSeqs(Allocated(display[w])) :
          Owns(w, Flattened(d, order))
    /\ pc' = [pc EXCEPT ![w] = "read"]
    /\ UNCHANGED <<rest, qsort_display, found, crashed>>

\* A cycle of parents exhausts the stack; a freed display and a context that
\* is not there are bad pointers.
FlattenCrashes(w) ==
    /\ pc[w] = "sort" /\ found[w] = None /\ ~ crashed
    /\ \/ ~ CursorFits(display[w])
       \/ \E p \in Compared(display[w]) : ~ (Sortable(p, w) /\ Sortable(p, qsort_display))
    /\ crashed' = TRUE
    /\ UNCHANGED <<display, pc, rest, qsort_display, found, raced>>

\* guacenc_display_free at the end of the job
Free(w) ==
    /\ pc[w] = "read" /\ ~ crashed
    /\ pc' = [pc EXCEPT ![w] = "done"]
    /\ display' = [display EXCEPT ![w] = NewDisplay]
    /\ UNCHANGED <<rest, qsort_display, found, raced, crashed>>

Next ==
    \E w \in Workers :
        \/ \E a \in Recording[w] : Instruction(w, a) \/ Sync(w, a)
        \/ Flatten(w) \/ FindMissing(w) \/ StoreFound(w)
        \/ FlattenOther(w) \/ FlattenCrashes(w)
        \/ Free(w)

Spec == Init /\ [][Next]_vars

-----------------------------------------------------------------------------
(* What a frame is, by the tree of the layers: the image of a layer with    *)
(* the composites of its visible children on it, those with the higher z    *)
(* first.                                                                   *)
Composite(d) ==
    LET InFront(i, j) == \/ d.layers[i].z > d.layers[j].z
                         \/ d.layers[i].z = d.layers[j].z /\ i < j
        Children(i) ==
            SetToSortSeq({j \in Allocated(d) : d.layers[j].opaque /\ d.layers[j].parent = i},
                         InFront)
        Over(px, below, x) ==
            [c \in DOMAIN below |-> Compose("over", Pixel([px |-> px], c - x), below[c])]
        On[n \in 0..MaxLayers] ==
            [i \in Allocated(d) |->
                IF n = 0 THEN d.layers[i].buffer.px
                ELSE LET AddChild(px, j) == Over(On[n - 1][j], px, d.layers[j].x)
                     IN  FoldLeft(AddChild, d.layers[i].buffer.px, Children(i))]
    IN  IF 0 \in Allocated(d) THEN On[MaxLayers][0] ELSE NoImage.px

CursorPixel(d, c) ==
    IF CursorShown(d) THEN Pixel(d.cursor.buffer, c - d.cursor.x + d.cursor.hotspot) ELSE Clear

\* The step that finishes a frame of w, its display being the one sorted and no
\* layer of it lost (OthersFrameKept).
Finishes(w) ==
    pc[w] = "sort" /\ pc'[w] = "read" /\ qsort_display = w /\ raced[w] = {}

(* The frame that one pass over the layers sorted by depth, parent and z    *)
(* makes is the composite of the tree of layers, whatever was moved, shaded *)
(* or disposed of before, when no other worker sorts at the same time       *)
(* (display-flatten.c:125-203).                                             *)
FrameIsTree ==
    [][ \A w \in Workers : Finishes(w) =>
          LET px == display'[w].layers[0].frame.px
          IN  /\ DOMAIN px = DOMAIN Composite(display[w])
              /\ \A c \in DOMAIN px :
                    CursorPixel(display[w], c) = Clear => px[c] = Composite(display[w])[c] ]_vars

(* "Render cursor on top of everything else" (display-flatten.c:201): where *)
(* the default layer has no visible child, whose clip would still be set,   *)
(* every pixel of the cursor is in the frame, at the position of the mouse  *)
(* less the hotspot.                                                        *)
CursorOnTop ==
    [][ \A w \in Workers :
          LET d == display[w]
          IN  Finishes(w)
              /\ (\A i \in Allocated(d) : d.layers[i].parent = 0 => d.layers[i].buffer.w = 0)
              => \A c \in DOMAIN display'[w].layers[0].frame.px :
                    CursorPixel(d, c) # Clear
                      => display'[w].layers[0].frame.px[c] = CursorPixel(d, c) ]_vars

(* A worker that sorts by the depths of another worker's display, because   *)
(* __qsort_display is shared, allocates layers in it, but changes what the  *)
(* other one shows only by replacing a layer that the other allocated       *)
(* between the unlocked test and the store of guacenc_display_get_layer     *)
(* (display-layers.c:39-54).                                                *)
OthersFrameKept ==
    [][ \A w \in Workers :
          rest'[w] = rest[w] /\ pc'[w] = pc[w] /\ Composite(display'[w]) # Composite(display[w])
            => \E v \in Workers : /\ found[v] # None /\ found'[v] = None
                                  /\ found[v].of = w /\ found[v].layer \in raced[w] ]_vars

=============================================================================
