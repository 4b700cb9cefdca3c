------------------------------- MODULE Surface -------------------------------
(***************************************************************************)
(* The drawing surfaces of the protocol plug-ins (common/surface.c,        *)
(* common/rect.c) and the display that holds them (common/display.c).  A   *)
(* surface draws into a buffer of its own and sends the changes later: one *)
(* dirty rectangle, and a queue of rectangles that were not worth          *)
(* combining with it.  The users keep pictures of the surfaces, which only *)
(* what is sent can change.                                                *)
(*                                                                         *)
(* Simplifications.  A surface has one row, so a rectangle is an x and a   *)
(* width, and the fill pattern of __guac_common_should_combine (a          *)
(* rectangle right below the dirty one) does not occur.  A pixel is Clear  *)
(* or has one bit of colour.  x, y, z and parent are one property.         *)
(* Which encoder a bitmap is sent with (the heat map and the heuristics on *)
(* the image decide) is a choice, and encoders lose nothing.  Each call    *)
(* holds the locks of its surfaces from start to end and is one step.      *)
(* guac_common_surface_alloc is Init.                                      *)
(***************************************************************************)
EXTENDS Integers, Sequences, FiniteSets, SequencesExt, FiniteSetsExt, TLC

CONSTANTS Surfaces,           \* the surfaces of the display
          Index,              \* Index[s]: the index of its layer, negative for a buffer
          InitWidth,          \* InitWidth[s]: the width it is allocated with
          MaxWidth,           \* bound on widths
          Users, Owner,       \* who may watch, and who watches from the start
          QueueSize,          \* GUAC_COMMON_SURFACE_QUEUE_SIZE
          NegligibleWidth,    \* GUAC_SURFACE_NEGLIGIBLE_WIDTH
          BaseCost,           \* GUAC_SURFACE_BASE_COST
          DataFactor,         \* GUAC_SURFACE_DATA_FACTOR
          NegligibleIncrease, \* GUAC_SURFACE_NEGLIGIBLE_INCREASE
          BlockSize,          \* BlockSize[e]: the grid of encoder "webp" or "jpeg"
          Calls,              \* the calls the plug-in may make
          MaxCalls            \* bound on the calls it makes

ASSUME SurfaceAssumption ==
    /\ QueueSize \in Nat /\ QueueSize > 1
    /\ \A c \in Calls : c.to \in Surfaces /\ (c.op = "copy" => c.from \in Surfaces)

VARIABLES surface,  \* surface[s]: the guac_common_surface
          picture,  \* picture[u][s]: the surface as user u sees it
          joined,   \* the users watching
          murky,    \* something clear was sent in a way that does not keep it clear
          flushed,  \* no call came after the last flush of the display
          calls     \* calls made so far

vars == <<surface, picture, joined, murky, flushed, calls>>

Clear == -1
Black == 0
Columns == 0..(MaxWidth - 1)

-----------------------------------------------------------------------------
(* Rectangles (rect.c).                                                     *)

Rect(x, w) == [x |-> x, w |-> w]
In(r) == r.x..(r.x + r.w - 1)
Empty(r) == r.w <= 0

\* guac_common_rect_extend
Extend(r, min) ==
    LET left == Min({r.x, min.x})
    IN Rect(left, Max({r.x + r.w, min.x + min.w}) - left)

\* guac_common_rect_constrain
Constrain(r, max) ==
    LET left == Max({r.x, max.x})
    IN Rect(left, Min({r.x + r.w, max.x + max.w}) - left)

\* guac_common_rect_expand_to_grid, within 0..width
ExpandToGrid(cell, r, width) ==
    LET dw == cell - (r.w % cell)
        left == r.x - dw \div 2
        right == left + r.w + dw
    IN CASE cell = 1      -> r
         [] right > width -> LET l == Max({0, left - (right - width)}) IN Rect(l, width - l)
         [] left < 0      -> Rect(0, Min({right - left, width}))
         [] OTHER         -> Rect(left, right - left)

\* The part of r whose pixels changed.  Where nothing did, the rectangle is
\* emptied, but for __guac_common_surface_set and _transfer a width of one is kept.
Shrink(r, changed, keepsOne) ==
    IF changed = {} THEN IF keepsOne /\ r.w = 1 THEN r ELSE Rect(r.x, 0)
    ELSE Rect(Min(changed), Max(changed) - Min(changed) + 1)

-----------------------------------------------------------------------------
(* Messages to the users, and what their pictures become (external: the     *)
(* client's canvas).  A picture goes on, clear, where the surface ends.      *)

\* The pixel of surface f at c; it is clear outside the buffer.
Pixel(f, c) == IF c < f.width THEN f.buffer[c] ELSE Clear

Over(src, dst) == IF src = Clear THEN dst ELSE src

\* __guac_common_surface_transfer_int: the functions are named by their truth tables
\* (protocol-types.h).  0 and 15 are opaque, 3 and 12 take the source's alpha.
TransferInt(op, src, dst) ==
    LET Bit(p) == IF p = Clear THEN 0 ELSE p
        alphaOf == CASE op \in {0, 15} -> Black [] op \in {3, 12} -> src [] OTHER -> dst
    IN IF alphaOf = Clear THEN Clear
       ELSE (op \div 2^(3 - (2 * Bit(src) + Bit(dst)))) % 2

\* What message m makes of the pictures of a user.
Seen(pics, m) ==
    LET old == pics[m.to].px
        px == CASE m.kind = "img" ->
                     [c \in Columns |-> IF c \notin In(m.rect) THEN old[c]
                                        ELSE IF m.exact THEN m.px[c] ELSE Over(m.px[c], old[c])]
                [] m.kind = "cfill" ->
                     [c \in Columns |-> IF c \in In(m.rect) THEN m.colour ELSE old[c]]
                [] m.kind = "copy" ->
                     [c \in Columns |-> IF c \notin In(m.rect) THEN old[c]
                                        ELSE Over(pics[m.from].px[m.x + c - m.rect.x], old[c])]
                [] m.kind = "transfer" ->
                     [c \in Columns |-> IF c \notin In(m.rect) THEN old[c]
                                        ELSE TransferInt(m.op, pics[m.from].px[m.x + c - m.rect.x], old[c])]
                [] m.kind = "size" ->
                     [c \in Columns |-> IF c < m.w THEN old[c] ELSE Clear]
                [] OTHER -> old
    IN [pics EXCEPT ![m.to].px = px,
                    ![m.to].place = IF m.kind = "move" THEN m.place ELSE @,
                    ![m.to].opacity = IF m.kind = "shade" THEN m.opacity ELSE @]

\* A message that does not say everything about the clear pixels it is about.
Murky(m) == m.kind \in {"img", "copy", "transfer"} /\ m.murky

-----------------------------------------------------------------------------
(* A surface.  NoRect is a dirty rectangle when the surface is not dirty.    *)

NoRect == Rect(0, 0)
Dirty(f) == f.dirty # NoRect
Bounds(f) == Rect(0, f.width)

\* __guac_common_clip_rect
ClipRect(f, r) == Constrain(r, IF f.clipped THEN f.clip ELSE Bounds(f))

\* __guac_common_should_combine
ShouldCombine(f, r, rectOnly) ==
    \/ ~f.realized
    \/ /\ Dirty(f)
       /\ LET combined == Extend(f.dirty, r)
              combinedCost == BaseCost + combined.w
              dirtyCost == BaseCost + f.dirty.w
              updateCost == (BaseCost + r.w) \div (IF rectOnly THEN DataFactor ELSE 1)
          IN \/ combined.w <= NegligibleWidth
             \/ combinedCost <= updateCost + dirtyCost
             \/ combinedCost - dirtyCost <= dirtyCost \div NegligibleIncrease
             \/ combinedCost - updateCost <= updateCost \div NegligibleIncrease

\* __guac_common_mark_dirty
MarkDirty(f, r) ==
    IF Empty(r) THEN f
    ELSE [f EXCEPT !.dirty = IF Dirty(f) THEN Extend(f.dirty, r) ELSE r]

\* __guac_common_surface_flush_to_queue
FlushToQueue(f) ==
    IF ~Dirty(f) THEN f
    ELSE [f EXCEPT !.queue = Append(@, [rect |-> f.dirty, flushed |-> FALSE]),
                   !.dirty = NoRect,
                   !.overrun = @ \/ Len(f.queue) >= QueueSize]

\* __guac_common_surface_is_opaque
IsOpaque(f, r) == \A c \in In(r) : f.buffer[c] # Clear

\* __guac_common_surface_flush_to_png, _to_webp and _to_jpeg.  A PNG with clear pixels
\* clears the rectangle first ("exact"); the others expand it to their grid.
FlushBitmap(s, f, encoder) ==
    LET opaque == IsOpaque(f, f.dirty)
        e == IF encoder = "jpeg" /\ ~opaque THEN "png" ELSE encoder
        r == IF e = "png" THEN f.dirty ELSE ExpandToGrid(BlockSize[e], f.dirty, f.width)
        m == [to |-> s, kind |-> "img", rect |-> r, exact |-> e = "png" /\ ~opaque,
              px |-> [c \in In(r) |-> IF opaque /\ f.buffer[c] = Clear THEN Black ELSE f.buffer[c]],
              murky |-> e # "png" /\ ~IsOpaque(f, r)]
    IN [f EXCEPT !.sent = Append(@, m), !.realized = TRUE, !.dirty = NoRect]

\* __guac_common_surface_bitmap_rect_compare
Before(a, b) == a.rect.x < b.rect.x \/ (a.rect.x = b.rect.x /\ a.rect.w > b.rect.w)

\* The queue in the order of Before, as qsort leaves it
Sorted(queue) ==
    LET Place(i) == Cardinality({j \in DOMAIN queue : Before(queue[j], queue[i])
                                    \/ (~Before(queue[i], queue[j]) /\ j <= i)})
    IN [n \in 1..Len(queue) |-> queue[CHOOSE i \in DOMAIN queue : Place(i) = n]]

\* One round of the inner loop of __guac_common_surface_flush: an unflushed rectangle is
\* bounded and, where it pays, combined into the dirty rectangle.
Combine(g, j) ==
    LET r == Constrain(g.queue[j].rect, Bounds(g))
        done == [g EXCEPT !.queue[j] = [rect |-> r, flushed |-> TRUE]]
    IN CASE g.queue[j].flushed -> g
         [] ~g.queue[j].flushed /\ Empty(r) -> done
         [] ~g.queue[j].flushed /\ ~Empty(r) /\ (ShouldCombine(g, r, FALSE) \/ ~Dirty(g)) ->
              [MarkDirty(done, r) EXCEPT !.combined = @ + 1]
         [] OTHER -> [g EXCEPT !.queue[j].rect = r]

\* The surface after each of them, from the rectangle i on
Gathering(f, i) ==
    LET run[n \in 0..(Len(f.queue) - i + 1)] ==
            IF n = 0 THEN [f EXCEPT !.combined = 0] ELSE Combine(run[n - 1], i + n - 1)
    IN run

Gather(f, i) == Gathering(f, i)[Len(f.queue) - i + 1]

\* One round of its outer loop; original is the length of the queue at the start.
\* Loop indices start at 1.
FlushRound(s, f, i, original, encoder) ==
    IF i > Len(f.queue) \/ f.queue[i].flushed THEN f
    ELSE LET g == Gather(f, i)
         IN IF (g.combined > 1 \/ i <= original) /\ Len(g.queue) < QueueSize THEN FlushToQueue(g)
            ELSE IF Dirty(g) THEN FlushBitmap(s, g, encoder) ELSE g

\* The surface after each of them.  Indices past the end of the queue do nothing.
FlushRounds(s, f, encoder) ==
    LET q == FlushToQueue(f)
        run[n \in 0..(QueueSize + 1)] ==
            IF n = 0 THEN [q EXCEPT !.queue = Sorted(@)]
            ELSE FlushRound(s, run[n - 1], n, Len(q.queue), encoder)
    IN run

\* Mutant: the loop ends with the rectangles queued before it, not with those it added.
FlushSurfaceOriginal(s, f, encoder) ==
    [FlushRounds(s, f, encoder)[Len(FlushToQueue(f).queue)] EXCEPT !.queue = <<>>, !.combined = 0]

\* __guac_common_surface_flush
FlushSurface(s, f, encoder) ==
    [FlushRounds(s, f, encoder)[QueueSize + 1] EXCEPT !.queue = <<>>, !.combined = 0]

\* Mutant: no place is kept for the final dirty rectangle.
FlushDeferredUnreserved(s, f, encoder) ==
    IF Dirty(f) /\ Len(f.queue) = QueueSize
    THEN FlushToQueue(FlushSurface(s, f, encoder))
    ELSE FlushToQueue(f)

\* __guac_common_surface_flush_deferred: one place is kept for the final dirty rectangle
FlushDeferred(s, f, encoder) ==
    IF Dirty(f) /\ Len(f.queue) = QueueSize - 1
    THEN FlushToQueue(FlushSurface(s, f, encoder))
    ELSE FlushToQueue(f)

\* __guac_common_surface_flush_properties
FlushProperties(s, f) ==
    IF Index[s] <= 0 THEN f
    ELSE LET shade == [to |-> s, kind |-> "shade", opacity |-> f.opacity]
             move == [to |-> s, kind |-> "move", place |-> f.place]
         IN [f EXCEPT !.sent = @ \o (IF f.opacity_dirty THEN <<shade>> ELSE <<>>)
                                 \o (IF f.location_dirty THEN <<move>> ELSE <<>>),
                      !.opacity_dirty = FALSE, !.location_dirty = FALSE]

\* Any encoder, where there is something to encode.
Encoders(f) == IF Dirty(f) \/ f.queue # <<>> THEN {"png", "webp", "jpeg"} ELSE {"png"}

\* What every draw ends with: combine with the dirty rectangle, or queue that one first
DeferDraw(s, f, r, encoder) ==
    MarkDirty(IF ShouldCombine(f, r, FALSE) THEN f ELSE FlushDeferred(s, f, encoder), r)

-----------------------------------------------------------------------------
(* Pixels (surface.c 779 to 1198).                                          *)

Changed(f, px) == {c \in 0..(f.width - 1) : px[c] # f.buffer[c]}

\* __guac_common_surface_put of the pixels Src(c) onto r; an opaque source has no alpha
Put(f, r, Src(_), opaque) ==
    [c \in 0..(f.width - 1) |->
        IF c \notin In(r) THEN f.buffer[c]
        ELSE IF ~opaque THEN Over(Src(c), f.buffer[c])
        ELSE IF Src(c) = Clear THEN Black ELSE Src(c)]

\* Mutant: pixels are transferred forwards, also onto themselves.
TransferPixelsForwards(f, sx, op, g, r, same) ==
    FoldLeft(LAMBDA px, k :
               LET src == IF same THEN px[sx + k] ELSE f.buffer[sx + k]
               IN ((r.x + k) :> TransferInt(op, src, px[r.x + k])) @@ px,
             g.buffer, [k \in 1..r.w |-> k - 1])

\* __guac_common_surface_transfer of f onto g (the same surface if same), pixel by pixel:
\* backwards when the destination is not before the source in the same surface
TransferPixels(f, sx, op, g, r, same) ==
    LET step == [k \in 1..r.w |-> IF ~same \/ r.x < sx THEN k - 1 ELSE r.w - k]
    IN FoldLeft(LAMBDA px, k :
                  LET src == IF same THEN px[sx + k] ELSE f.buffer[sx + k]
                  IN ((r.x + k) :> TransferInt(op, src, px[r.x + k])) @@ px,
                g.buffer, step)

-----------------------------------------------------------------------------
(* The calls of a plug-in.                                                  *)

\* Surfaces fs, once the messages they hold and then msgs are sent to all users.
\* blurred: the buffers lost the clear pixels the pictures have.
Sends(order, fs, msgs, blurred) ==
    \E new \in {fs} : \E all \in {FlattenSeq([i \in DOMAIN order |-> new[order[i]].sent]) \o msgs} :
       /\ surface' = [s \in Surfaces |-> [new[s] EXCEPT !.sent = <<>>]]
       /\ picture' = [u \in Users |-> IF u \notin joined THEN picture[u]
                                      ELSE FoldLeft(Seen, picture[u], all)]
       /\ murky' = (murky \/ blurred \/ \E i \in DOMAIN all : Murky(all[i]))
       /\ UNCHANGED joined

Called(op, c) == c.op = op /\ calls' = calls + 1 /\ flushed' = FALSE

Update(s, f) == Sends(<<s>>, [surface EXCEPT ![s] = f], <<>>, FALSE)

\* A call that changes no pixel, and is over.
NoChange == UNCHANGED <<surface, picture, joined, murky>>

\* guac_common_surface_draw of the image c.img
Draw(c) ==
    /\ Called("draw", c)
    /\ LET f == surface[c.to]
           r == ClipRect(f, Rect(c.x, Len(c.img)))
           px == Put(f, r, LAMBDA k : c.img[k - c.x + 1], Clear \notin {c.img[i] : i \in DOMAIN c.img})
           rect == Shrink(r, Changed(f, px), FALSE)
       IN IF Empty(r) \/ Empty(rect) THEN NoChange
          ELSE \E e \in IF Len(f.queue) = QueueSize - 1 THEN Encoders(f) ELSE {"png"} :
                  Update(c.to, DeferDraw(c.to, [f EXCEPT !.buffer = px], rect, e))

\* guac_common_surface_paint: a colour through the mask c.mask (__guac_common_surface_fill_mask)
Paint(c) ==
    /\ Called("paint", c)
    /\ LET f == surface[c.to]
           r == ClipRect(f, Rect(c.x, Len(c.mask)))
           px == [k \in 0..(f.width - 1) |-> IF k \in In(r) /\ c.mask[k - c.x + 1] THEN c.colour
                                             ELSE f.buffer[k]]
       IN IF Empty(r) THEN NoChange
          ELSE \E e \in IF Len(f.queue) = QueueSize - 1 THEN Encoders(f) ELSE {"png"} :
                  Update(c.to, DeferDraw(c.to, [f EXCEPT !.buffer = px], r, e))

\* guac_common_surface_set (and __guac_common_surface_set)
Set(c) ==
    /\ Called("set", c)
    /\ LET f == surface[c.to]
           r == ClipRect(f, Rect(c.x, c.w))
           px == [k \in 0..(f.width - 1) |-> IF k \in In(r) THEN c.colour ELSE f.buffer[k]]
           rect == Shrink(r, Changed(f, px), TRUE)
           g == [f EXCEPT !.buffer = px]
           m == [to |-> c.to, kind |-> "cfill", rect |-> rect, colour |-> c.colour]
       IN IF Empty(r) \/ Empty(rect) THEN NoChange
          ELSE \E e \in Encoders(f) :
                 Update(c.to,
                   IF c.colour = Clear THEN DeferDraw(c.to, g, rect, e)
                   ELSE IF ShouldCombine(f, rect, TRUE) THEN MarkDirty(g, rect)
                   ELSE LET h == FlushSurface(c.to, g, e)
                        IN [h EXCEPT !.sent = Append(@, m), !.realized = TRUE])

\* guac_common_surface_copy (kind "copy", op SRC) and guac_common_surface_transfer: between
\* two surfaces the buffer is updated first, within one surface last
Copy(c) ==
    /\ Called("copy", c)
    /\ LET f == surface[c.from]
           same == c.from = c.to
           sr == Constrain(Rect(c.sx, c.w), Bounds(f))
           dx == c.dx + sr.x - c.sx
           dr == ClipRect(surface[c.to], Rect(dx, sr.w))
           g == surface[c.to]
           px == TransferPixels(f, sr.x + dr.x - dx, c.fn, g, dr, same)
           rect == IF same THEN dr ELSE Shrink(dr, Changed(g, px), TRUE)
           sx == sr.x + rect.x - dx
           first == IF same THEN g ELSE [g EXCEPT !.buffer = px]
           clear == \/ ~IsOpaque(f, Rect(sx, rect.w))
                    \/ c.kind = "transfer" /\ ~IsOpaque(g, rect)
           m == [to |-> c.to, kind |-> c.kind, rect |-> rect, from |-> c.from, x |-> sx,
                 op |-> c.fn, murky |-> clear]
           After(h) == IF same THEN [h EXCEPT !.buffer = px] ELSE h
       IN IF Empty(sr) \/ Empty(dr) \/ Empty(rect) THEN NoChange
          ELSE IF ShouldCombine(first, rect, TRUE)
          THEN Update(c.to, After(MarkDirty(first, rect)))
          ELSE \E e \in Encoders(f) \union Encoders(g) :
                 LET g2 == FlushSurface(c.to, first, e)
                     f2 == FlushSurface(c.from, f, e)
                     fs == [surface EXCEPT ![c.from] = f2,
                                           ![c.to] = After([g2 EXCEPT !.realized = TRUE])]
                 IN Sends(IF same THEN <<c.to>> ELSE <<c.to, c.from>>, fs, <<m>>, FALSE)

\* Surface f with the new width, the dirty and the clipping rectangle within it: the old
\* pixels come back without alpha
Resized(f, w) ==
    LET blank == [f EXCEPT !.width = w, !.buffer = [k \in 0..(w - 1) |-> Clear]]
        cut == Constrain(f.dirty, Bounds(blank))
    IN [f EXCEPT !.width = w,
                 !.buffer = Put(blank, Constrain(Bounds(f), Bounds(blank)),
                                LAMBDA k : f.buffer[k], TRUE),
                 !.clip = Constrain(f.clip, Bounds(blank)),
                 !.dirty = IF ~Dirty(f) \/ Empty(cut) THEN NoRect ELSE cut]

\* guac_common_surface_resize
Resize(c) ==
    /\ Called("resize", c)
    /\ LET f == surface[c.to]
       IN IF c.w = f.width THEN NoChange
          ELSE Sends(<<c.to>>, [surface EXCEPT ![c.to] = Resized(f, c.w)],
                     IF f.realized THEN <<[to |-> c.to, kind |-> "size", w |-> c.w]>> ELSE <<>>,
                     ~IsOpaque(f, Constrain(Bounds(f), Rect(0, c.w))))

\* guac_common_surface_clip and guac_common_surface_reset_clip
Clip(c) ==
    /\ Called("clip", c)
    /\ LET f == surface[c.to]
       IN Update(c.to, [f EXCEPT !.clipped = TRUE,
                          !.clip = Constrain(IF f.clipped THEN f.clip ELSE Bounds(f), Rect(c.x, c.w))])

ResetClip(c) ==
    /\ Called("reset_clip", c)
    /\ Update(c.to, [surface[c.to] EXCEPT !.clipped = FALSE])

\* guac_common_surface_move, _stack and _set_parent
Move(c) ==
    /\ Called("move", c)
    /\ Update(c.to, [surface[c.to] EXCEPT !.place = c.place, !.location_dirty = TRUE])

\* guac_common_surface_set_opacity
Shade(c) ==
    /\ Called("shade", c)
    /\ Update(c.to, [surface[c.to] EXCEPT !.opacity = c.opacity, !.opacity_dirty = TRUE])

\* guac_common_display_flush: guac_common_surface_flush of the layers, not of the buffers
Flushable == {s \in Surfaces : Index[s] >= 0}

Flush ==
    /\ flushed' = TRUE
    /\ UNCHANGED calls
    /\ \E e \in UNION {Encoders(surface[s]) : s \in Flushable} :
         Sends(SetToSeq(Flushable),
               [s \in Surfaces |-> IF s \in Flushable
                                   THEN FlushSurface(s, FlushProperties(s, surface[s]), e)
                                   ELSE surface[s]], <<>>, FALSE)

\* guac_common_display_dup for a user who joins: guac_common_surface_dup of every surface
Dup(s, f) ==
    IF ~f.realized THEN [px |-> [c \in Columns |-> Clear], place |-> 0, opacity |-> 0]
    ELSE [px |-> [c \in Columns |-> Pixel(f, c)],
          place |-> IF Index[s] > 0 THEN f.place ELSE 0,
          opacity |-> IF Index[s] > 0 THEN f.opacity ELSE 0]

Join(u) ==
    /\ u \notin joined
    /\ joined' = joined \union {u}
    /\ picture' = [picture EXCEPT ![u] = [s \in Surfaces |-> Dup(s, surface[s])]]
    /\ UNCHANGED <<surface, murky, flushed, calls>>

\* guac_common_surface_alloc
Alloc(s) ==
    [width |-> InitWidth[s], buffer |-> [c \in 0..(InitWidth[s] - 1) |-> Clear],
     dirty |-> NoRect, queue |-> <<>>, combined |-> 0, sent |-> <<>>, overrun |-> FALSE,
     clipped |-> FALSE, clip |-> NoRect, realized |-> Index[s] >= 0,
     place |-> 0, location_dirty |-> FALSE, opacity |-> 0, opacity_dirty |-> FALSE]

Init ==
    /\ surface = [s \in Surfaces |-> Alloc(s)]
    /\ picture = [u \in Users |-> [s \in Surfaces |->
                    [px |-> [c \in Columns |-> Clear], place |-> 0, opacity |-> 0]]]
    /\ joined = {Owner}
    /\ murky = FALSE
    /\ flushed = FALSE
    /\ calls = 0

Next ==
    \/ /\ calls < MaxCalls
       /\ \E c \in Calls : \/ Draw(c) \/ Paint(c) \/ Set(c) \/ Copy(c) \/ Resize(c) \/ Clip(c)
                           \/ ResetClip(c) \/ Move(c) \/ Shade(c)
    \/ Flush
    \/ \E u \in Users : Join(u)

Spec == Init /\ [][Next]_vars

-----------------------------------------------------------------------------
(* Properties.                                                              *)

\* The cells of a surface that a canvas has: its columns, its place and its opacity.
Place == -1
Opacity == -2
Cells == Columns \union {Place, Opacity}

\* The queued and the dirty rectangles, and the properties to be sent.
Pending(s) ==
    LET f == surface[s]
    IN UNION {In(f.queue[i].rect) : i \in DOMAIN f.queue} \union In(f.dirty)
         \union (IF f.location_dirty THEN {Place} ELSE {})
         \union (IF f.opacity_dirty THEN {Opacity} ELSE {})

Image(s) ==
    [c \in Cells |-> CASE c = Place -> surface[s].place
                       [] c = Opacity -> surface[s].opacity
                       [] OTHER -> Pixel(surface[s], c)]

\* What u sees; once something clear was blurred, that is not looked at any more.
View(u) ==
    [s \in Surfaces |->
        IF murky THEN Image(s)
        ELSE [c \in Cells |-> CASE c = Place -> picture[u][s].place
                                [] c = Opacity -> picture[u][s].opacity
                                [] OTHER -> picture[u][s].px[c]]]

\* The surfaces keep the promise of a canvas: whatever the order of draws, copies, fills,
\* resizes, joins and flushes, a user sees the image in every cell that is not pending, and
\* no cell ever shows something else than the image at that moment.
Promise == INSTANCE Canvas WITH image <- [s \in Surfaces |-> Image(s)],
                                shown <- [u \in joined |-> View(u)],
                                watching <- joined,
                                late <- [s \in Surfaces |-> Pending(s)]

ImplementsCanvas == Promise!CanvasSpec

\* guac_common_display_flush leaves nothing behind: afterwards everybody sees every layer
\* as it is in the buffer, properties included.
FlushShowsAll ==
    flushed => \A u \in joined, s \in Flushable, c \in Cells :
                  \/ View(u)[s][c] = Image(s)[c]
                  \/ c \notin Columns /\ Index[s] <= 0

\* bitmap_queue is never written past its end, neither by a deferred flush nor by the
\* flush that adds the final dirty rectangle and combined rectangles to it.
QueueWithin == \A s \in Surfaces : ~surface[s].overrun

-----------------------------------------------------------------------------
(* The inductive invariant of QueueWithin (SurfaceProofs).                  *)

\* f has the fields of a surface, and its queue is a sequence of at most n rectangles that
\* was never written past its end.
IsSurface(f) ==
    f = [width |-> f.width, buffer |-> f.buffer, dirty |-> f.dirty, queue |-> f.queue,
         combined |-> f.combined, sent |-> f.sent, overrun |-> f.overrun,
         clipped |-> f.clipped, clip |-> f.clip, realized |-> f.realized,
         place |-> f.place, location_dirty |-> f.location_dirty,
         opacity |-> f.opacity, opacity_dirty |-> f.opacity_dirty]
IsQueue(q) == Len(q) \in Nat /\ q = [i \in 1..Len(q) |-> q[i]]
Within(f, n) == IsSurface(f) /\ IsQueue(f.queue) /\ Len(f.queue) <= n /\ ~f.overrun

\* Between calls one place of every queue is free, which the next flush needs for the final
\* dirty rectangle: QueueWithin alone is not inductive.
PlaceReserved ==
    /\ surface = [s \in Surfaces |-> surface[s]]
    /\ \A s \in Surfaces : Within(surface[s], QueueSize - 1)
=============================================================================
