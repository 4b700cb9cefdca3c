------------------------------- MODULE Terminal -------------------------------
(***************************************************************************)
(* The terminal emulator of the SSH, telnet and Kubernetes plug-ins:       *)
(* terminal/terminal.c, terminal_handlers.c, buffer.c and display.c.  What *)
(* the program prints changes a ring of rows, the buffer, at once; the     *)
(* display only notes, per cell, the operation that will bring the screen  *)
(* up to date, and the render thread carries the operations out later.     *)
(* The user may scroll back meanwhile.                                     *)
(*                                                                         *)
(* Simplifications.  A character has one column and one colour, and a cell *)
(* may carry the cursor.  The bytes of one control sequence are one step:  *)
(* the parser's state between two bytes changes neither buffer nor screen. *)
(* The lock of the terminal is held over each step.  The selection, the    *)
(* scroll bar, the pipe stream and the typescript are left out.            *)
(***************************************************************************)
EXTENDS Integers, Sequences, SequencesExt, FiniteSetsExt

CONSTANTS Width, Height,     \* the size the terminal is created with
          Sizes,             \* the sizes <<columns, rows>> it may be resized to
          Available,         \* rows of the ring
          MaxScrollback,     \* max_scrollback
          Scrollbacks,       \* the values of requested_scrollback the program asks for
          Chars,             \* the characters printed
          Amounts,           \* the arguments of control sequences
          Prologue,          \* the lines already printed
          MaxCalls           \* bound on the calls after that

ASSUME TerminalAssumption ==
    /\ Width \in Nat \ {0} /\ Height \in Nat \ {0} /\ "" \notin Chars
    /\ \A s \in Sizes : s[1] \in Nat \ {0} /\ s[2] \in 1..Available
    /\ Height <= Available /\ MaxScrollback <= Available

VARIABLES term,   \* the guac_terminal, with its buffer, its display and the screen
          calls   \* calls made so far

vars == <<term, calls>>

MaxWidth == Max({Width} \union {s[1] : s \in Sizes})
Columns == 0..MaxWidth            \* a cursor may stand right of the last column

Cell(ch, cursor) == [ch |-> ch, cursor |-> cursor]
Blank == Cell("", FALSE)
NewRow == [length |-> 0, cells |-> [c \in Columns |-> Blank]]

NOP == [type |-> "nop"]
SET(cell) == [type |-> "set", cell |-> cell]
COPY(row, col) == [type |-> "copy", row |-> row, col |-> col]

\* guac_terminal_fit_to_range
Fit(v, max) == IF v < 0 THEN 0 ELSE Min({v, max})

Interval(a, b) == IF a > b THEN <<>> ELSE [i \in 1..(b - a + 1) |-> a + i - 1]

-----------------------------------------------------------------------------
(* The ring of rows (buffer.c).  A row is stored as far as it was written,  *)
(* up to its length, and grows by default characters when it is reached     *)
(* further on, so a cell past its length is blank here.                     *)

Index(t, row) == (t.top + row) % Available

\* guac_terminal_buffer_get_row
GetRow(t, row) == t.rows[Index(t, row)]

PutRow(t, row, new) == [t EXCEPT !.rows[Index(t, row)] = new]

\* What becomes of a row that is reached up to a width: it grows to that width.
Reached(old, width, cells) == [length |-> Max({old.length, width}), cells |-> cells]

\* Where the range a..b may be copied by offset without leaving 0..max: the same four
\* lines in the buffer and in the display.
FitCopy(a, offset, max) == Fit(Fit(a, max) + offset, max) - offset

\* guac_terminal_buffer_set_columns
BufferSet(t, row, a, b, cell) ==
    [t EXCEPT !.rows[Index(t, row)] = Reached(@, b + 1,
                  [c \in Columns |-> IF c \in a..b THEN cell ELSE @.cells[c]]),
              !.length = IF cell.ch # "" /\ row >= @ THEN row + 1 ELSE @]

\* The row is shorter than the range, which is then fitted to the row: what is copied
\* are not the cells that were meant, or even cells past its end that hold anything.
Short(length, b) == length <= b

\* guac_terminal_buffer_copy_columns: the row grows as far as it is copied to
BufferCopyColumns(t, row, a, b, offset) ==
    LET length == Max({GetRow(t, row).length, b + offset + 1})
        cols == FitCopy(a, offset, length - 1)..FitCopy(b, offset, length - 1)
    IN [t EXCEPT !.rows[Index(t, row)] = Reached(@, length,
                     [c \in Columns |-> @.cells[IF c - offset \in cols THEN c - offset ELSE c]]),
                 !.spoilt = IF Short(length, b) THEN @ \union {"short"} ELSE @]

\* guac_terminal_buffer_copy_rows: upwards from the top, downwards from the bottom
BufferCopyRows(t, a, b, offset) ==
    LET order == IF offset > 0 THEN Reverse(Interval(a, b)) ELSE Interval(a, b)
    IN FoldLeft(LAMBDA u, row : PutRow(u, row + offset, GetRow(u, row)), t, order)

-----------------------------------------------------------------------------
(* The operations pending on the display (display.c).                       *)

\* Mutant: a moved copy forgets where it came from.
MovedAnew(op, row, col) == IF op.type = "set" THEN op ELSE COPY(row, col)

Moved(op, row, col) == IF op.type = "nop" THEN COPY(row, col) ELSE op

\* guac_terminal_display_set_columns.  A column right of the last is taken for the last.
DisplaySet(t, row, a, b, cell) ==
    LET last == t.display_width - 1
        cols == Fit(a, last)..Fit(b, last)
    IN IF row \notin DOMAIN t.operations THEN t
       ELSE [t EXCEPT !.operations[row] = [c \in DOMAIN @ |-> IF c \in cols THEN SET(cell)
                                                             ELSE @[c]],
                      !.spoilt = IF a > last THEN @ \union {"margin"} ELSE @]

\* guac_terminal_display_copy_columns
DisplayCopyColumns(t, row, a, b, offset) ==
    LET last == t.display_width - 1
        cols == FitCopy(a, offset, last)..FitCopy(b, offset, last)
    IN IF row \notin DOMAIN t.operations THEN t
       ELSE [t EXCEPT !.operations[row] = [c \in DOMAIN @ |->
                IF c - offset \in cols THEN Moved(@[c - offset], row, c - offset)
                ELSE @[c]]]

\* guac_terminal_display_copy_rows
DisplayCopyRows(t, a, b, offset) ==
    LET last == t.display_height - 1
        from == FitCopy(a, offset, last)..FitCopy(b, offset, last)
    IN [t EXCEPT !.operations = [r \in DOMAIN @ |->
            IF r - offset \notin from THEN @[r]
            ELSE [c \in DOMAIN @[r] |-> Moved(@[r - offset][c], r - offset, c)]]]

\* guac_terminal_display_resize
DisplayResize(t, width, height) ==
    LET old(r, c) == r < t.display_height /\ c < t.display_width
    IN [t EXCEPT !.display_width = width, !.display_height = height,
            !.operations = [r \in 0..(height - 1) |-> [c \in 0..(width - 1) |->
                IF old(r, c) THEN NOP ELSE SET(Blank)]],
            !.screen = [r \in 0..(height - 1) |-> [c \in 0..(width - 1) |->
                IF old(r, c) THEN t.screen[r][c] ELSE Blank]]]

\* The rectangle of copies that starts at row r and column c, as far as each
\* takes the cell the one before it lets expect.
CopyRect(t, ops, r, c) ==
    LET op == ops[r][c]
        Fits(i, j) == ops[r + i][c + j] = COPY(op.row + i, op.col + j)
        w == Max({n \in 1..(t.display_width - c) : \A j \in 0..(n - 1) : Fits(0, j)})
        h == Max({n \in 1..(t.display_height - r) : \A i \in 0..(n - 1), j \in 0..(w - 1) : Fits(i, j)})
    IN [from |-> {<<op.row + i, op.col + j>> : i \in 0..(h - 1), j \in 0..(w - 1)},
        to |-> {<<r + i, c + j>> : i \in 0..(h - 1), j \in 0..(w - 1)},
        down |-> r - op.row, right |-> c - op.col]

\* __guac_terminal_display_flush_copy: one rectangle after the other, each copied
\* from the screen as the ones before it left it
FlushCopy(t) ==
    LET cells == [k \in 1..(t.display_height * t.display_width) |->
                     <<(k - 1) \div t.display_width, (k - 1) % t.display_width>>]
        Step(f, cell) ==
            IF f.ops[cell[1]][cell[2]].type # "copy" THEN f
            ELSE LET rect == CopyRect(t, f.ops, cell[1], cell[2])
                     Over(grid, Value(_, _)) ==
                         [r \in DOMAIN grid |-> [c \in DOMAIN grid[r] |->
                             IF <<r, c>> \in rect.to THEN Value(r, c) ELSE grid[r][c]]]
                 IN [ops |-> Over(f.ops, LAMBDA r, c : NOP),
                     screen |-> Over(f.screen, LAMBDA r, c :
                                         f.screen[r - rect.down][c - rect.right]),
                     copied |-> f.copied \union rect.to,
                     overlap |-> f.overlap \/ rect.from \intersect f.copied # {}]
        done == FoldLeft(Step, [ops |-> t.operations, screen |-> t.screen,
                                copied |-> {}, overlap |-> FALSE], cells)
    IN [t EXCEPT !.operations = done.ops, !.screen = done.screen,
                 !.spoilt = IF done.overlap THEN @ \union {"overlap"} ELSE @]

\* __guac_terminal_display_flush_clear and _flush_set
FlushSet(t) ==
    [t EXCEPT !.screen = [r \in DOMAIN t.screen |-> [c \in DOMAIN t.screen[r] |->
                  IF t.operations[r][c].type = "set" THEN t.operations[r][c].cell
                  ELSE t.screen[r][c]]],
              !.operations = [r \in DOMAIN t.screen |-> [c \in DOMAIN t.screen[r] |->
                  IF t.operations[r][c].type = "set" THEN NOP ELSE t.operations[r][c]]]]

\* guac_terminal_display_flush: copies first
DisplayFlush(t) == FlushSet(FlushCopy(t))

-----------------------------------------------------------------------------
(* Buffer and display together (terminal.c).                                *)

\* __guac_terminal_set_columns
SetBoth(t, row, a, b, cell) ==
    BufferSet(DisplaySet(t, row + t.scroll_offset, a, b, cell), row, a, b, cell)

\* guac_terminal_set_columns: the visible cursor stays where it is
SetColumns(t, row, a, b, cell) ==
    LET u == SetBoth(t, row, a, b, cell)
    IN IF row = t.visible_cursor_row /\ t.visible_cursor_col \in a..b
       THEN SetBoth(u, row, t.visible_cursor_col, t.visible_cursor_col, Cell(cell.ch, TRUE))
       ELSE u

\* guac_terminal_copy_columns
CopyColumns(t, row, a, b, offset) ==
    LET u == BufferCopyColumns(DisplayCopyColumns(t, row + t.scroll_offset, a, b, offset),
                               row, a, b, offset)
    IN IF row = t.visible_cursor_row /\ t.visible_cursor_col \in a..b
       THEN [u EXCEPT !.visible_cursor_col = @ + offset]
       ELSE u

\* What is printed while the user has scrolled back moves rows of the screen that
\* show other rows of the buffer.
Behind(t) == IF t.scroll_offset > 0 THEN [t EXCEPT !.spoilt = @ \union {"behind"}] ELSE t

\* Where there is nothing to copy the display copies a row all the same.
Nothing(t, a, b) == IF a > b THEN [t EXCEPT !.spoilt = @ \union {"nothing"}] ELSE t

\* Mutant: the visible cursor does not move with its row.
CopyRowsLeavesCursor(t, a, b, offset) ==
    BufferCopyRows(DisplayCopyRows(Behind(t), a + t.scroll_offset,
                                   b + t.scroll_offset, offset), a, b, offset)

\* guac_terminal_copy_rows
CopyRows(t, a, b, offset) ==
    LET u == BufferCopyRows(DisplayCopyRows(Nothing(Behind(t), a, b), a + t.scroll_offset,
                                            b + t.scroll_offset, offset), a, b, offset)
    IN IF t.visible_cursor_row \in a..b THEN [u EXCEPT !.visible_cursor_row = @ + offset] ELSE u

\* guac_terminal_clear_columns and guac_terminal_clear_range
ClearColumns(t, row, a, b) == SetColumns(t, row, a, b, Blank)

ClearRange(t, row1, col1, row2, col2) ==
    LET last == t.width - 1
        first == IF col1 > 0 THEN <<<<row1, col1, last>>>> ELSE <<>>
        final == IF col2 < last THEN <<<<row2, 0, col2>>>> ELSE <<>>
        rows == Interval(row1 + Len(first), row2 - Len(final))
        parts == first \o final \o [i \in DOMAIN rows |-> <<rows[i], 0, last>>]
    IN FoldLeft(LAMBDA u, part : ClearColumns(u, part[1], part[2], part[3]), t, parts)

\* guac_terminal_effective_buffer_length, guac_terminal_available_scroll
EffectiveLength(t) ==
    Min({t.length, IF t.requested_scrollback > MaxScrollback THEN MaxScrollback
                   ELSE Max({t.requested_scrollback, t.height})})

AvailableScroll(t) == EffectiveLength(t) - t.height

\* A cursor that is still visible above the screen does not follow its row any further.
Astray(t) ==
    IF t.visible_cursor_row < 0 THEN [t EXCEPT !.spoilt = @ \union {"astray"}] ELSE t

\* guac_terminal_scroll_up: the whole screen is scrolled by turning the ring
ScrollUp(t, a, b, amount) ==
    LET turned == [DisplayCopyRows(Astray(Behind(t)), a + amount, b, -amount) EXCEPT
                      !.top = IF @ + amount >= Available THEN @ + amount - Available
                              ELSE @ + amount,
                      !.length = Min({@ + amount, Available}),
                      !.visible_cursor_row = IF @ \in a..b THEN @ - amount ELSE @]
        u == IF a = 0 /\ b = t.height - 1 THEN turned
             ELSE CopyRows(t, a + amount, b, -amount)
    IN ClearRange(u, b - amount + 1, 0, b, t.width - 1)

\* guac_terminal_scroll_down
ScrollDown(t, a, b, amount) ==
    ClearRange(CopyRows(t, a, b - amount, amount), a, 0, a + amount - 1, t.width - 1)

\* The rows from..to of the screen and their columns a..b, drawn from the buffer: the
\* loops of __guac_terminal_redraw_rect and guac_terminal_scroll_display_up and _down
Redraw(t, from, to, a, b) ==
    LET Draw(u, row) ==
            LET cells == GetRow(t, row - t.scroll_offset).cells
                shown == SelectSeq(Interval(a, Min({b, MaxWidth})), LAMBDA c : cells[c] # Blank)
            IN FoldLeft(LAMBDA v, c : DisplaySet(v, row, c, c, cells[c]),
                        DisplaySet(u, row, a, b, Blank), shown)
    IN FoldLeft(Draw, t, Interval(from, to))

\* guac_terminal_scroll_display_down
ScrollDisplayDown(t, wanted) ==
    LET n == Min({wanted, t.scroll_offset})
        u == IF t.height > n THEN DisplayCopyRows(t, n, t.height - 1, -n) ELSE t
    IN IF n <= 0 THEN t
       ELSE Redraw([u EXCEPT !.scroll_offset = @ - n], t.height - n, t.height - 1,
                   0, MaxWidth)

\* guac_terminal_scroll_display_up
ScrollDisplayUp(t, wanted) ==
    LET n == Min({wanted, AvailableScroll(t) - t.scroll_offset})
        u == IF t.height > n THEN DisplayCopyRows(t, 0, t.height - n - 1, n) ELSE t
    IN IF n <= 0 THEN t
       ELSE Redraw([u EXCEPT !.scroll_offset = @ + n], 0, n - 1, 0, MaxWidth)

\* A cell of the buffer gets or loses the cursor: its row is reached so far.
BufferMark(t, row, col, cell) ==
    [t EXCEPT !.rows[Index(t, row)] = Reached(@, col + 1, [@.cells EXCEPT ![col] = cell])]

\* guac_terminal_commit_cursor
CommitCursor(t) ==
    LET Mark(u, row, col, on) ==
            LET cell == Cell(GetRow(u, row).cells[col].ch, on)
            IN BufferMark(DisplaySet(u, row + u.scroll_offset, col, col, cell), row, col, cell)
        u == Mark(Mark(t, t.visible_cursor_row, t.visible_cursor_col, FALSE),
                  t.cursor_row, t.cursor_col, TRUE)
    IN IF t.visible_cursor_row = t.cursor_row /\ t.visible_cursor_col = t.cursor_col THEN t
       ELSE [u EXCEPT !.visible_cursor_row = t.cursor_row, !.visible_cursor_col = t.cursor_col]

\* guac_terminal_reset
ResetTerm(t) ==
    LET u == [t EXCEPT !.cursor_row = 0, !.visible_cursor_row = 0, !.saved_cursor_row = 0,
                       !.cursor_col = 0, !.visible_cursor_col = 0, !.saved_cursor_col = 0,
                       !.top = 0, !.length = 0, !.scroll_start = 0,
                       !.scroll_end = t.height - 1, !.scroll_offset = 0,
                       !.insert_mode = FALSE, !.automatic_carriage_return = FALSE]
    IN FoldLeft(LAMBDA v, row : SetColumns(v, row, 0, t.width, Blank), u,
                Interval(0, t.height - 1))

\* The first part of __guac_terminal_resize: a lower terminal shifts its rows up.
ShiftedUp(t, width, height) ==
    LET shift == Min({EffectiveLength(t), t.height}) - height
        u == [DisplayCopyRows(t, shift, t.display_height - 1, -shift) EXCEPT
                 !.top = @ + shift, !.cursor_row = @ - shift, !.visible_cursor_row = @ - shift]
    IN IF height < t.height /\ shift > 0
       THEN Redraw(u, height - shift, height - 1, 0, width - 1)
       ELSE t

\* A user who has scrolled back, but by less than the rows revealed: those at the bottom
\* are drawn by the old offset from the new top.
Halfway(t, shift) ==
    IF t.scroll_offset \in 1..(shift - 1) THEN [t EXCEPT !.spoilt = @ \union {"halfway"}] ELSE t

\* The last: a higher one shows rows of the scrollback, at the bottom as far as the
\* user has scrolled back, and then at the top.
ShiftedDown(t, width, height) ==
    LET shift == Min({height - t.height, AvailableScroll(t)})
        u == [Halfway(t, shift) EXCEPT !.top = @ - shift, !.cursor_row = @ + shift, !.visible_cursor_row = @ + shift]
        below == Min({shift, t.scroll_offset})
        above == shift - below
        v == [Redraw(IF above = 0 THEN [u EXCEPT !.scroll_offset = @ - shift] ELSE u,
                     t.height, t.height + below - 1, 0, width - 1)
                 EXCEPT !.scroll_offset = t.scroll_offset - below]
    IN IF height <= t.height \/ AvailableScroll(t) <= 0 THEN t
       ELSE IF above = 0 THEN v
       ELSE Redraw(DisplayCopyRows(v, 0, t.display_height - above - 1, above),
                   0, above - 1, 0, width - 1)

\* The rows from first on are new on the screen and are not drawn, though the ring may
\* still hold text there from before a reset or a resize.
Undrawn(t, first, width, height) ==
    IF \E r \in first..(height - 1), c \in 0..(width - 1) :
           GetRow(t, r - t.scroll_offset).cells[c] # Blank
    THEN [t EXCEPT !.spoilt = @ \union {"undrawn"}] ELSE t

\* guac_terminal_resize
Resized(t, width, height) ==
    LET t1 == DisplayResize(DisplayFlush(ShiftedUp(t, width, height)), width, height)
        t2 == IF width > t.width THEN Redraw(t1, 0, height - 1, t.width - 1, width - 1) ELSE t1
        t3 == ShiftedDown(t2, width, height)
    IN [Undrawn(t3, t.height + t2.top - t3.top, width, height) EXCEPT !.cursor_row = Fit(@, height - 1), !.cursor_col = Fit(@, width - 1),
                  !.width = width, !.height = height, !.scroll_end = height - 1]

-----------------------------------------------------------------------------
(* What the program prints (terminal_handlers.c).                           *)

\* guac_terminal_move_cursor
MoveCursor(t, row, col) ==
    [t EXCEPT !.cursor_row = Fit(row, t.height - 1), !.cursor_col = Fit(col, t.width - 1)]

\* guac_terminal_linefeed
Linefeed(t) ==
    IF t.cursor_row = t.scroll_end THEN ScrollUp(t, t.scroll_start, t.scroll_end, 1)
    ELSE IF t.cursor_row < t.height - 1 THEN [t EXCEPT !.cursor_row = @ + 1]
    ELSE t

\* guac_terminal_reverse_linefeed
ReverseLinefeed(t) ==
    IF t.cursor_row = t.scroll_start THEN ScrollDown(t, t.scroll_start, t.scroll_end, 1)
    ELSE IF t.cursor_row > 0 THEN [t EXCEPT !.cursor_row = @ - 1]
    ELSE t

\* A displayable character of guac_terminal_echo
Echo(t, ch) ==
    LET t1 == IF t.cursor_col >= t.width THEN Linefeed([t EXCEPT !.cursor_col = 0]) ELSE t
        t2 == IF t.insert_mode
              THEN CopyColumns(t1, t1.cursor_row, t1.cursor_col, t.width - 2, 1)
              ELSE t1
        t3 == SetColumns(t2, t2.cursor_row, t2.cursor_col, t2.cursor_col, Cell(ch, FALSE))
    IN [t3 EXCEPT !.cursor_col = @ + 1]

\* Line feed, vertical tab and form feed of guac_terminal_echo
EchoLinefeed(t) ==
    LET u == Linefeed(t)
    IN IF t.automatic_carriage_return THEN MoveCursor(u, u.cursor_row, 0) ELSE u

-----------------------------------------------------------------------------

Call(t) ==
    /\ calls < MaxCalls
    /\ calls' = calls + 1
    /\ term' = t

Amount(n) == IF n = 0 THEN 1 ELSE n

Position(n) == IF n = 0 THEN 0 ELSE n - 1

Character(ch) == Call(Echo(term, ch))

Feed == Call(EchoLinefeed(term))

\* Carriage return, backspace and tab (past the last tab stop)
Control ==
    \E col \in {0, term.cursor_col - 1, term.width - 1} :
        Call(MoveCursor(term, term.cursor_row, col))

\* ESC M
ReverseIndex == Call(ReverseLinefeed(term))

\* ESC E
NextLine == Call(Linefeed(MoveCursor(term, term.cursor_row, 0)))

\* ESC 7 and CSI s
SaveCursor ==
    Call([term EXCEPT !.saved_cursor_row = term.cursor_row, !.saved_cursor_col = term.cursor_col])

\* ESC 8 and CSI u
RestoreCursor == Call(MoveCursor(term, term.saved_cursor_row, term.saved_cursor_col))

\* ESC c
Reset == Call(ResetTerm(term))

\* CSI @
InsertCharacters(n) ==
    LET amount == Amount(n)
        t == IF term.cursor_col + amount < term.width
             THEN CopyColumns(term, term.cursor_row, term.cursor_col,
                              term.width - amount - 1, amount)
             ELSE term
    IN Call(ClearColumns(t, term.cursor_row, term.cursor_col, term.cursor_col + amount - 1))

\* CSI P.  More than the width would reach left of the row.
DeleteCharacters(n) ==
    LET amount == Amount(n)
        t == IF term.cursor_col + amount < term.width
             THEN CopyColumns(term, term.cursor_row, term.cursor_col + amount,
                              term.width - 1, -amount)
             ELSE term
    IN /\ amount <= term.width
       /\ Call(ClearColumns(t, term.cursor_row, term.width - amount, term.width - 1))

\* CSI X
EraseCharacters(n) ==
    Call(ClearColumns(term, term.cursor_row, term.cursor_col, term.cursor_col + Amount(n) - 1))

\* CSI A, B, C, D, E, F, a and e
MoveBy(n) ==
    \E d \in {<<-1, 0>>, <<1, 0>>, <<0, -1>>, <<0, 1>>} :
        Call(MoveCursor(term, term.cursor_row + d[1] * Amount(n),
                        term.cursor_col + d[2] * Amount(n)))

\* CSI H and f (G, d and ` give one of the two)
MoveTo(row, col) == Call(MoveCursor(term, Position(row), Position(col)))

\* CSI J
EraseDisplay(n) ==
    LET bottom == term.height - 1
        right == term.width - 1
    IN \/ n = 0 /\ Call(ClearRange(term, term.cursor_row, term.cursor_col, bottom, right))
       \/ n = 1 /\ Call(ClearRange(term, 0, 0, term.cursor_row, term.cursor_col))
       \/ n \in {2, 3} /\ Call(ClearRange(term, 0, 0, bottom, right))

\* CSI K
EraseLine(n) ==
    LET right == term.width - 1
    IN \/ n = 0 /\ Call(ClearColumns(term, term.cursor_row, term.cursor_col, right))
       \/ n = 1 /\ Call(ClearColumns(term, term.cursor_row, 0, term.cursor_col))
       \/ n = 2 /\ Call(ClearColumns(term, term.cursor_row, 0, right))

\* CSI L and CSI M.  With the height or more the display would read outside its grid.
InsertLines(n) ==
    /\ Amount(n) < term.height
    /\ Call(ScrollDown(term, term.cursor_row, term.scroll_end, Amount(n)))

DeleteLines(n) ==
    /\ Amount(n) < term.height
    /\ Call(ScrollUp(term, term.cursor_row, term.scroll_end, Amount(n)))

\* CSI r, with two arguments that are rows of the terminal or with none
ScrollRegion ==
    \/ \E top, bottom \in 0..(term.height - 1) :
          /\ top <= bottom
          /\ Call([term EXCEPT !.scroll_start = top, !.scroll_end = bottom])
    \/ Call([term EXCEPT !.scroll_start = 0, !.scroll_end = term.height - 1])

\* CSI h and CSI l
Mode(on) ==
    \/ Call([term EXCEPT !.insert_mode = on])
    \/ Call([term EXCEPT !.automatic_carriage_return = on])

\* guac_terminal_set_scrollback
SetScrollback(n) == Call([term EXCEPT !.requested_scrollback = n])

\* The user scrolls: guac_terminal_scroll_handler, the mouse wheel and the keys
Scroll(n) ==
    \/ Call(ScrollDisplayUp(term, n))
    \/ Call(ScrollDisplayDown(term, n))

\* The user's window changes.
Resize(size) ==
    /\ size # <<term.width, term.height>>
    /\ Call(Resized(term, size[1], size[2]))

\* The render thread: guac_terminal_render_frame and guac_terminal_flush
Flush == Call(DisplayFlush(CommitCursor(term)))

\* guac_terminal_create
Created ==
    LET bare == [width |-> Width, height |-> Height, top |-> 0, length |-> 0,
                 rows |-> [i \in 0..(Available - 1) |-> NewRow],
                 cursor_row |-> 0, cursor_col |-> 0,
                 visible_cursor_row |-> 0, visible_cursor_col |-> 0,
                 saved_cursor_row |-> 0, saved_cursor_col |-> 0,
                 scroll_start |-> 0, scroll_end |-> Height - 1, scroll_offset |-> 0,
                 insert_mode |-> FALSE, automatic_carriage_return |-> FALSE,
                 requested_scrollback |-> MaxScrollback,
                 display_width |-> 0, display_height |-> 0,
                 operations |-> <<>>, screen |-> <<>>, spoilt |-> {}]
    IN ResetTerm(DisplayResize(bare, Width, Height))

\* The lines of the prologue, each with its end of line, printed and shown
Printed(t, line) ==
    LET u == FoldLeft(Echo, t, line)
    IN Linefeed(MoveCursor(u, u.cursor_row, 0))

Init ==
    /\ term = DisplayFlush(CommitCursor(FoldLeft(Printed, Created, Prologue)))
    /\ calls = 0

Next ==
    \/ \E ch \in Chars : Character(ch)
    \/ Feed \/ Control \/ ReverseIndex \/ NextLine
    \/ SaveCursor \/ RestoreCursor \/ Reset \/ ScrollRegion \/ Flush
    \/ \E n \in Amounts :
          \/ InsertCharacters(n) \/ DeleteCharacters(n) \/ EraseCharacters(n)
          \/ MoveBy(n) \/ EraseDisplay(n) \/ EraseLine(n)
          \/ InsertLines(n) \/ DeleteLines(n) \/ Scroll(n)
          \/ \E m \in Amounts : MoveTo(n, m)
    \/ \E on \in BOOLEAN : Mode(on)
    \/ \E n \in Scrollbacks : SetScrollback(n)
    \/ \E size \in Sizes : Resize(size)

Spec == Init /\ [][Next]_vars

-----------------------------------------------------------------------------

\* What the screen will show at a cell once the pending operations are carried out
Pending(r, c) ==
    LET op == term.operations[r][c]
    IN CASE op.type = "nop"  -> term.screen[r][c]
         [] op.type = "set"  -> op.cell
         [] op.type = "copy" -> term.screen[op.row][op.col]

\* However printing, erasing, inserting and deleting, scrolling and resizing are
\* interleaved with frames, the pending operations always lead from what is shown to
\* what the buffer holds for the rows the user looks at.
PendingExact ==
    term.spoilt = {} =>
        \A r \in 0..(term.height - 1), c \in 0..(term.width - 1) :
            Pending(r, c) = GetRow(term, r - term.scroll_offset).cells[c]

\* No cell of the screen or the scrollback keeps a cursor the terminal does not know of:
\* the next move of the cursor clears every cell that shows one.
NoGhostCursor ==
    term.spoilt = {} =>
        \A r \in Min({0, -AvailableScroll(term)})..(term.height - 1), c \in 0..(term.width - 1) :
            GetRow(term, r).cells[c].cursor =>
                Index(term, r) = Index(term, term.visible_cursor_row) /\ c = term.visible_cursor_col
=============================================================================
