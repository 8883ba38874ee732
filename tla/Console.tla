------------------------------ MODULE Console -------------------------------
(***************************************************************************)
(* The console: tty_write (yanix/tty/tty_dev.c), which programs and the    *)
(* echo of the keyboard share, and the line of standard input that keys    *)
(* are put into and taken from (drivers/keyboard.c, fs/fs.c).              *)
(*                                                                         *)
(* A character on a screen cell is a string, without its colour; a text is *)
(* a sequence of characters and escape sequences, Token below.  The pipe   *)
(* of standard input (see Pipe) is the sequence of its unread bytes.       *)
(*                                                                         *)
(* tty_write runs with interrupts on, in system calls and, since the write *)
(* of the input event has enabled interrupts, in the keyboard interrupt: a *)
(* step is one character of a text, or one of the loading and the drawing  *)
(* of a cell, and tasks and the interrupt come in between.                 *)
(***************************************************************************)
EXTENDS Integers, Sequences, FiniteSetsExt

CONSTANTS Tasks, Readers,       \* the tasks, and those that read
          Irq,                  \* the keyboard interrupt
          COLS, ROWS,           \* col_max and row_max
          Keys,                 \* the characters that are typed
          Texts,                \* the texts that tasks write
          ReadSizes,            \* what readers ask for
          MaxEvents             \* bound on keys and calls, which count twice

NL == "newline"
BS == "backspace"
Blank == " "                    \* also the byte 0

ASSUME ConsoleAssumption ==
  /\ {COLS, ROWS} \subseteq Nat \ {0, 1} /\ MaxEvents \in Nat
  /\ Readers \subseteq Tasks /\ Irq \notin Tasks /\ ReadSizes \subseteq Nat \ {0}

VARIABLES cells,        \* tty_dev->buffer
          cursor,       \* c_col and c_row
          disabled,
          shown,        \* what is on the screen
          w,            \* the tty_write that a task or the interrupt is in
          irq,          \* the interrupt: where it is, and the task under it
          line,         \* the unread bytes of standard input
          cursize,      \* how many of them readers may be given
          rd,           \* the size a blocked reader asked for, or 0
          events,       \* the calls and keys so far
          paper,        \* history: the rows of all text that was written,
          at,           \* and where on them the next character goes
          overlap,      \* two writes were under way at once since a clear,
          stale,        \* or since a clear or a scroll, or a write went back
          due, now,     \* history: the lines that are not yet read, and the one
                        \* that is being typed, as the user has edited them
          late          \* a backspace came after the end of its line

tty == <<cells, cursor, disabled, shown>>
input == <<line, cursize, rd, due, now, late>>
history == <<paper, at, overlap, stale>>
vars == <<tty, w, irq, input, events, history>>

Actors == Tasks \cup {Irq}
Cols == 0..COLS - 1
Rows == 0..ROWS - 1
Empty == [r \in Rows |-> [c \in Cols |-> Blank]]
Idle == [pc |-> "idle", text |-> <<>>, col |-> 0, row |-> 0, startc |-> 0, startr |-> 0,
         full |-> FALSE, i |-> 0, end |-> 0, ch |-> Blank, then |-> "idle"]

Corner == [col |-> 0, row |-> 1]
Front(s) == SubSeq(s, 1, Len(s) - 1)

\* After clear_screenk.
Init ==
  /\ cells = Empty /\ shown = Empty /\ disabled = FALSE
  /\ cursor = [col |-> 0, row |-> 0]
  /\ w = [a \in Actors |-> Idle]
  /\ irq = [pc |-> "idle", on |-> Irq]
  /\ line = <<>> /\ cursize = 0 /\ rd = [t \in Readers |-> 0]
  /\ due = <<>> /\ now = <<>> /\ late = FALSE
  /\ events = 0
  /\ paper = <<Empty[0]>> /\ at = Corner /\ overlap = FALSE /\ stale = FALSE

Event(n) == events + n <= MaxEvents /\ events' = events + n

\* An actor may go on; the task that the interrupt is on may not.
Runs(a) == irq.on # a

-----------------------------------------------------------------------------
\* The cells are numbered by rows.
Place(r, c) == r * COLS + c
Cell(rows, i) == rows[i \div COLS][i % COLS]

\* Mutant of Draws: the column of the end is left out.
Draws_rows(l, sr, sc, er, ec, then) ==
  IF Place(sr, sc) < Place(er, 0)
  THEN [l EXCEPT !.pc = "load", !.i = Place(sr, sc), !.end = Place(er, 0), !.then = then]
  ELSE IF then = "idle" THEN Idle ELSE [l EXCEPT !.pc = then]

\* tty_update_display begins, at a start and up to an end that is not part of it.
Draws(l, sr, sc, er, ec, then) ==
  IF Place(sr, sc) < Place(er, ec)
  THEN [l EXCEPT !.pc = "load", !.i = Place(sr, sc), !.end = Place(er, ec), !.then = then]
  ELSE IF then = "idle" THEN Idle ELSE [l EXCEPT !.pc = then]

\* The interrupt returns when its echo is done.
Returns(a) == irq' = IF a = Irq /\ w'[a].pc = "idle" THEN [pc |-> "idle", on |-> Irq] ELSE irq

\* The next character of the buffer is loaded ...
tty_update_display(a) ==
  /\ Runs(a) /\ w[a].pc = "load"
  /\ w' = [w EXCEPT ![a].pc = "draw", ![a].ch = Cell(cells, w[a].i)]
  /\ UNCHANGED <<tty, irq, input, events, history>>

\* ... and drawn, whatever is in the buffer by then.
video_draw_char(a) ==
  LET l == w[a]
  IN /\ Runs(a) /\ l.pc = "draw"
     /\ shown' = [shown EXCEPT ![l.i \div COLS][l.i % COLS] = l.ch]
     /\ w' = [w EXCEPT ![a] =
          IF l.i + 1 < l.end THEN [l EXCEPT !.pc = "load", !.i = @ + 1, !.ch = Blank]
          ELSE IF l.then = "idle" THEN Idle
          ELSE [l EXCEPT !.pc = l.then, !.i = 0, !.end = 0, !.ch = Blank, !.then = "idle"]]
     /\ Returns(a)
     /\ UNCHANGED <<cells, cursor, disabled, input, events, history>>

Alone(a) == \A b \in Actors \ {a} : w[b].pc = "idle"

\* tty_write begins.  A write that overlaps another one ends the history.
Starts(a, text) ==
  /\ w' = [w EXCEPT ![a] =
       IF disabled THEN Idle
       ELSE [Idle EXCEPT !.pc = "write", !.text = text, !.col = cursor.col, !.row = cursor.row,
                         !.startc = cursor.col, !.startr = cursor.row]]
  /\ overlap' = (overlap \/ ~(disabled \/ Alone(a)))
  /\ stale' = (stale \/ ~(disabled \/ Alone(a)))
  /\ IF overlap' THEN paper' = <<>> /\ at' = Corner ELSE UNCHANGED <<paper, at>>

Put(rows, r, c, ch) == [rows EXCEPT ![r][c] = ch]

\* What a token does to cells and cursor: rows are the cells or the paper, and
\* top is the row of the screen's first line there.
Token(x, rows, p, top) ==
  CASE x.k = "char" -> [rows |-> Put(rows, p.row, p.col, x.c), col |-> p.col + 1, row |-> p.row]
    [] x.k = "newline" -> [rows |-> rows, col |-> 0, row |-> p.row + 1]
    [] x.k = "tab" -> [rows |-> rows, col |-> p.col + 4, row |-> p.row]
    [] x.k = "back" ->
         IF p.col = 0 THEN [rows |-> rows, col |-> 0, row |-> p.row]
         ELSE [rows |-> Put(rows, p.row, p.col - 1, Blank), col |-> p.col - 1, row |-> p.row]
    [] x.k = "home" -> [rows |-> rows, col |-> 0, row |-> top]
    [] x.k = "clear" -> [rows |-> [r \in DOMAIN rows |->
                           IF r >= top THEN Empty[0] ELSE rows[r]],
                         col |-> p.col, row |-> p.row]
    [] x.k = "goto" -> [rows |-> rows, col |-> x.c - 1, row |-> top + x.r - 1]
    [] x.k = "up" ->
         [rows |-> rows, col |-> p.col,
          row |-> IF x.n > p.row - top THEN p.row - (x.n - (p.row - top)) ELSE p.row - x.n]
    [] x.k = "right" ->
         [rows |-> rows, row |-> p.row,
          col |-> p.col + IF p.col + x.n > COLS - 1 THEN COLS - 1 - x.n ELSE x.n]
    [] x.k = "color" -> [rows |-> rows, col |-> p.col, row |-> p.row]

\* At the end of a line the next one begins.
Wrapped(p) == IF p.col >= COLS THEN [col |-> 0, row |-> p.row + 1]
                               ELSE [col |-> p.col, row |-> p.row]

\* The same text on paper, which has room for every row: the screen is its end.
\* A clear with no other write under way begins a new paper.
Top == IF Len(paper) > ROWS THEN Len(paper) - ROWS + 1 ELSE 1
OnPaper(a, x) ==
  CASE overlap /\ x.k = "clear" /\ Alone(a) ->
         /\ paper' = [k \in 1..ROWS |-> Empty[0]]
         /\ at' = [col |-> w[a].col, row |-> w[a].row + 1]
         /\ overlap' = FALSE
    [] overlap /\ ~(x.k = "clear" /\ Alone(a)) -> UNCHANGED <<paper, at, overlap>>
    [] OTHER -> LET p == Token(x, paper, at, Top)
                    next == Wrapped(p)
                IN /\ at' = next
                   /\ paper' = p.rows \o [k \in 1..next.row - Len(p.rows) |-> Empty[0]]
                   /\ UNCHANGED overlap

\* A move to in front of what the write has done, or one up, which leaves the
\* start of what is to be displayed where it is.
GoesBack(l, x, p) ==
  /\ ~l.full
  /\ \/ x.k = "up"
     \/ /\ x.k \in {"home", "goto"}
        /\ Place(l.startr, l.startc) < Place(l.row, l.col)
        /\ Place(p.row, p.col) < Place(l.row, l.col)

\* The next character or escape sequence of a text; home and goto also move the
\* start of what is to be displayed.  A cursor that is moved up to above the
\* first row is not followed: the writer stays there.
character(a) ==
  LET l == w[a]
      x == Head(l.text)
      p == Token(x, cells, l, 0)
      next == Wrapped(p)
      on == [l EXCEPT !.text = Tail(@), !.col = next.col, !.row = next.row,
                      !.startc = IF x.k \in {"home", "goto"} THEN Min({@, p.col}) ELSE @,
                      !.startr = IF x.k \in {"home", "goto"} THEN Min({@, p.row}) ELSE @,
                      !.pc = IF next.row >= ROWS THEN "scroll" ELSE "write"]
  IN /\ Runs(a) /\ l.pc = "write" /\ l.text # <<>> /\ p.row >= 0
     /\ cells' = p.rows
     /\ w' = [w EXCEPT ![a] =
          CASE x.k = "back" /\ l.col > 0 -> Draws(on, l.row, l.col - 1, l.row, l.col, "write")
            [] x.k = "clear" -> Draws(on, 0, 0, ROWS - 1, COLS - 1, "write")
            [] OTHER -> on]
     /\ cursor' = IF x.k = "clear" THEN [col |-> 0, row |-> 0] ELSE cursor
     /\ OnPaper(a, x)
     /\ stale' = IF x.k = "clear" /\ Alone(a) THEN FALSE ELSE stale \/ GoesBack(l, x, p)
     /\ UNCHANGED <<disabled, shown, irq, input, events>>

Scrolled == [r \in Rows |-> IF r + 1 \in Rows THEN cells[r + 1] ELSE Empty[0]]

\* Mutant of tty_scroll: the cursor stays below the last row's start.
tty_scroll_twice(a) ==
  /\ Runs(a) /\ w[a].pc = "scroll"
  /\ cells' = Scrolled /\ shown' = Empty
  /\ w' = [w EXCEPT ![a].pc = "write", ![a].full = TRUE, ![a].col = 0, ![a].row = @ - 2]
  /\ stale' = (stale /\ ~Alone(a))
  /\ UNCHANGED <<cursor, disabled, irq, input, events, paper, at, overlap>>

\* The end of the screen is reached.
tty_scroll(a) ==
  /\ Runs(a) /\ w[a].pc = "scroll"
  /\ cells' = Scrolled /\ shown' = Empty
  /\ w' = [w EXCEPT ![a].pc = "write", ![a].full = TRUE, ![a].col = 0, ![a].row = @ - 1]
  /\ stale' = (stale /\ ~Alone(a))
  /\ UNCHANGED <<cursor, disabled, irq, input, events, paper, at, overlap>>

\* The text ends: the cursor is where it has got to, and the display is updated,
\* in full after a scroll.
update(a) ==
  LET l == w[a]
  IN /\ Runs(a) /\ l.pc = "write" /\ l.text = <<>>
     /\ cursor' = [col |-> l.col, row |-> l.row]
     /\ w' = [w EXCEPT ![a] =
          IF l.full THEN Draws(l, 0, 0, ROWS - 1, COLS - 1, "idle")
                    ELSE Draws(l, l.startr, l.startc, l.row, l.col, "idle")]
     /\ Returns(a)
     /\ UNCHANGED <<cells, disabled, shown, input, events, history>>

Calls(t) == w[t] = Idle /\ (t \in Readers => rd[t] = 0)

\* A task writes to standard output.
tty_stdoutwrite(t) ==
  /\ Runs(t) /\ Calls(t)
  /\ Event(2)
  /\ \E text \in Texts : Starts(t, text)
  /\ UNCHANGED <<tty, irq, input>>

\* ioctl: TC_DISABLE and TC_ENABLE.
termios_cmd(t) ==
  /\ Runs(t) /\ Calls(t) /\ Event(2)
  /\ disabled' = ~disabled
  /\ UNCHANGED <<cells, cursor, shown, w, irq, input, history>>

-----------------------------------------------------------------------------
Typed(key) == CASE key = NL -> [k |-> "newline"]
                [] key = BS -> [k |-> "back"]
                [] OTHER -> [k |-> "char", c |-> key]

Done == [pc |-> "idle", on |-> Irq]

\* The interrupt, on task t, echoes a key and returns.
Echo(t, key) ==
  /\ Starts(Irq, <<Typed(key)>>)
  /\ irq' = IF disabled THEN Done ELSE [pc |-> "echo", on |-> t]

\* keyboard_callback, send_scancode and tty_stdinwrite, on a task t, for a key
\* that is put into the pipe; a newline lets readers have what is there.  The
\* user's view of the line goes along.
key_put(t) ==
  /\ irq = Done /\ Event(1)
  /\ \E key \in Keys \ {BS} :
       /\ line' = Append(line, key)
       /\ cursize' = IF key = NL THEN Len(line) + 1 ELSE cursize
       /\ due' = IF key = NL THEN due \o Append(now, key) ELSE due
       /\ now' = IF key = NL THEN <<>> ELSE Append(now, key)
       /\ Echo(t, key)
  /\ UNCHANGED <<tty, rd, late>>

\* The same for a backspace: pipe_remove looks if there is anything unread ...
key_remove(t) ==
  /\ irq = Done /\ BS \in Keys /\ Event(1)
  /\ late' = (late \/ (now = <<>> /\ line # <<>>))
  /\ now' = IF now = <<>> THEN now ELSE Front(now)
  /\ irq' = IF line = <<>> THEN Done ELSE [pc |-> "drop", on |-> t]
  /\ UNCHANGED <<tty, w, line, cursize, rd, due, history>>

\* Mutant of key_drop: the oldest byte is taken back.
key_drop_first ==
  /\ irq.pc = "drop" /\ line # <<>>
  /\ line' = Tail(line)
  /\ Echo(irq.on, BS)
  /\ UNCHANGED <<tty, cursize, rd, due, now, late, events>>

\* ... and takes the last byte back, but not from cursize.  If a reader has
\* emptied the pipe in between, which needs a late backspace, virtual_end goes
\* below virtual_begin; the model leaves the interrupt there.
key_drop ==
  /\ irq.pc = "drop" /\ line # <<>>
  /\ line' = Front(line)
  /\ Echo(irq.on, BS)
  /\ UNCHANGED <<tty, cursize, rd, due, now, late, events>>

\* A read of standard input waits for cursize ...
pipe_read(t) ==
  /\ t \in Readers /\ Runs(t) /\ Calls(t)
  /\ \E n \in ReadSizes : rd' = [rd EXCEPT ![t] = n]
  /\ UNCHANGED <<tty, w, irq, line, cursize, due, now, late, events, history>>

\* ... and takes no more.
ringbuffer_read(t) ==
  /\ t \in Readers /\ Runs(t) /\ rd[t] > 0 /\ cursize > 0
  /\ LET n == Min({rd[t], cursize, Len(line)})
     IN /\ due' = SubSeq(due, n + 1, Len(due))
        /\ line' = SubSeq(line, n + 1, Len(line))
        /\ cursize' = cursize - n
  /\ rd' = [rd EXCEPT ![t] = 0]
  /\ UNCHANGED <<tty, w, irq, now, late, events, history>>

-----------------------------------------------------------------------------
Next ==
  \/ \E a \in Actors : \/ character(a) \/ tty_scroll(a) \/ update(a)
                       \/ tty_update_display(a) \/ video_draw_char(a)
  \/ key_drop
  \/ \E t \in Tasks : \/ tty_stdoutwrite(t) \/ termios_cmd(t)
                      \/ key_put(t) \/ key_remove(t)
                      \/ pipe_read(t) \/ ringbuffer_read(t)

Spec == Init /\ [][Next]_vars

-----------------------------------------------------------------------------
\* "Updating the display to show the actual characters": once no write is under
\* way, the screen shows what is in the buffer.  Writes that overlap leave
\* characters on it that a draw had loaded before, and a write that moves the
\* cursor back leaves out what it wrote behind it; the next clear or scroll of a
\* write that is alone puts the screen right, whatever came before.
ScreenShows == ~stale /\ (\A a \in Actors : w[a].pc = "idle") => shown = cells

\* Nothing that was written is lost or moved by wrapping, scrolling or moving
\* the cursor: the buffer is the end of all text since the last clear, unless
\* writes overlapped after it.
TextKept ==
  ~overlap /\ (\A a \in Actors : w[a].pc # "scroll") =>
    /\ \A r \in Rows : cells[r] = IF Top + r <= Len(paper) THEN paper[Top + r] ELSE Empty[0]
    /\ \A a \in Actors : w[a].pc # "idle" => at = [col |-> w[a].col, row |-> Top + w[a].row]

\* Readers get the lines that were typed, as they were edited, and all that is
\* counted for them, as long as no end of a line was taken back.
InputRight ==
  ~late => cursize <= Len(line) /\ SubSeq(line, 1, cursize) = due
=============================================================================
