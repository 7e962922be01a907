------------------------------ MODULE Console -------------------------------
(***************************************************************************)
(* The PC console (drivers/pc_console.c) and the keyboard map              *)
(* (lib/kbtoa.c), as operators on a record c with the fields               *)
(*     mem      console -> its saved screen, the sequence of its           *)
(*              characters; stale for the console that is visible          *)
(*     offset   console -> the cell, from 0, the next character goes to    *)
(*     vga      the screen memory                                          *)
(*     visible  the console that owns the screen memory                    *)
(*     cursor   the cell of the hardware cursor                            *)
(* A cell stands for its character and attribute bytes (CHR of them); the  *)
(* attribute is left out.  Characters are their ASCII codes.               *)
(***************************************************************************)
EXTENDS Integers, Sequences, SequencesExt

CONSTANTS COL, ROW, TAB_WIDTH, NR_CONSOLES

ASSUME ConsoleSize ==
    COL \in Nat \ {0} /\ ROW \in Nat \ {0} /\ TAB_WIDTH \in Nat /\ NR_CONSOLES \in Nat \ {0}

CONSOLE_SIZE == COL * ROW
Cells        == 0 .. CONSOLE_SIZE - 1
Consoles     == 0 .. NR_CONSOLES - 1

BS == 8
TAB == 9
NL == 10
CR == 13
SPACE == 32

Blank(n) == [i \in 1 .. n |-> SPACE]

console_mem(c, index) == IF index = c.visible THEN c.vga ELSE c.mem[index]

Stored(c, index, m) ==
    IF index = c.visible THEN [c EXCEPT !.vga = m] ELSE [c EXCEPT !.mem[index] = m]

Moved(c, index, o) == [c EXCEPT !.offset[index] = o]

Written(c, index, o, ch) == Stored(c, index, [console_mem(c, index) EXCEPT ![o + 1] = ch])

cursor(c, pos) == [c EXCEPT !.cursor = pos]

\* The switch of console_putc, tabs excepted.
Glyph(c, ch, idx) ==
    LET o    == c.offset[idx]
        back == IF o <= 1 THEN 0 ELSE o - 1
    IN  CASE ch = NL -> Moved(c, idx, (o + COL) - ((o + COL) % COL))
          [] ch = CR -> Moved(c, idx, o - (o % COL))
          [] ch = BS -> Written(Moved(c, idx, back), idx, back, SPACE)
          [] OTHER   -> Moved(Written(c, idx, o, ch), idx, o + 1)

\* Every line moves up by one and the last is blank.
Scrolled(c, idx) ==
    Moved(Stored(c, idx, SubSeq(console_mem(c, idx), COL + 1, CONSOLE_SIZE) \o Blank(COL)),
          idx, c.offset[idx] - COL)

\* The end of console_putc: scroll, then show the cursor.
scroll_down(c, idx) == IF c.offset[idx] >= CONSOLE_SIZE THEN Scrolled(c, idx) ELSE c

Settled(c, idx) ==
    IF idx = c.visible THEN cursor(c, c.offset[idx]) ELSE c

Typed(c, ch, idx) == Settled(scroll_down(Glyph(c, ch, idx), idx), idx)

\* A tab is TAB_WIDTH spaces, each printed by a call of its own.
console_putc(c, ch, idx) ==
    IF ch = TAB
    THEN LET after[n \in 0 .. TAB_WIDTH] == IF n = 0 THEN c ELSE Typed(after[n - 1], SPACE, idx)
         IN  after[TAB_WIDTH]
    ELSE Typed(c, ch, idx)

\* Character by character from the left, each on the console e that the one
\* before it leaves.
RECURSIVE Puts(_, _, _)
Puts(c, text, idx) ==
    IF text = << >> THEN c
    ELSE CHOOSE d \in {Puts(e, Tail(text), idx) : e \in {console_putc(c, Head(text), idx)}} : TRUE

\* kprintf: to the console that is visible.
kputs(c, text) == Puts(c, text, c.visible)

\* The hardware cursor moves even if the console is not the visible one.
console_clear(c, index) ==
    cursor(Moved(Stored(c, index, Blank(CONSOLE_SIZE)), index, 0), 0)

\* Mutant: the outgoing screen is not saved.
console_switch_Unsaved(c, index) ==
    IF index >= NR_CONSOLES \/ index = c.visible THEN c
    ELSE cursor([c EXCEPT !.vga = c.mem[index], !.visible = index], c.offset[index])

console_switch(c, index) ==
    IF index >= NR_CONSOLES \/ index = c.visible THEN c
    ELSE cursor([c EXCEPT !.mem[c.visible] = c.vga, !.vga = c.mem[index], !.visible = index],
                c.offset[index])

\* The driver's operations; t is the tty.
console_open(c, t) ==
    IF t.open # 0 THEN c ELSE console_clear(Moved(c, t.index, 0), t.index)

console_close(c, t) == IF t.open # 0 THEN c ELSE console_clear(c, t.index)

console_write(c, t, text) == Puts(c, text, t.index)

console_ioctl(c, t, command) ==
    CASE command = "SWITCH" -> console_switch(c, t.index)
      [] command = "CLEAR"  -> console_clear(c, t.index)
      [] OTHER              -> c                        \* -EINVAL

-----------------------------------------------------------------------------
(* Scan codes *)

NOCHAR == 256
LSHIFT == 42
RSHIFT == 54
LMETA  == 56
LCTL   == 29
CAPSL  == 58

kbcode == << 27, 49, 50, 51, 52, 53, 54, 55, 56, 57,
    48, 45, 61,  8,  9, 113, 119, 101, 114, 116,
    121, 117, 105, 111, 112, 91, 93, 10, 0, 97,
    115, 100, 102, 103, 104, 106, 107, 108, 59, 39,
    96, 0, 92, 122, 120, 99, 118, 98, 110, 109,
    44, 46, 47, 0, 0, 0, 32 >>

kbshift == << 0, 33, 64, 35, 36, 37, 94, 38, 42, 40,
    41, 95, 43,  8,  9, 81, 87, 69, 82, 84,
    89, 85, 73, 79, 80, 123, 125, 10, 0, 65,
    83, 68, 70, 71, 72, 74, 75, 76, 58, 34,
    126, 0, 124, 90, 88, 67, 86, 66, 78, 77,
    60, 62, 63, 0, 0, 0, 32 >>

kbctl == << 0, 0, 0, 0, 0, 0, 0, 0, 0, 0,
    0, 31, 0, 8, 9, 17, 23, 5, 18, 20,
    25, 21, 9, 15, 16, 27, 29, 10, 0, 1,
    19, 4, 6, 7, 8, 10, 11, 12, 0, 0,
    0, 0, 28, 26, 24, 3, 22, 2, 14, 13 >>

\* Entry 0 of each table is 0, and the sequences begin with entry 1.
Entry(table, code) == IF code = 0 THEN 0 ELSE table[code]

Modifier(code) ==
    CASE code \in {LSHIFT, RSHIFT} -> {"INSHIFT"}
      [] code = LCTL               -> {"INCTL"}
      [] code = LMETA              -> {"INMETA"}
      [] OTHER                     -> {}

\* The keyboard state after a scan code; codes from 128 on are releases.
kbstate(state, code) ==
    CASE code >= 128  -> state \ Modifier(code - 128)
      [] code = CAPSL -> (state \ {"INCAPS"}) \cup ({"INCAPS"} \ state)
      [] OTHER        -> state \cup Modifier(code)

kbtoa(state, code) ==
    LET plain == IF "INCTL" \in state /\ code <= Len(kbctl) THEN Entry(kbctl, code)
                 ELSE IF code > Len(kbcode) THEN NOCHAR
                 ELSE IF ("INCAPS" \in state) # ("INSHIFT" \in state) THEN Entry(kbshift, code)
                 ELSE Entry(kbcode, code)
    IN  IF code >= 128 \/ code = CAPSL \/ Modifier(code) # {} THEN NOCHAR
        ELSE IF "INMETA" \in state THEN plain + 128 ELSE plain
=============================================================================
