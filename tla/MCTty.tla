------------------------------- MODULE MCTty --------------------------------
(***************************************************************************)
(* Instances of Tty.  A behaviour runs one of the programs: which calls    *)
(* are made and how many, with which lengths, texts and minor numbers,     *)
(* what the kernel prints, and which keys are pressed.                     *)
(***************************************************************************)
EXTENDS Tty

KeyA      == 30
KeyD      == 32
KeyErase  == 14
KeyEnter  == 28
F1        == 59
F2        == 60
Up(code)  == code + 128

Just(text) ==
    <<[text |-> text, flags |-> << >>, width |-> -1, prec |-> -1, stars |-> {}, qual |-> << >>,
       conv |-> 0, arg |-> Word(0)]>>

\* A directive between other text, so that what is read behind it counts too.
One(fl, w, p, st, q, c, a) ==
    <<[text |-> <<98>>, flags |-> fl, width |-> w, prec |-> p, stars |-> st, qual |-> q,
       conv |-> c, arg |-> a],
      [text |-> <<32, 98>>, flags |-> << >>, width |-> -1, prec |-> -1, stars |-> {}, qual |-> << >>,
       conv |-> Ch.d, arg |-> Word(7)]>>

String(text) == [n |-> PAGE_SIZE, s |-> text]

FlagSeqs == {<< >>, <<Ch.minus>>, <<Ch.zero>>, <<Ch.plus>>, <<Ch.space>>, <<Ch.hash>>,
             <<Ch.minus, Ch.zero>>, <<Ch.space, Ch.plus>>, <<Ch.hash, Ch.zero>>}
Stars    == {{}, {"bare"}, {"width"}, {"prec"}, {"width", "prec"}}

\* Every number of digits, and the borders of the ways to divide by ten.
Numbers == {0, 9, 10, 255, 999, 1000, 9999, 10000, 65535, 123456, 9999999, 99999999, 100000000,
            268435455, 999999999, 1000000000}

Numerals ==
    { One(fl, w, p, {}, q, c, Word(n)) :
        fl \in FlagSeqs, w \in {-1, 6}, p \in {-1, 0, 4}, q \in {<< >>, <<Ch.l>>, <<Ch.h, Ch.h>>},
        c \in {Ch.d, Ch.u, Ch.o, Ch.x, Ch.X}, n \in Numbers }
    \cup { One(fl, w, p, st, q, Ch.i, Word(n)) :
        fl \in FlagSeqs, w \in {-5, 5}, p \in {-1, 3}, st \in {{"width"}, {"width", "prec"}, {"width", "bare"}},
        q \in {<<Ch.h>>, <<Ch.z>>, <<Ch.t>>, <<Ch.l, Ch.l>>, <<Ch.L>>}, n \in {-40000, -12, -1, 0, 40000} }
    \cup { One(<< >>, -1, -1, {}, << >>, Ch.d, Word(n)) : n \in {-1000000000, -999999999} }

Others ==
    { One(fl, w, p, st, << >>, Ch.s, s) :
        fl \in {<< >>, <<Ch.minus>>}, w \in {3, 7}, p \in {-1, 0, 2, 6}, st \in Stars,
        s \in {String(<<98, 98, 98, 98>>), Word(0)} }
    \cup { One(fl, w, -1, {}, << >>, c, Word(n)) :
        fl \in {<< >>, <<Ch.minus>>}, w \in {-1, 1, 3, 11}, c \in {Ch.c, Ch.p, Ch.percent, Ch.n}, n \in {97, 104} }
    \cup { One(<< >>, w, -1, {}, << >>, Ch.p, Word(0)) : w \in {-1, 3, 11} }

MCPrints == {Just(<<98, NL>>)} \cup Numerals \cup Others

MCPrograms ==
   [\* two readers of one console, all the line editing; ctl-d is VEOF
    lines |->
      [calls |-> {"open", "read", "close"}, max |-> 5, lens |-> {1, TTY_BUFFER_SIZE}, minors |-> {0},
       texts |-> {}, prints |-> {}, keys |-> {KeyA, KeyErase, KeyEnter, LCTL, KeyD}],
    \* two consoles that come to share a tty
    shared |->
      [calls |-> {"open", "read", "close"}, max |-> 5, lens |-> {TTY_BUFFER_SIZE}, minors |-> {0, 1},
       texts |-> {}, prints |-> {}, keys |-> {KeyA, KeyEnter}],
    \* two consoles, everything that prints
    screens |->
      [calls |-> {"open", "close", "write", "ioctl", "kprintf"}, max |-> 4, lens |-> {1},
       minors |-> 0 .. NR_CONSOLES, texts |-> {<<98, NL>>, <<TAB>>, <<98, 98, BS, CR>>},
       prints |-> {Just(<<98, NL>>), Just(<<98, 98, BS, CR>>)}, keys |-> {F1, F2, KeyA}],
    \* the modifiers, and keys that have no character
    modifiers |->
      [calls |-> {"open", "read"}, max |-> 3, lens |-> {TTY_BUFFER_SIZE}, minors |-> {0}, texts |-> {}, prints |-> {},
       keys |-> {LSHIFT, Up(RSHIFT), CAPSL, LMETA, Up(LMETA), LCTL, Up(LCTL), KeyA, F2, 87}],
    \* one print of every kind
    formats |->
      [calls |-> {"kprintf"}, max |-> 1, lens |-> {1}, minors |-> {}, texts |-> {}, prints |-> MCPrints, keys |-> {}]]
=============================================================================
