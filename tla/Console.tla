------------------------------ MODULE Console ------------------------------
(***************************************************************************)
(* The keyboard interrupt (bmos/interrupt.asm), os_input and os_input_key  *)
(* (bmos/syscalls/input.asm) and the text screen they echo on              *)
(* (bmos/syscalls/screen.asm), on the BSP.                                 *)
(*                                                                         *)
(* The interrupt leaves one key in the byte key; os_input takes it from    *)
(* there with a load and a later store of 0, between which the interrupt   *)
(* may come.  Where os_input is (pc):                                      *)
(*   idle     not called                                                   *)
(*   more     at os_input_more: show the cursor                            *)
(*   load     in os_input_key: mov al, [key]                               *)
(*   clear    in os_input_key: mov byte [key], 0                           *)
(*   got      back with a key in AL                                        *)
(*   halt     at os_input_halt, about to execute hlt                       *)
(*   asleep   stopped by hlt until an interrupt arrives                    *)
(***************************************************************************)
EXTENDS Naturals, Sequences, SequencesExt

CONSTANTS
  Layout,     \* what each scan code stands for, <<lower, upper>>, as keylayoutlower and -upper
  Printable,  \* the codes 32 to 126
  Rows, Cols, \* the screen
  TabStop,    \* columns between tabs (8 in the code)
  MaxLine,    \* RCX: the most characters os_input accepts
  MaxKeys,    \* keys pressed (bounds the model)
  MaxPrints   \* characters the program prints between its inputs (bounds the model)

NoKey == "0"
Enter == "enter"
Backspace == "backspace"
Blank == " "
Underscore == "_"
NewLine == "newline"
Tab == "tab"

\* The line fits on the screen: the CLI asks for 250 characters on 24 rows of 80 and more.
\* A text screen has 25 rows, a graphics one the rows of its mode divided by 12.
\* Enter (0x1C), Backspace (0x0E) and 0 are below 32.
ASSUME ConsoleAssumption ==
  /\ Printable \cap {NoKey, Enter, Backspace} = {}
  /\ Rows \in 1 .. 256 /\ Cols \in Nat \ {0} /\ TabStop \in Nat \ {0}
  /\ MaxLine \in Nat /\ MaxLine < (Rows - 1) * Cols
  /\ MaxKeys \in Nat /\ MaxPrints \in Nat

VARIABLES
  key,       \* the byte between interrupt and program, NoKey for 0
  key_shift, \* is a shift key down?
  term,      \* the screen: its cells row by row, and the cursor's row and column
  pc, al,    \* where os_input is, and its AL
  string,    \* the characters at the address the program has given
  rcx, rdi,  \* os_input's count, and its place in the string
  pressed,   \* the keys pressed that stand for something
  taken,     \* the keys os_input has taken
  since,     \* how many of them before this call
  prints     \* characters printed

inputVars == <<string, rcx, rdi, taken, since>>
consoleVars == <<key, key_shift, term, pc, al, inputVars, pressed, prints>>

Cells == 0 .. Rows * Cols - 1

\* start in kernel64.asm leaves the cursor at the left of the last row.
ConsoleInit ==
  /\ key = NoKey
  /\ key_shift = FALSE
  /\ term = [cells |-> [i \in Cells |-> Blank], row |-> Rows - 1, col |-> 0]
  /\ pc = "idle"
  /\ al = NoKey
  /\ string = [i \in 0 .. MaxLine |-> NoKey]
  /\ rcx = 0
  /\ rdi = 0
  /\ pressed = <<>>
  /\ taken = <<>>
  /\ since = 0
  /\ prints = 0

-----------------------------------------------------------------------------
(* The screen: each operator is what a function makes of the screen t.     *)

os_screen_scroll(t) ==
  [t EXCEPT !.cells = [i \in Cells |-> IF i + Cols \in Cells THEN @[i + Cols] ELSE Blank]]

os_inc_cursor(t) ==
  IF t.col + 1 # Cols THEN [t EXCEPT !.col = @ + 1]
  ELSE LET below == [t EXCEPT !.col = 0, !.row = @ + 1]
       IN  IF below.row # Rows THEN below
           ELSE [os_screen_scroll(below) EXCEPT !.row = @ - 1]

\* On 16 bits: at the top left corner the row becomes 65535.
os_dec_cursor(t) ==
  IF t.col # 0 THEN [t EXCEPT !.col = @ - 1]
  ELSE [t EXCEPT !.row = (@ + 65535) % 65536, !.col = Cols - 1]

\* The offset takes the row from AL, its low 8 bits; past the screen it is other memory.
Offset(t) == (t.row % 256) * Cols + t.col

os_output_char(t, c) ==
  os_inc_cursor([t EXCEPT !.cells = [i \in Cells |-> IF i = Offset(t) THEN c ELSE @[i]]])

os_print_newline(t) ==
  IF t.row = Rows - 1 THEN os_screen_scroll([t EXCEPT !.col = 0])
  ELSE [t EXCEPT !.col = 0, !.row = @ + 1]

\* Blanks up to the next tab stop.
OutputTab(t) ==
  LET n == ((t.col + TabStop) \div TabStop) * TabStop - t.col
      Out[i \in 0 .. n] == IF i = 0 THEN t ELSE os_output_char(Out[i - 1], Blank)
  IN  Out[n]

-----------------------------------------------------------------------------
(* Interrupts                                                              *)

\* A plausible bug: the jump after hlt goes back to the hlt.
WokenToHalt == IF pc = "asleep" THEN "halt" ELSE pc

\* The instruction after hlt is a jmp to os_input_more.
Woken == IF pc = "asleep" THEN "more" ELSE pc

\* A make code is translated, whatever it is, and stored over the key that is there.  Keys
\* that stand for nothing are stored as 0.  The two tables have 59 entries: a scan code from
\* 0x3B on reads what comes behind them, the lower table the upper one, the upper one palette.
KeyDown(scan) ==
  LET code == Layout[scan][IF key_shift THEN 2 ELSE 1]
  IN  /\ Len(pressed) < MaxKeys
      /\ key' = code
      /\ pressed' = IF code = NoKey THEN pressed ELSE Append(pressed, code)
      /\ pc' = Woken
      /\ UNCHANGED <<key_shift, term, al, inputVars, prints>>

Shift(down) ==
  /\ key_shift' = down
  /\ pc' = Woken
  /\ UNCHANGED <<key, term, al, inputVars, pressed, prints>>

\* The clock, and the break code of a key that is not a shift key.
Interrupt ==
  /\ pc = "asleep"
  /\ pc' = Woken
  /\ UNCHANGED <<key, key_shift, term, al, inputVars, pressed, prints>>

-----------------------------------------------------------------------------
(* os_input                                                                *)

\* mov rdx, rcx; xor rcx, rcx
CallInput ==
  /\ pc = "idle"
  /\ pc' = "more"
  /\ rcx' = 0
  /\ rdi' = 0
  /\ since' = Len(taken)
  /\ UNCHANGED <<key, key_shift, term, al, string, taken, pressed, prints>>

ShowCursor ==
  /\ pc = "more"
  /\ pc' = "load"
  /\ term' = os_dec_cursor(os_output_char(term, Underscore))
  /\ UNCHANGED <<key, key_shift, al, inputVars, pressed, prints>>

KeyLoad ==
  /\ pc = "load"
  /\ al' = key
  /\ pc' = IF key = NoKey THEN "halt" ELSE "clear"
  /\ UNCHANGED <<key, key_shift, term, inputVars, pressed, prints>>

\* A plausible bug: the key is left where it is.
KeyNotCleared ==
  /\ pc = "clear"
  /\ taken' = Append(taken, al)
  /\ pc' = "got"
  /\ UNCHANGED <<key, key_shift, term, al, string, rcx, rdi, since, pressed, prints>>

KeyClear ==
  /\ pc = "clear"
  /\ key' = NoKey
  /\ taken' = Append(taken, al)
  /\ pc' = "got"
  /\ UNCHANGED <<key_shift, term, al, string, rcx, rdi, since, pressed, prints>>

Halt ==
  /\ pc = "halt"
  /\ pc' = "asleep"
  /\ UNCHANGED <<key, key_shift, term, al, inputVars, pressed, prints>>

\* A plausible bug: the comparisons with 32 and 126 are forgotten.
GotAnyCode ==
  /\ pc = "got"
  /\ al \notin {Enter, Backspace}
  /\ IF rcx = MaxLine
       THEN UNCHANGED <<term, string, rcx, rdi>>
       ELSE /\ string' = [string EXCEPT ![rdi] = al]
            /\ rdi' = rdi + 1
            /\ rcx' = rcx + 1
            /\ term' = os_output_char(term, al)
  /\ pc' = "more"
  /\ UNCHANGED <<key, key_shift, al, taken, since, pressed, prints>>

\* A code below 32 or above 126 that is neither Enter nor Backspace.
GotOther ==
  /\ pc = "got"
  /\ al \notin Printable \cup {Enter, Backspace}
  /\ pc' = "more"
  /\ UNCHANGED <<key, key_shift, term, al, inputVars, pressed, prints>>

\* A character, or one too many.
GotChar ==
  /\ pc = "got"
  /\ al \in Printable
  /\ IF rcx = MaxLine
       THEN UNCHANGED <<term, string, rcx, rdi>>
       ELSE /\ string' = [string EXCEPT ![rdi] = al]
            /\ rdi' = rdi + 1
            /\ rcx' = rcx + 1
            /\ term' = os_output_char(term, al)
  /\ pc' = "more"
  /\ UNCHANGED <<key, key_shift, al, taken, since, pressed, prints>>

\* A plausible bug: the cursor goes back over the blank only.
GotBackspaceOnce ==
  /\ pc = "got"
  /\ al = Backspace
  /\ IF rcx = 0
       THEN UNCHANGED <<term, string, rcx, rdi>>
       ELSE /\ term' = os_dec_cursor(os_output_char(term, Blank))
            /\ string' = [string EXCEPT ![rdi - 1] = NoKey]
            /\ rdi' = rdi - 1
            /\ rcx' = rcx - 1
  /\ pc' = "more"
  /\ UNCHANGED <<key, key_shift, al, taken, since, pressed, prints>>

GotBackspace ==
  /\ pc = "got"
  /\ al = Backspace
  /\ IF rcx = 0
       THEN UNCHANGED <<term, string, rcx, rdi>>
       ELSE /\ term' = os_dec_cursor(os_dec_cursor(os_output_char(term, Blank)))
            /\ string' = [string EXCEPT ![rdi - 1] = NoKey]
            /\ rdi' = rdi - 1
            /\ rcx' = rcx - 1
  /\ pc' = "more"
  /\ UNCHANGED <<key, key_shift, al, taken, since, pressed, prints>>

\* The zero that ends the string, a blank over the cursor, and back to the program.
GotEnter ==
  /\ pc = "got"
  /\ al = Enter
  /\ string' = [string EXCEPT ![rdi] = NoKey]
  /\ term' = os_output_char(term, Blank)
  /\ pc' = "idle"
  /\ UNCHANGED <<key, key_shift, al, rcx, rdi, taken, since, pressed, prints>>

\* os_output_chars, one character of its string.
PrintChar(c) ==
  /\ pc = "idle"
  /\ prints < MaxPrints
  /\ prints' = prints + 1
  /\ term' = CASE c = NewLine -> os_print_newline(term)
               [] c = Tab -> OutputTab(term)
               [] OTHER -> os_output_char(term, c)
  /\ UNCHANGED <<key, key_shift, pc, al, inputVars, pressed>>

-----------------------------------------------------------------------------
InputStep ==
  \/ ShowCursor \/ KeyLoad \/ KeyClear \/ Halt
  \/ GotOther \/ GotChar \/ GotBackspace \/ GotEnter

ConsoleNext ==
  \/ \E scan \in DOMAIN Layout : KeyDown(scan)
  \/ \E down \in BOOLEAN : Shift(down)
  \/ Interrupt
  \/ CallInput
  \/ InputStep
  \/ \E c \in {"x", NewLine, Tab} : PrintChar(c)

ConsoleSpec == ConsoleInit /\ [][ConsoleNext]_consoleVars

\* os_input keeps running, and the clock ticks eight times a second.
ConsoleFairSpec ==
  /\ ConsoleSpec
  /\ WF_consoleVars(InputStep)
  /\ WF_consoleVars(Interrupt)

-----------------------------------------------------------------------------
(* Properties                                                              *)

\* What is edited is what is seen: while os_input waits, the characters of the string stand
\* right before the cursor, over line ends and scrolls, and the cursor shows.
EchoMatches ==
  pc \in {"load", "clear", "got", "halt", "asleep"} =>
    LET here == Offset(term)
    IN  /\ term.cells[here] = Underscore
        /\ \A i \in 0 .. rcx - 1 : term.cells[here - rcx + i] = string[i]

\* What a key makes of a line: a printable character is added while there is room, a
\* backspace takes the last one away, and any other key leaves the line alone.
Struck(text, k) ==
  CASE k \in Printable -> IF Len(text) = MaxLine THEN text ELSE Append(text, k)
    [] k = Backspace -> IF text = <<>> THEN text ELSE Front(text)
    [] OTHER -> text

\* The line that keys make, by definition.
Edit(keys) ==
  LET Text[n \in 0 .. Len(keys)] == IF n = 0 THEN <<>> ELSE Struck(Text[n - 1], keys[n])
  IN  Text[Len(keys)]

\* The string is the line that the keys taken in this call make, and when os_input returns
\* a zero ends it.
LineIsEdit ==
  pc # "got" =>
    LET text == Edit(SubSeq(taken, since + 1, Len(taken)))
    IN  /\ rcx = Len(text)
        /\ \A i \in 1 .. Len(text) : string[i - 1] = text[i]
        /\ pc = "idle" => string[rcx] = NoKey

\* os_input takes keys that were pressed, in their order, each at most once.  Some it may miss:
\* a key is stored over the one before it, and the store of 0 takes a key that came after the
\* load.
KeysInOrder ==
  LET Found[i \in 0 .. Len(pressed)] ==   \* how many of taken the first i pressed account for
        IF i = 0 THEN 0
        ELSE LET n == Found[i - 1]
             IN  IF n < Len(taken) /\ taken[n + 1] = pressed[i] THEN n + 1 ELSE n
  IN  Found[Len(pressed)] = Len(taken)

\* A key that waits while os_input runs is taken, with the help of the clock where hlt comes
\* right after the key.
KeyIsTaken == (pc # "idle" /\ key # NoKey) ~> (key = NoKey \/ pc = "idle")

=============================================================================
