--------------------------- MODULE ConsoleProofs ---------------------------
(***************************************************************************)
(* Theorems about os_input, for any keyboard layout, screen and length of  *)
(* the line: the line it leaves is the one the keys make, it stands on the *)
(* screen before the cursor, and the keys are taken in their order.        *)
(***************************************************************************)
EXTENDS Console, Numbers, SequenceTheorems

Codes == {NoKey} \cup UNION {{Layout[scan][1], Layout[scan][2]} : scan \in DOMAIN Layout}
Chars == Codes \cup {Blank, Underscore, "x"}
Screens == [cells : [Cells -> Chars], row : 0 .. Rows - 1, col : 0 .. Cols - 1]

\* RDI, the place in the string, is always the count.
ConsoleTypeOK ==
  /\ key \in Codes
  /\ key_shift \in BOOLEAN
  /\ term \in Screens
  /\ pc \in {"idle", "more", "load", "clear", "got", "halt", "asleep"}
  /\ al \in Codes
  /\ string \in [0 .. MaxLine -> Codes]
  /\ rcx \in 0 .. MaxLine
  /\ rdi = rcx
  /\ pressed \in Seq(Codes)
  /\ taken \in Seq(Codes)
  /\ since \in 0 .. Len(taken)
  /\ prints \in Nat

\* The n characters of text stand right before the cursor of t.
Pos(t) == t.row * Cols + t.col
Behind(t, n, text) == n <= Pos(t) /\ \A i \in 0 .. n - 1 : t.cells[Pos(t) - n + i] = text[i]

Echoed ==
  /\ pc # "idle" => Behind(term, rcx, string)
  /\ pc \in {"load", "clear", "got", "halt", "asleep"} => term.cells[Pos(term)] = Underscore

\* The string is what the keys make, but the last one while it is got and not yet done.
Holds(keys) == rcx = Len(Edit(keys)) /\ \A i \in 1 .. Len(Edit(keys)) : string[i - 1] = Edit(keys)[i]

Edited ==
  /\ pc # "got" => Holds(SubSeq(taken, since + 1, Len(taken)))
  /\ pc = "got" => /\ since < Len(taken) /\ taken[Len(taken)] = al
                   /\ Holds(SubSeq(taken, since + 1, Len(taken) - 1))
  /\ pc = "idle" => string[rcx] = NoKey

\* Each key taken is one that was pressed, a later one for each; the key that waits is the last one
\* pressed, and it and the one that is loaded come after all that are taken.
Places(e) ==
  /\ e \in [1 .. Len(taken) -> 1 .. Len(pressed)]
  /\ \A m, n \in 1 .. Len(taken) : m < n => e[m] < e[n]
  /\ \A m \in 1 .. Len(taken) : taken[m] = pressed[e[m]]
  /\ key # NoKey => /\ Len(pressed) > 0 /\ pressed[Len(pressed)] = key
                    /\ \A m \in 1 .. Len(taken) : e[m] < Len(pressed)
  /\ pc = "clear" => \E j \in 1 .. Len(pressed) : pressed[j] = al /\ \A m \in 1 .. Len(taken) : e[m] < j

Ordered == \E e : Places(e)

ConsoleInv == ConsoleTypeOK /\ Echoed /\ Edited /\ Ordered

-----------------------------------------------------------------------------
(* The screen                                                              *)

\* Rows and columns as one number.
LEMMA Sizes ==
  /\ Rows \in Nat \ {0} /\ Cols \in Nat \ {0}
  /\ (Rows - 1) * Cols \in Nat /\ Rows * Cols = (Rows - 1) * Cols + Cols
  /\ MaxLine \in Nat /\ MaxLine < (Rows - 1) * Cols
<1>1. Rows \in Nat \ {0} /\ Cols \in Nat \ {0} /\ MaxLine \in Nat /\ MaxLine < (Rows - 1) * Cols
  BY ConsoleAssumption DEF ConsoleAssumption
<1>2. \A r, c \in Nat : r * c \in Nat /\ (r + 1) * c = r * c + c
  OBVIOUS
<1>3. Rows - 1 \in Nat /\ (Rows - 1) + 1 = Rows
  BY <1>1
<1> QED
  BY <1>1, <1>2, <1>3

\* The cursor is on the screen, at the offset the code computes.
LEMMA PosIs ==
  ASSUME NEW t \in Screens
  PROVE  /\ Pos(t) \in Cells /\ Offset(t) = Pos(t)
         /\ (t.row + 1) * Cols = t.row * Cols + Cols /\ t.row * Cols \in Nat
         /\ t.row + 1 < Rows => (t.row + 1) * Cols <= (Rows - 1) * Cols
         /\ t.row + 1 = Rows => t.row * Cols = (Rows - 1) * Cols
         /\ t.row # 0 => (t.row - 1) * Cols = t.row * Cols - Cols
         /\ t.row = 0 => t.row * Cols = 0
<1> DEFINE r == t.row
           c == t.col
<1>1. r \in 0 .. Rows - 1 /\ c \in 0 .. Cols - 1 /\ Rows <= 256
  BY ConsoleAssumption DEF Screens, ConsoleAssumption
<1> HIDE DEF r, c
<1>2. r * Cols \in Nat /\ (r + 1) * Cols = r * Cols + Cols /\ 0 * Cols = 0
  BY <1>1, Sizes
<1>3. \A i, k \in Nat : i <= k => i * Cols <= k * Cols
  <2>1. \A i, d \in Nat : (i + d) * Cols = i * Cols + d * Cols /\ d * Cols \in Nat /\ i * Cols \in Nat
    BY Sizes
  <2>2. ASSUME NEW i \in Nat, NEW k \in Nat, i <= k PROVE i * Cols <= k * Cols
    <3>1. k - i \in Nat /\ i + (k - i) = k
      BY <2>2
    <3>2. k * Cols = i * Cols + (k - i) * Cols /\ (k - i) * Cols \in Nat /\ i * Cols \in Nat
      BY <2>1, <3>1
    <3>3. QED
      BY <3>2
  <2>3. QED
    BY <2>2
<1>4. r \in Nat /\ Rows - 1 \in Nat /\ r <= Rows - 1
  BY <1>1, Sizes
<1>5. r * Cols <= (Rows - 1) * Cols
  BY <1>3, <1>4
<1>6. r + 1 < Rows => (r + 1) * Cols <= (Rows - 1) * Cols
  <2>1. SUFFICES ASSUME r + 1 < Rows PROVE (r + 1) * Cols <= (Rows - 1) * Cols
    OBVIOUS
  <2>2. r + 1 \in Nat /\ r + 1 <= Rows - 1
    BY <1>4, <2>1, Sizes
  <2>3. QED
    BY <1>3, <1>4, <2>2
<1>7. r + 1 = Rows => r * Cols = (Rows - 1) * Cols
  <2>1. r + 1 = Rows => r = Rows - 1
    BY <1>4, Sizes
  <2>2. QED
    BY <2>1
<1>8. r # 0 => (r - 1) * Cols = r * Cols - Cols
  <2>1. SUFFICES ASSUME r # 0 PROVE (r - 1) * Cols = r * Cols - Cols
    OBVIOUS
  <2>2. PICK q \in Nat : r = q + 1
    BY <1>4, <2>1
  <2>3. (q + 1) * Cols = q * Cols + Cols /\ q * Cols \in Nat /\ r - 1 = q
    BY <2>2, Sizes
  <2>4. QED
    BY <2>2, <2>3, Sizes
<1>9. r % 256 = r
  <2>1. r \in 0 .. 255
    BY <1>1, <1>4, Sizes
  <2>2. QED
    BY <2>1
<1>10. Pos(t) = r * Cols + c /\ Offset(t) = r * Cols + c
  BY <1>9 DEF Pos, Offset, r, c
<1>11. r * Cols + c \in Cells
  <2>1. Rows * Cols = (Rows - 1) * Cols + Cols /\ (Rows - 1) * Cols \in Nat /\ Cols \in Nat
    BY Sizes
  <2>2. c \in Nat /\ c < Cols
    BY <1>1, <2>1
  <2>3. QED
    BY <1>2, <1>5, <2>1, <2>2 DEF Cells
<1> QED
  BY <1>2, <1>6, <1>7, <1>8, <1>10, <1>11 DEF r

LEMMA ScreenExcept ==
  ASSUME NEW s, NEW a, NEW b, NEW d, s = [cells |-> a, row |-> b, col |-> d], NEW x, NEW r, NEW c
  PROVE  /\ [s EXCEPT !.cells = x] = [cells |-> x, row |-> b, col |-> d]
         /\ [s EXCEPT !.row = r] = [cells |-> a, row |-> r, col |-> d]
         /\ [s EXCEPT !.row = r, !.col = c] = [cells |-> a, row |-> r, col |-> c]
         /\ [s EXCEPT !.col = c, !.row = r] = [cells |-> a, row |-> r, col |-> c]
         /\ s.cells = a /\ s.row = b /\ s.col = d
<1>1. s.cells = a /\ s.row = b /\ s.col = d
  OBVIOUS
<1>2. [s EXCEPT !.cells = x] = [cells |-> x, row |-> b, col |-> d]
  OBVIOUS
<1>3. [s EXCEPT !.row = r] = [cells |-> a, row |-> r, col |-> d]
  OBVIOUS
<1>4. ASSUME NEW p, p = [cells |-> a, row |-> r, col |-> d]
      PROVE  [p EXCEPT !.col = c] = [cells |-> a, row |-> r, col |-> c]
  BY <1>4
<1>5. ASSUME NEW p, p = [cells |-> a, row |-> b, col |-> c]
      PROVE  [p EXCEPT !.row = r] = [cells |-> a, row |-> r, col |-> c]
  BY <1>5
<1>6. [s EXCEPT !.row = r, !.col = c] = [cells |-> a, row |-> r, col |-> c]
  BY <1>3, <1>4, Zenon
<1>7. [s EXCEPT !.col = c, !.row = r] = [cells |-> a, row |-> r, col |-> c]
  <2>1. [s EXCEPT !.col = c] = [cells |-> a, row |-> b, col |-> c]
    OBVIOUS
  <2>2. QED
    BY <1>5, <2>1, Zenon
<1> QED
  BY <1>1, <1>2, <1>3, <1>6, <1>7

\* A character is put at the cursor, which goes one on; at the end of the screen all goes up by
\* a row, the cursor with it.
Put(t, u, c, up) ==
  /\ Pos(u) = Pos(t) + 1 - up
  /\ \A i \in Cells : i + up \in Cells => u.cells[i] = IF i + up = Pos(t) THEN c ELSE t.cells[i + up]

LEMMA OutputPuts ==
  ASSUME NEW t \in Screens, NEW c \in Chars
  PROVE  /\ os_output_char(t, c) \in Screens
         /\ \/ Put(t, os_output_char(t, c), c, 0)
            \/ Put(t, os_output_char(t, c), c, Cols) /\ Pos(os_output_char(t, c)) = (Rows - 1) * Cols
<1> DEFINE w == [i \in Cells |-> IF i = Offset(t) THEN c ELSE t.cells[i]]
           v == [t EXCEPT !.cells = w]
           u == os_output_char(t, c)
<1>1. /\ t.row \in 0 .. Rows - 1 /\ t.col \in 0 .. Cols - 1 /\ t.cells \in [Cells -> Chars]
      /\ \A x \in [Cells -> Chars], r \in 0 .. Rows - 1, k \in 0 .. Cols - 1 : [cells |-> x, row |-> r, col |-> k] \in Screens
      /\ t = [cells |-> t.cells, row |-> t.row, col |-> t.col]
  BY DEF Screens
<1>2. w \in [Cells -> Chars] /\ \A i \in Cells : w[i] = IF i = Pos(t) THEN c ELSE t.cells[i]
  BY <1>1, PosIs
<1> HIDE DEF w
<1>3. v = [cells |-> w, row |-> t.row, col |-> t.col]
  BY <1>1
<1>4. u = os_inc_cursor(v)
  BY DEF os_output_char, w
<1> HIDE DEF v, u
<1>5. CASE t.col + 1 # Cols
  <2>1. u = [cells |-> w, row |-> t.row, col |-> t.col + 1]
    BY <1>3, <1>4, <1>5 DEF os_inc_cursor
  <2>2. t.col + 1 \in 0 .. Cols - 1
    BY <1>1, <1>5, Sizes
  <2>3. u \in Screens
    BY <1>1, <1>2, <2>1, <2>2
  <2>4. Pos(u) = Pos(t) + 1 - 0
    BY <1>1, <2>1, PosIs DEF Pos
  <2>5. Put(t, u, c, 0)
    BY <1>2, <2>1, <2>4 DEF Put, Cells
  <2>6. QED
    BY <2>3, <2>5 DEF u
<1>6. CASE t.col + 1 = Cols /\ t.row + 1 # Rows
  <2>1. u = [cells |-> w, row |-> t.row + 1, col |-> 0]
    BY <1>3, <1>4, <1>6 DEF os_inc_cursor
  <2>2. t.row + 1 \in 0 .. Rows - 1 /\ 0 \in 0 .. Cols - 1
    BY <1>1, <1>6, Sizes
  <2>3. u \in Screens
    BY <1>1, <1>2, <2>1, <2>2
  <2>4. Pos(u) = (t.row + 1) * Cols + 0 /\ Pos(t) = t.row * Cols + t.col
    BY <2>1 DEF Pos
  <2>5. Pos(u) = Pos(t) + 1 - 0
    BY <1>1, <1>6, <2>4, PosIs, Sizes
  <2>6. Put(t, u, c, 0)
    BY <1>2, <2>1, <2>5 DEF Put, Cells
  <2>7. QED
    BY <2>3, <2>6 DEF u
<1>7. CASE t.col + 1 = Cols /\ t.row + 1 = Rows
  <2> DEFINE x == [i \in Cells |-> IF i + Cols \in Cells THEN w[i + Cols] ELSE Blank]
  <2>1. x \in [Cells -> Chars] /\ \A i \in Cells : i + Cols \in Cells => x[i] = w[i + Cols]
    BY <1>2 DEF Chars
  <2>2. u = [cells |-> x, row |-> t.row + 1 - 1, col |-> 0]
    <3> DEFINE below == [cells |-> w, row |-> t.row + 1, col |-> 0]
    <3>1. v.col + 1 = Cols /\ [v EXCEPT !.col = 0, !.row = @ + 1] = below /\ below.row = Rows
      <4>1. t.row \in Nat /\ t.col \in Nat
        BY <1>1, Sizes
      <4>2. v.col = t.col /\ v.row = t.row
        BY <1>3, ScreenExcept
      <4>3. [v EXCEPT !.col = 0, !.row = v.row + 1] = [cells |-> w, row |-> v.row + 1, col |-> 0]
        <5>1. [v EXCEPT !.col = 0] = [cells |-> w, row |-> t.row, col |-> 0]
          BY <1>3
        <5>2. ASSUME NEW q, q = [cells |-> w, row |-> t.row, col |-> 0], NEW r
              PROVE  [q EXCEPT !.row = r] = [cells |-> w, row |-> r, col |-> 0]
          BY <5>2
        <5>3. QED
          BY <5>1, <5>2, Zenon
      <4>4. QED
        BY <1>7, <4>1, <4>2, <4>3
    <3>2. u = [os_screen_scroll(below) EXCEPT !.row = @ - 1]
      BY <1>4, <3>1, Zenon DEF os_inc_cursor
    <3>3. os_screen_scroll(below) = [below EXCEPT !.cells = x]
      BY DEF os_screen_scroll
    <3> HIDE DEF x
    <3>4. os_screen_scroll(below) = [cells |-> x, row |-> t.row + 1, col |-> 0]
      BY <3>3
    <3> DEFINE s == os_screen_scroll(below)
    <3> HIDE DEF s
    <3>5. u = [s EXCEPT !.row = s.row - 1] /\ s = [cells |-> x, row |-> t.row + 1, col |-> 0]
      BY <3>2, <3>4 DEF s
    <3>6. u = [cells |-> x, row |-> s.row - 1, col |-> 0] /\ s.row = t.row + 1
      BY <3>5, ScreenExcept, Zenon
    <3>7. t.row \in Nat
      BY <1>1, Sizes
    <3>8. QED
      BY <3>6, <3>7
  <2> HIDE DEF x
  <2>3. u = [cells |-> x, row |-> t.row, col |-> 0]
    BY <1>1, <2>2, Sizes
  <2>4. u \in Screens
    BY <1>1, <2>1, <2>3, Sizes
  <2>5. Pos(u) = t.row * Cols + 0 /\ Pos(t) = t.row * Cols + t.col
    BY <2>3 DEF Pos
  <2>6. Pos(u) = Pos(t) + 1 - Cols /\ Pos(u) = (Rows - 1) * Cols
    BY <1>1, <1>7, <2>5, PosIs, Sizes
  <2>7. Put(t, u, c, Cols)
    BY <1>2, <2>1, <2>3, <2>6 DEF Put
  <2>8. QED
    BY <2>4, <2>6, <2>7 DEF u
<1> QED
  BY <1>5, <1>6, <1>7

\* The cursor goes one back, unless it is at the top left corner.
LEMMA DecGoesBack ==
  ASSUME NEW t \in Screens, Pos(t) > 0
  PROVE  /\ os_dec_cursor(t) \in Screens
         /\ Pos(os_dec_cursor(t)) = Pos(t) - 1
         /\ os_dec_cursor(t).cells = t.cells
<1> DEFINE u == os_dec_cursor(t)
<1>1. /\ t.row \in 0 .. Rows - 1 /\ t.col \in 0 .. Cols - 1 /\ t.cells \in [Cells -> Chars]
      /\ \A r \in 0 .. Rows - 1, k \in 0 .. Cols - 1 : [cells |-> t.cells, row |-> r, col |-> k] \in Screens
      /\ t = [cells |-> t.cells, row |-> t.row, col |-> t.col]
  BY DEF Screens
<1>2. CASE t.col # 0
  <2>1. u = [cells |-> t.cells, row |-> t.row, col |-> t.col - 1]
    BY <1>1, <1>2 DEF os_dec_cursor
  <2>2. t.col - 1 \in 0 .. Cols - 1
    <3>1. t.col \in 1 .. Cols - 1 /\ Cols \in Nat
      BY <1>1, <1>2, Sizes
    <3>2. QED
      BY ONLY <3>1
  <2> HIDE DEF u
  <2>3. Pos(u) = Pos(t) - 1
    BY <1>1, <2>1, PosIs DEF Pos
  <2>4. QED
    BY <1>1, <2>1, <2>2, <2>3 DEF u
<1>3. CASE t.col = 0
  <2>1. u = [cells |-> t.cells, row |-> (t.row + 65535) % 65536, col |-> Cols - 1]
    <3> DEFINE r == (t.row + 65535) % 65536
    <3>1. u = IF t.col # 0 THEN [t EXCEPT !.col = t.col - 1] ELSE [t EXCEPT !.row = r, !.col = Cols - 1]
      BY DEF os_dec_cursor
    <3> HIDE DEF r, u
    <3>2. u = [t EXCEPT !.row = r, !.col = Cols - 1]
      BY <1>3, <3>1
    <3>3. u = [cells |-> t.cells, row |-> r, col |-> Cols - 1]
      BY <1>1, <3>2, ScreenExcept, Zenon
    <3>4. QED
      BY <3>3 DEF r
  <2>2. Pos(t) = t.row * Cols
    BY <1>3, PosIs DEF Pos
  <2>3. t.row # 0
    BY <2>2, PosIs
  <2>4. (t.row + 65535) % 65536 = t.row - 1
    <3>1. t.row \in 1 .. 255
      BY <1>1, <2>3, ConsoleAssumption DEF ConsoleAssumption
    <3>2. \A r \in 1 .. 255 : (r + 65535) % 65536 = r - 1
      OBVIOUS
    <3>3. QED
      BY <3>1, <3>2
  <2>5. t.row - 1 \in 0 .. Rows - 1 /\ Cols - 1 \in 0 .. Cols - 1
    BY <1>1, <2>3, Sizes
  <2> HIDE DEF u
  <2>6. Pos(u) = (t.row - 1) * Cols + (Cols - 1)
    BY <2>1, <2>4 DEF Pos
  <2>7. Pos(u) = Pos(t) - 1
    BY <2>2, <2>3, <2>6, PosIs, Sizes
  <2>8. QED
    BY <1>1, <2>1, <2>4, <2>5, <2>7 DEF u
<1> QED
  BY <1>1, <1>2, <1>3, Sizes

\* A new line and a tab leave a screen with the cursor on it.
LEMMA NewlineStays ==
  ASSUME NEW t \in Screens
  PROVE  os_print_newline(t) \in Screens
<1>1. /\ t.row \in 0 .. Rows - 1 /\ t.col \in 0 .. Cols - 1 /\ t.cells \in [Cells -> Chars]
      /\ \A x \in [Cells -> Chars], r \in 0 .. Rows - 1, k \in 0 .. Cols - 1 : [cells |-> x, row |-> r, col |-> k] \in Screens
      /\ t = [cells |-> t.cells, row |-> t.row, col |-> t.col]
  BY DEF Screens
<1>2. 0 \in 0 .. Cols - 1 /\ Rows \in Nat
  BY Sizes
<1>3. [t EXCEPT !.col = 0] = [cells |-> t.cells, row |-> t.row, col |-> 0]
  BY <1>1
<1>4. CASE t.row = Rows - 1
  <2> DEFINE x == [i \in Cells |-> IF i + Cols \in Cells THEN t.cells[i + Cols] ELSE Blank]
             below == [cells |-> t.cells, row |-> t.row, col |-> 0]
  <2>1. x \in [Cells -> Chars]
    BY <1>1 DEF Chars
  <2>2. os_print_newline(t) = os_screen_scroll(below)
    BY <1>3, <1>4, Zenon DEF os_print_newline
  <2>3. os_screen_scroll(below) = [below EXCEPT !.cells = x]
    BY DEF os_screen_scroll
  <2> HIDE DEF x
  <2>4. os_screen_scroll(below) = [cells |-> x, row |-> t.row, col |-> 0]
    BY <2>3
  <2>5. QED
    BY <1>1, <1>2, <2>1, <2>2, <2>4
<1>5. CASE t.row # Rows - 1
  <2>1. t.row + 1 \in 0 .. Rows - 1
    BY <1>1, <1>2, <1>5
  <2>2. os_print_newline(t) = [t EXCEPT !.col = 0, !.row = t.row + 1]
    BY <1>5 DEF os_print_newline
  <2>3. ASSUME NEW q, q = [cells |-> t.cells, row |-> t.row, col |-> 0], NEW r
        PROVE  [q EXCEPT !.row = r] = [cells |-> t.cells, row |-> r, col |-> 0]
    BY <2>3
  <2>4. [t EXCEPT !.col = 0, !.row = t.row + 1] = [cells |-> t.cells, row |-> t.row + 1, col |-> 0]
    BY <1>3, <2>3, Zenon
  <2>5. QED
    BY <1>1, <1>2, <2>1, <2>2, <2>4
<1> QED
  BY <1>4, <1>5

LEMMA TabStays ==
  ASSUME NEW t \in Screens
  PROVE  OutputTab(t) \in Screens
<1> DEFINE n == ((t.col + TabStop) \div TabStop) * TabStop - t.col
           Good(f) == f = [i \in 0 .. n |-> IF i = 0 THEN t ELSE os_output_char(f[i - 1], Blank)]
           Out == CHOOSE f : Good(f)
           step == [i \in 1 .. n |-> [s \in Screens |-> os_output_char(s, Blank)]]
<1>1. n \in Nat
  <2>1. t.col \in Nat /\ TabStop \in Nat \ {0}
    BY Sizes, ConsoleAssumption DEF ConsoleAssumption, Screens
  <2>2. \A x \in Nat, k \in Nat \ {0} : x \div k \in Nat /\ x = (x \div k) * k + (x % k) /\ x % k \in 0 .. k - 1
    OBVIOUS
  <2>3. \A a, b \in Nat : a * b \in Nat
    OBVIOUS
  <2> DEFINE x == t.col + TabStop
             q == x \div TabStop
  <2>4. x \in Nat /\ x = t.col + TabStop
    BY <2>1
  <2> HIDE DEF x
  <2>5. q \in Nat /\ x = q * TabStop + (x % TabStop) /\ x % TabStop \in 0 .. TabStop - 1 /\ q * TabStop \in Nat
    BY <2>1, <2>2, <2>3, <2>4
  <2>6. n = q * TabStop - t.col
    BY DEF x
  <2> DEFINE y == q * TabStop
             z == x % TabStop
  <2> HIDE DEF n, y, z
  <2>7. y \in Nat /\ z \in 0 .. TabStop - 1 /\ x = y + z /\ n = y - t.col
    BY <2>5, <2>6 DEF y, z
  <2>8. QED
    BY <2>1, <2>4, <2>7
<1>2. OutputTab(t) = Out[n]
  BY DEF OutputTab
<1> HIDE DEF n
<1>3. step \in [1 .. n -> [Screens -> Screens]]
  <2>1. \A s \in Screens : os_output_char(s, Blank) \in Screens
    BY OutputPuts DEF Chars
  <2>2. QED
    BY <2>1
<1>4. PICK f \in [0 .. n -> Screens] : Follows(f, n, t, step)
  <2> HIDE DEF step
  <2>1. QED
    BY <1>1, <1>3, RecursionExists, Zenon
<1>5. Good(f)
  <2>1. \A i \in 0 .. n : i # 0 => i \in 1 .. n /\ f[i - 1] \in Screens
    BY <1>1
  <2>2. \A i \in 0 .. n : f[i] = IF i = 0 THEN t ELSE os_output_char(f[i - 1], Blank)
    BY <1>4, <2>1 DEF Follows
  <2>3. QED
    BY <1>4, <2>2
<1>6. Good(Out)
  BY <1>5
<1> HIDE DEF Out
<1>7. \A i \in 0 .. n : Out[i] = IF i = 0 THEN t ELSE os_output_char(Out[i - 1], Blank)
  BY <1>6, Zenon
<1> DEFINE S == {i \in Nat : i <= n => Out[i] \in Screens}
<1>8. 0 \in S
  BY <1>1, <1>7
<1>9. ASSUME NEW i \in Nat, i \in S PROVE i + 1 \in S
  <2>1. CASE i + 1 <= n
    <3>1. i + 1 \in 0 .. n /\ i + 1 # 0 /\ (i + 1) - 1 = i /\ Out[i] \in Screens
      BY <1>1, <1>9, <2>1
    <3>2. Out[i + 1] = os_output_char(Out[i], Blank)
      BY <1>7, <3>1
    <3>3. Out[i + 1] \in Screens
      BY <3>1, <3>2, OutputPuts DEF Chars
    <3>4. QED
      BY <3>3
  <2>2. CASE ~ (i + 1 <= n)
    BY <2>2
  <2>3. QED
    BY <2>1, <2>2
<1> HIDE DEF S
<1>10. n \in S
  BY <1>1, <1>8, <1>9, AllNumbers
<1> QED
  BY <1>1, <1>2, <1>10 DEF S

-----------------------------------------------------------------------------
(* The line on the screen: what os_input does at the cursor keeps it there *)

\* The cursor is shown, or blanked: a character over it and one back.
LEMMA OverCursor ==
  ASSUME NEW t \in Screens, NEW c \in Chars, NEW n \in 0 .. MaxLine, NEW text, Behind(t, n, text)
  PROVE  LET u == os_dec_cursor(os_output_char(t, c))
         IN  u \in Screens /\ Behind(u, n, text) /\ u.cells[Pos(u)] = c
<1> DEFINE v == os_output_char(t, c)
           u == os_dec_cursor(v)
<1>1. Pos(t) \in Cells /\ n <= Pos(t) /\ \A i \in 0 .. n - 1 : t.cells[Pos(t) - n + i] = text[i]
  BY PosIs DEF Behind
<1>2. PICK up \in {0, Cols} : Put(t, v, c, up) /\ (up = Cols => Pos(v) = (Rows - 1) * Cols)
  <2>1. CASE Put(t, v, c, 0)
    <3>1. 0 # Cols
      BY Sizes
    <3>2. QED
      BY <2>1, <3>1
  <2>2. CASE Put(t, v, c, Cols) /\ Pos(v) = (Rows - 1) * Cols
    BY <2>2
  <2>3. QED
    BY <2>1, <2>2, OutputPuts
<1>3. v \in Screens
  BY OutputPuts
<1> HIDE DEF v
<1>4. /\ Pos(v) \in Cells /\ Pos(v) = Pos(t) + 1 - up
      /\ \A i \in Cells : i + up \in Cells => v.cells[i] = IF i + up = Pos(t) THEN c ELSE t.cells[i + up]
  BY <1>2, <1>3, PosIs DEF Put
<1>5. Cols \in Nat /\ Rows * Cols \in Nat /\ (Rows - 1) * Cols \in Nat /\ MaxLine \in Nat /\ MaxLine < (Rows - 1) * Cols
  BY Sizes
<1>6. Pos(v) > 0 /\ n <= Pos(v) - 1
  BY <1>1, <1>2, <1>4, <1>5 DEF Cells
<1>7. u \in Screens /\ Pos(u) = Pos(v) - 1 /\ u.cells = v.cells
  BY <1>3, <1>6, DecGoesBack
<1> HIDE DEF u
<1>8. u.cells[Pos(u)] = c
  <2>1. Pos(u) \in Cells /\ Pos(u) + up = Pos(t)
    BY <1>1, <1>2, <1>4, <1>5, <1>6, <1>7 DEF Cells
  <2>2. QED
    BY <1>1, <1>4, <1>7, <2>1
<1>9. ASSUME NEW i \in 0 .. n - 1
      PROVE  u.cells[Pos(u) - n + i] = text[i]
  <2> DEFINE k == Pos(u) - n + i
  <2>1. k \in Cells /\ k + up = Pos(t) - n + i /\ k + up \in Cells /\ k + up # Pos(t)
    BY <1>1, <1>2, <1>4, <1>5, <1>6, <1>7 DEF Cells
  <2> HIDE DEF k
  <2>2. u.cells[k] = t.cells[k + up]
    BY <1>4, <1>7, <2>1
  <2>3. t.cells[k + up] = text[i]
    BY <1>1, <2>1
  <2>4. QED
    BY <2>2, <2>3 DEF k
<1> QED
  BY <1>6, <1>7, <1>8, <1>9 DEF Behind, u, v

\* A character more.
LEMMA OneMore ==
  ASSUME NEW t \in Screens, NEW c \in Codes, NEW n \in 0 .. MaxLine, n # MaxLine,
         NEW text \in [0 .. MaxLine -> Codes], Behind(t, n, text)
  PROVE  os_output_char(t, c) \in Screens /\ Behind(os_output_char(t, c), n + 1, [text EXCEPT ![n] = c])
<1> DEFINE v == os_output_char(t, c)
           longer == [text EXCEPT ![n] = c]
<1>1. Pos(t) \in Cells /\ n <= Pos(t) /\ \A i \in 0 .. n - 1 : t.cells[Pos(t) - n + i] = text[i]
  BY PosIs DEF Behind
<1>2. c \in Chars
  BY DEF Chars
<1>3. v \in Screens
  BY <1>2, OutputPuts
<1>4. PICK up \in {0, Cols} : Put(t, v, c, up) /\ (up = Cols => Pos(v) = (Rows - 1) * Cols)
  <2>1. CASE Put(t, v, c, 0)
    <3>1. 0 # Cols
      BY Sizes
    <3>2. QED
      BY <2>1, <3>1
  <2>2. CASE Put(t, v, c, Cols) /\ Pos(v) = (Rows - 1) * Cols
    BY <2>2
  <2>3. QED
    BY <1>2, <2>1, <2>2, OutputPuts
<1> HIDE DEF v
<1>5. /\ Pos(v) \in Cells /\ Pos(v) = Pos(t) + 1 - up
      /\ \A i \in Cells : i + up \in Cells => v.cells[i] = IF i + up = Pos(t) THEN c ELSE t.cells[i + up]
  BY <1>3, <1>4, PosIs DEF Put
<1>6. Cols \in Nat /\ Rows * Cols \in Nat /\ (Rows - 1) * Cols \in Nat /\ MaxLine \in Nat /\ MaxLine < (Rows - 1) * Cols
  BY Sizes
<1>7. n + 1 <= Pos(v)
  BY <1>1, <1>4, <1>5, <1>6 DEF Cells
<1>8. longer[n] = c /\ \A i \in 0 .. n - 1 : longer[i] = text[i]
  BY <1>6
<1> HIDE DEF longer
<1>9. ASSUME NEW i \in 0 .. (n + 1) - 1
      PROVE  v.cells[Pos(v) - (n + 1) + i] = longer[i]
  <2> DEFINE k == Pos(v) - (n + 1) + i
  <2>1. k \in Cells /\ k + up = Pos(t) - n + i /\ k + up \in Cells
    <3>1. i \in Nat /\ i <= n /\ n \in Nat /\ up \in Nat /\ Pos(t) \in Nat /\ Pos(v) \in Nat /\ k = Pos(v) - (n + 1) + i
      BY <1>1, <1>4, <1>5, <1>6 DEF Cells
    <3>2. n <= Pos(t) /\ n + 1 <= Pos(v) /\ Pos(v) = Pos(t) + 1 - up
      BY <1>1, <1>5, <1>7
    <3> HIDE DEF k
    <3>3. k \in Nat /\ k < Pos(v)
      BY ONLY <3>1, <3>2
    <3>4. k + up = Pos(t) - n + i
      BY ONLY <3>1, <3>2
    <3>5. Pos(t) - n + i \in 0 .. Pos(t)
      BY ONLY <3>1, <3>2
    <3>6. \A x \in Cells : \A y \in 0 .. x : y \in Cells
      BY <1>6 DEF Cells
    <3>7. k \in Cells
      BY <1>5, <3>1, <3>3, <3>6
    <3>8. QED
      BY <1>1, <3>4, <3>5, <3>6, <3>7
  <2> HIDE DEF k
  <2>2. v.cells[k] = IF k + up = Pos(t) THEN c ELSE t.cells[k + up]
    BY <1>5, <2>1
  <2>3. CASE i = n
    <3>1. k + up = Pos(t)
      BY <1>1, <2>1, <2>3 DEF Cells
    <3>2. QED
      BY <1>8, <2>2, <2>3, <3>1 DEF k
  <2>4. CASE i # n
    <3>1. i \in 0 .. n - 1 /\ k + up # Pos(t)
      BY <1>1, <1>6, <2>1, <2>4 DEF Cells
    <3>2. t.cells[k + up] = text[i] /\ longer[i] = text[i]
      BY <1>1, <1>8, <2>1, <3>1
    <3>3. QED
      BY <2>2, <3>1, <3>2 DEF k
  <2>5. QED
    BY <2>3, <2>4
<1> QED
  BY <1>3, <1>7, <1>9 DEF Behind, v, longer

\* A character less: a blank over the cursor, and two back.
LEMMA OneLess ==
  ASSUME NEW t \in Screens, NEW n \in 0 .. MaxLine, n # 0, NEW text, Behind(t, n, text)
  PROVE  LET u == os_dec_cursor(os_dec_cursor(os_output_char(t, Blank)))
         IN  u \in Screens /\ Behind(u, n - 1, text)
<1> DEFINE v == os_dec_cursor(os_output_char(t, Blank))
           u == os_dec_cursor(v)
<1>1. v \in Screens /\ Behind(v, n, text)
  BY OverCursor DEF Chars
<1> HIDE DEF v
<1>2. n \in Nat /\ Pos(v) \in Nat /\ n <= Pos(v) /\ \A i \in 0 .. n - 1 : v.cells[Pos(v) - n + i] = text[i]
  BY <1>1, PosIs DEF Behind, Cells
<1>3. u \in Screens /\ Pos(u) = Pos(v) - 1 /\ u.cells = v.cells
  BY <1>1, <1>2, DecGoesBack
<1> HIDE DEF u
<1>4. Behind(u, n - 1, text)
  <2>1. n - 1 <= Pos(u)
    BY <1>2, <1>3
  <2>2. ASSUME NEW i \in 0 .. (n - 1) - 1 PROVE u.cells[Pos(u) - (n - 1) + i] = text[i]
    <3>1. i \in 0 .. n - 1 /\ Pos(u) - (n - 1) + i = Pos(v) - n + i
      BY <1>2, <1>3
    <3>2. QED
      BY <1>2, <1>3, <3>1
  <2>3. QED
    BY <2>1, <2>2 DEF Behind
<1> QED
  BY <1>3, <1>4 DEF u, v

-----------------------------------------------------------------------------
(* The line that keys make                                                 *)

LEMMA FrontIs ==
  ASSUME NEW text \in Seq(Codes), text # <<>>
  PROVE  /\ Front(text) \in Seq(Codes) /\ Len(Front(text)) = Len(text) - 1 /\ Len(text) > 0
         /\ \A i \in 1 .. Len(text) - 1 : Front(text)[i] = text[i]
<1>1. Len(text) \in Nat /\ Len(text) > 0 /\ \A i \in 1 .. Len(text) - 1 : text[i] \in Codes
  OBVIOUS
<1> DEFINE n == Len(text) - 1
<1>2. n \in Nat /\ 1 \in Int /\ n \in Int /\ (n - 1) + 1 = n
  BY <1>1
<1>3. Front(text) = SubSeq(text, 1, n)
  BY DEF Front
<1> HIDE DEF n
<1>4. /\ SubSeq(text, 1, n) \in Seq(Codes)
      /\ Len(SubSeq(text, 1, n)) = IF 1 <= n THEN n - 1 + 1 ELSE 0
      /\ \A i \in 1 .. n - 1 + 1 : SubSeq(text, 1, n)[i] = text[1 + i - 1]
  BY <1>1, <1>2, SubSeqProperties DEF n
<1>5. Len(SubSeq(text, 1, n)) = n
  BY <1>2, <1>4
<1>6. \A i \in 1 .. n : 1 + i - 1 = i
  BY <1>2
<1>7. \A i \in 1 .. n : SubSeq(text, 1, n)[i] = text[i]
  BY <1>2, <1>4, <1>6
<1> QED
  BY <1>1, <1>3, <1>4, <1>5, <1>7 DEF n

LEMMA StruckIs ==
  ASSUME NEW text \in Seq(Codes), NEW k \in Codes
  PROVE  Struck(text, k) \in Seq(Codes)
<1>1. text # <<>> => Front(text) \in Seq(Codes)
  BY FrontIs
<1>2. Append(text, k) \in Seq(Codes)
  BY AppendProperties
<1> QED
  BY <1>1, <1>2, Zenon DEF Struck

\* The rounds of Edit: the line after each key.
Rounds(f, keys) ==
  /\ f \in [0 .. Len(keys) -> Seq(Codes)]
  /\ f[0] = <<>>
  /\ \A i \in 1 .. Len(keys) : f[i] = Struck(f[i - 1], keys[i])

LEMMA EditRounds ==
  ASSUME NEW keys \in Seq(Codes)
  PROVE  \E f : Rounds(f, keys) /\ Edit(keys) = f[Len(keys)]
<1> DEFINE n == Len(keys)
           Good(f) == f = [i \in 0 .. n |-> IF i = 0 THEN <<>> ELSE Struck(f[i - 1], keys[i])]
           Text == CHOOSE f : Good(f)
           step == [i \in 1 .. n |-> [s \in Seq(Codes) |-> Struck(s, keys[i])]]
<1>1. n \in Nat /\ \A i \in 1 .. n : keys[i] \in Codes
  OBVIOUS
<1>2. Edit(keys) = Text[n]
  BY DEF Edit
<1> HIDE DEF n
<1>3. step \in [1 .. n -> [Seq(Codes) -> Seq(Codes)]]
  <2>1. \A i \in 1 .. n : \A s \in Seq(Codes) : Struck(s, keys[i]) \in Seq(Codes)
    BY <1>1, StruckIs
  <2>2. QED
    BY <2>1
<1>4. <<>> \in Seq(Codes)
  OBVIOUS
<1>5. PICK f \in [0 .. n -> Seq(Codes)] : Follows(f, n, <<>>, step)
  <2> HIDE DEF step
  <2>1. QED
    BY <1>1, <1>3, <1>4, RecursionExists, Zenon
<1>6. \A i \in 0 .. n : f[i] = IF i = 0 THEN <<>> ELSE Struck(f[i - 1], keys[i])
  <2>1. \A i \in 0 .. n : i # 0 => i \in 1 .. n /\ i - 1 \in 0 .. n
    BY <1>1
  <2>2. \A i \in 1 .. n : f[i] = step[i][f[i - 1]]
    BY <1>5 DEF Follows
  <2>3. \A i \in 1 .. n : \A s \in Seq(Codes) : step[i][s] = Struck(s, keys[i])
    OBVIOUS
  <2>4. f[0] = <<>>
    BY <1>5 DEF Follows
  <2> HIDE DEF step
  <2>5. QED
    BY <2>1, <2>2, <2>3, <2>4
<1>7. f = [i \in 0 .. n |-> f[i]]
  OBVIOUS
<1>8. Good(f)
  BY <1>6, <1>7
<1>9. Good(Text)
  BY <1>8
<1> HIDE DEF Text
<1>10. \A i \in 0 .. n : Text[i] = IF i = 0 THEN <<>> ELSE Struck(Text[i - 1], keys[i])
  BY <1>9, Zenon
<1>11. Text[0] = <<>> /\ \A i \in 1 .. n : Text[i] = Struck(Text[i - 1], keys[i])
  <2>1. 0 \in 0 .. n /\ \A i \in 1 .. n : i \in 0 .. n /\ i # 0
    BY <1>1
  <2>2. QED
    BY <1>10, <2>1, Zenon
<1> DEFINE S == {i \in Nat : i <= n => Text[i] \in Seq(Codes)}
<1>12. 0 \in S
  <2>1. 0 \in Nat /\ Text[0] \in Seq(Codes)
    BY <1>4, <1>11, Zenon
  <2>2. QED
    BY <2>1, Zenon
<1>13. ASSUME NEW i \in Nat, i \in S PROVE i + 1 \in S
  <2>1. CASE i + 1 <= n
    <3>1. i + 1 \in 1 .. n /\ (i + 1) - 1 = i /\ Text[i] \in Seq(Codes)
      BY <1>1, <1>13, <2>1
    <3>2. Text[i + 1] = Struck(Text[i], keys[i + 1])
      BY <1>11, <3>1
    <3>3. Text[i + 1] \in Seq(Codes)
      BY <1>1, <3>1, <3>2, StruckIs
    <3>4. QED
      BY <3>3
  <2>2. CASE ~ (i + 1 <= n)
    BY <2>2
  <2>3. QED
    BY <2>1, <2>2
<1> HIDE DEF S
<1>14. \A i \in 0 .. n : i \in S
  <2>1. Nat \subseteq S
    BY <1>12, <1>13, AllNumbers
  <2>2. QED
    BY <1>1, <2>1
<1>15. \A i \in 0 .. n : Text[i] \in Seq(Codes)
  BY <1>1, <1>14 DEF S
<1>16. Text = [i \in 0 .. n |-> Text[i]]
  <2>1. \E F : Text = [i \in 0 .. n |-> F[i]]
    <3> DEFINE F == [i \in 0 .. n |-> IF i = 0 THEN <<>> ELSE Struck(Text[i - 1], keys[i])]
    <3>1. Text = F
      BY <1>9, Zenon
    <3>2. F = [i \in 0 .. n |-> F[i]]
      OBVIOUS
    <3> HIDE DEF F
    <3>3. QED
      BY <3>1, <3>2
  <2>2. QED
    BY <2>1
<1>17. Text \in [0 .. n -> Seq(Codes)]
  BY <1>15, <1>16
<1> QED
  BY <1>2, <1>11, <1>17 DEF Rounds, n

\* A key more, by its own.
LEMMA EditAppend ==
  ASSUME NEW keys \in Seq(Codes), NEW k \in Codes
  PROVE  /\ Edit(keys) \in Seq(Codes) /\ Edit(<<>>) = <<>>
         /\ Edit(Append(keys, k)) = Struck(Edit(keys), k)
<1> DEFINE more == Append(keys, k)
           n == Len(keys)
<1>1. /\ more \in Seq(Codes) /\ n \in Nat /\ Len(more) = n + 1
      /\ more[n + 1] = k /\ \A i \in 1 .. n : more[i] = keys[i]
  OBVIOUS
<1> HIDE DEF more
<1>2. PICK f : Rounds(f, keys) /\ Edit(keys) = f[n]
  BY EditRounds
<1>3. PICK g : Rounds(g, more) /\ Edit(more) = g[n + 1]
  BY <1>1, EditRounds
<1> HIDE DEF n
<1>4. /\ f[0] = <<>> /\ \A i \in 1 .. n : f[i] = Struck(f[i - 1], keys[i])
      /\ g[0] = <<>> /\ \A i \in 1 .. n + 1 : g[i] = Struck(g[i - 1], more[i])
      /\ f \in [0 .. n -> Seq(Codes)]
  BY <1>1, <1>2, <1>3 DEF Rounds, n
<1> DEFINE S == {i \in Nat : i <= n => f[i] = g[i]}
<1>5. 0 \in S
  BY <1>4
<1>6. ASSUME NEW i \in Nat, i \in S PROVE i + 1 \in S
  <2>1. CASE i + 1 <= n
    <3>1. i + 1 \in 1 .. n /\ i + 1 \in 1 .. n + 1 /\ (i + 1) - 1 = i /\ f[i] = g[i]
      BY <1>1, <1>6, <2>1
    <3>2. f[i + 1] = g[i + 1]
      BY <1>1, <1>4, <3>1
    <3>3. QED
      BY <3>2
  <2>2. CASE ~ (i + 1 <= n)
    BY <2>2
  <2>3. QED
    BY <2>1, <2>2
<1> HIDE DEF S
<1>7. f[n] = g[n]
  <2>1. n \in S
    BY <1>1, <1>5, <1>6, AllNumbers
  <2>2. QED
    BY <1>1, <2>1 DEF S
<1>8. n + 1 \in 1 .. n + 1 /\ (n + 1) - 1 = n /\ n \in 0 .. n
  BY <1>1
<1>9. g[n + 1] = Struck(g[n], k)
  BY <1>1, <1>4, <1>8
<1>10. Edit(<<>>) = <<>>
  <2>1. <<>> \in Seq(Codes) /\ Len(<<>>) = 0
    OBVIOUS
  <2>2. PICK h : Rounds(h, <<>>) /\ Edit(<<>>) = h[Len(<<>>)]
    BY <2>1, EditRounds
  <2>3. QED
    BY <2>1, <2>2 DEF Rounds
<1> QED
  BY <1>2, <1>3, <1>4, <1>7, <1>8, <1>9, <1>10 DEF more

-----------------------------------------------------------------------------
(* The order of the keys                                                   *)

\* Where the keys taken can be found among the keys pressed, looking for each at the first place it
\* may be finds them all.
LEMMA FirstPlacesFind ==
  ASSUME ConsoleTypeOK, Ordered
  PROVE  KeysInOrder
<1> DEFINE P == Len(pressed)
           L == Len(taken)
           Good(f) == f = [i \in 0 .. P |->
                             IF i = 0 THEN 0
                             ELSE LET n == f[i - 1]
                                  IN  IF n < L /\ taken[n + 1] = pressed[i] THEN n + 1 ELSE n]
           Found == CHOOSE f : Good(f)
           step == [i \in 1 .. P |-> [n \in 0 .. L |-> IF n < L /\ taken[n + 1] = pressed[i] THEN n + 1 ELSE n]]
<1>1. P \in Nat /\ L \in Nat
  BY DEF ConsoleTypeOK
<1>2. KeysInOrder <=> Found[P] = L
  BY DEF KeysInOrder
<1>3. PICK e : /\ e \in [1 .. L -> 1 .. P]
               /\ \A m, n \in 1 .. L : m < n => e[m] < e[n]
               /\ \A m \in 1 .. L : taken[m] = pressed[e[m]]
  BY DEF Ordered, Places
<1> HIDE DEF P, L
<1>4. step \in [1 .. P -> [0 .. L -> 0 .. L]]
  <2>1. \A i \in 1 .. P : \A n \in 0 .. L : (IF n < L /\ taken[n + 1] = pressed[i] THEN n + 1 ELSE n) \in 0 .. L
    BY <1>1
  <2>2. QED
    BY <2>1
<1>5. 0 \in 0 .. L
  BY <1>1
<1>6. PICK g \in [0 .. P -> 0 .. L] : Follows(g, P, 0, step)
  <2> HIDE DEF step
  <2>1. QED
    BY <1>1, <1>4, <1>5, RecursionExists, Zenon
<1>7. Good(g)
  <2>1. \A i \in 0 .. P : i # 0 => i \in 1 .. P /\ i - 1 \in 0 .. P /\ g[i - 1] \in 0 .. L
    BY <1>1
  <2>2. \A i \in 1 .. P : g[i] = step[i][g[i - 1]]
    BY <1>6 DEF Follows
  <2>3. \A i \in 1 .. P : \A n \in 0 .. L : step[i][n] = IF n < L /\ taken[n + 1] = pressed[i] THEN n + 1 ELSE n
    OBVIOUS
  <2>4. g[0] = 0
    BY <1>6 DEF Follows
  <2> HIDE DEF step
  <2>5. \A i \in 0 .. P : g[i] = IF i = 0 THEN 0
                                 ELSE IF g[i - 1] < L /\ taken[g[i - 1] + 1] = pressed[i] THEN g[i - 1] + 1 ELSE g[i - 1]
    BY <2>1, <2>2, <2>3, <2>4, SMTT(40)
  <2>6. QED
    BY <2>5
<1>8. Good(Found)
  BY <1>7
<1> HIDE DEF Found
<1>9. \A i \in 0 .. P : Found[i] = IF i = 0 THEN 0
                                   ELSE IF Found[i - 1] < L /\ taken[Found[i - 1] + 1] = pressed[i]
                                          THEN Found[i - 1] + 1 ELSE Found[i - 1]
  BY <1>8, Zenon
<1> DEFINE S == {i \in Nat : i <= P => /\ Found[i] \in 0 .. L
                                      /\ \A m \in 1 .. L : e[m] <= i => m <= Found[i]}
<1>10. 0 \in S
  <2>1. Found[0] = 0
    <3>1. 0 \in 0 .. P
      BY <1>1
    <3>2. QED
      BY <1>9, <3>1, Zenon
  <2>2. QED
    BY <1>1, <1>3, <2>1
<1>11. ASSUME NEW i \in Nat, i \in S PROVE i + 1 \in S
  <2>1. CASE i + 1 <= P
    <3> DEFINE n == Found[i]
    <3>1. i + 1 \in 0 .. P /\ i + 1 # 0 /\ (i + 1) - 1 = i /\ i <= P
      BY <1>1, <2>1
    <3>2. n \in 0 .. L /\ \A m \in 1 .. L : e[m] <= i => m <= n
      BY <1>11, <3>1
    <3>3. Found[i + 1] = IF n < L /\ taken[n + 1] = pressed[i + 1] THEN n + 1 ELSE n
      BY <1>9, <3>1
    <3> HIDE DEF n
    <3>4. Found[i + 1] \in 0 .. L /\ n <= Found[i + 1]
      BY <1>1, <3>2, <3>3
    <3>5. ASSUME NEW m \in 1 .. L, e[m] <= i + 1 PROVE m <= Found[i + 1]
      <4>1. m \in Nat /\ m <= L /\ e[m] \in 1 .. P
        BY <1>1, <1>3
      <4>2. CASE e[m] <= i
        BY <1>1, <3>2, <3>4, <4>1, <4>2
      <4>3. CASE e[m] = i + 1
        <5>1. m - 1 <= n
          <6>1. CASE m = 1
            BY <3>2, <6>1
          <6>2. CASE m # 1
            <7>1. m - 1 \in 1 .. L /\ m - 1 < m
              BY <1>1, <4>1, <6>2
            <7>2. e[m - 1] < e[m] /\ e[m - 1] \in 1 .. P
              BY <1>3, <7>1
            <7>3. e[m - 1] <= i
              BY <1>1, <4>3, <7>2
            <7>4. QED
              BY <3>2, <7>1, <7>3
          <6>3. QED
            BY <6>1, <6>2
        <5>2. CASE m <= n
          BY <1>1, <3>2, <3>4, <4>1, <5>2
        <5>3. CASE ~ (m <= n)
          <6>1. n = m - 1 /\ n < L /\ n + 1 = m
            BY <1>1, <3>2, <4>1, <5>1, <5>3
          <6>2. taken[n + 1] = pressed[i + 1]
            BY <1>3, <4>3, <6>1
          <6>3. QED
            BY <3>3, <4>1, <6>1, <6>2
        <5>4. QED
          BY <5>2, <5>3
      <4>4. QED
        BY <1>1, <3>5, <4>1, <4>2, <4>3
    <3>6. QED
      BY <3>4, <3>5
  <2>2. CASE ~ (i + 1 <= P)
    BY <2>2
  <2>3. QED
    BY <2>1, <2>2
<1> HIDE DEF S
<1>12. P \in S
  <2>1. Nat \subseteq S
    BY <1>10, <1>11, AllNumbers
  <2>2. QED
    BY <1>1, <2>1
<1>13. Found[P] \in 0 .. L /\ \A m \in 1 .. L : e[m] <= P => m <= Found[P]
  BY <1>1, <1>12 DEF S
<1>14. Found[P] = L
  <2>1. CASE L = 0
    BY <1>13, <2>1
  <2>2. CASE L # 0
    <3>1. L \in 1 .. L /\ e[L] \in 1 .. P
      BY <1>1, <1>3, <2>2
    <3>2. L <= Found[P]
      BY <1>1, <1>13, <3>1
    <3>3. QED
      BY <1>1, <1>13, <3>2
  <2>3. QED
    BY <2>1, <2>2
<1> QED
  BY <1>2, <1>14

-----------------------------------------------------------------------------
(* The invariant                                                           *)

LEMMA InitInv == ConsoleInit => ConsoleInv
<1> SUFFICES ASSUME ConsoleInit PROVE ConsoleInv
  OBVIOUS
<1> USE DEF ConsoleInit
<1>1. ConsoleTypeOK
  <2>1. term \in Screens
    BY Sizes DEF Screens, Chars
  <2>2. string \in [0 .. MaxLine -> Codes] /\ key \in Codes /\ al \in Codes
    BY DEF Codes
  <2>3. 0 \in 0 .. MaxLine
    BY Sizes
  <2>4. since \in 0 .. Len(taken) /\ <<>> \in Seq(Codes)
    OBVIOUS
  <2>5. QED
    BY <2>1, <2>2, <2>3, <2>4 DEF ConsoleTypeOK
<1>2. Echoed
  BY DEF Echoed
<1>3. Edited
  <2>1. SubSeq(taken, since + 1, Len(taken)) = <<>>
    BY SubSeqEmpty
  <2>2. Edit(<<>>) = <<>>
    <3>1. <<>> \in Seq(Codes) /\ NoKey \in Codes
      BY DEF Codes
    <3>2. QED
      BY <3>1, EditAppend, Zenon
  <2>3. Holds(<<>>)
    BY <2>2 DEF Holds
  <2>4. string[rcx] = NoKey
    BY Sizes
  <2>5. QED
    BY <2>1, <2>3, <2>4 DEF Edited
<1>4. Ordered
  <2>1. Places(<<>>)
    BY DEF Places
  <2>2. QED
    BY <2>1 DEF Ordered
<1> QED
  BY <1>1, <1>2, <1>3, <1>4 DEF ConsoleInv

LEMMA TypeStep ==
  ASSUME ConsoleTypeOK, Echoed, [ConsoleNext]_consoleVars
  PROVE  ConsoleTypeOK'
<1> USE DEF ConsoleTypeOK
<1>1. ASSUME NEW scan \in DOMAIN Layout, KeyDown(scan) PROVE ConsoleTypeOK'
  <2>1. Layout[scan][IF key_shift THEN 2 ELSE 1] \in Codes
    BY DEF Codes
  <2>2. key' \in Codes /\ pressed' \in Seq(Codes) /\ pc' \in {pc, "more"}
    BY <1>1, <2>1, AppendProperties DEF KeyDown, Woken
  <2>3. QED
    BY <1>1, <2>2 DEF KeyDown, inputVars
<1>2. ASSUME NEW down \in BOOLEAN, Shift(down) PROVE ConsoleTypeOK'
  BY <1>2 DEF Shift, Woken, inputVars
<1>3. CASE Interrupt
  BY <1>3 DEF Interrupt, Woken, inputVars
<1>4. CASE CallInput
  <2>1. 0 \in 0 .. MaxLine /\ Len(taken) \in 0 .. Len(taken)
    BY Sizes
  <2>2. QED
    BY <1>4, <2>1 DEF CallInput
<1>5. CASE ShowCursor
  <2>1. Behind(term, rcx, string)
    BY <1>5 DEF ShowCursor, Echoed
  <2>2. term' \in Screens
    BY <1>5, <2>1, OverCursor DEF ShowCursor, Chars
  <2>3. QED
    BY <1>5, <2>2 DEF ShowCursor, inputVars
<1>6. CASE KeyLoad
  BY <1>6 DEF KeyLoad, inputVars
<1>7. CASE KeyClear
  <2>1. taken' \in Seq(Codes) /\ Len(taken') = Len(taken) + 1 /\ key' \in Codes
    BY <1>7, AppendProperties DEF KeyClear, Codes
  <2>2. since' \in 0 .. Len(taken')
    BY <1>7, <2>1 DEF KeyClear
  <2>3. QED
    BY <1>7, <2>1, <2>2 DEF KeyClear
<1>8. CASE Halt
  BY <1>8 DEF Halt, inputVars
<1>9. CASE GotChar
  <2>1. CASE rcx = MaxLine
    BY <1>9, <2>1 DEF GotChar
  <2>2. CASE rcx # MaxLine
    <3>1. rcx' \in 0 .. MaxLine /\ rdi' = rcx' /\ string' \in [0 .. MaxLine -> Codes]
      BY <1>9, <2>2, Sizes DEF GotChar
    <3>2. term' \in Screens
      BY <1>9, <2>2, OutputPuts DEF GotChar, Chars
    <3>3. QED
      BY <1>9, <3>1, <3>2 DEF GotChar
  <2>3. QED
    BY <2>1, <2>2
<1>10. CASE GotBackspace
  <2>1. CASE rcx = 0
    BY <1>10, <2>1 DEF GotBackspace
  <2>2. CASE rcx # 0
    <3> NoKey \in Codes /\ MaxLine \in Nat
      BY Sizes DEF Codes
    <3>1. rcx' \in 0 .. MaxLine /\ rdi' = rcx' /\ string' \in [0 .. MaxLine -> Codes]
      <4>1. rcx' = rcx - 1 /\ rdi' = rdi - 1 /\ string' = [string EXCEPT ![rdi - 1] = NoKey]
        BY <1>10, <2>2 DEF GotBackspace
      <4>2. rcx - 1 \in 0 .. MaxLine
        BY <2>2
      <4>3. QED
        BY <4>1, <4>2
    <3>2. Behind(term, rcx, string)
      BY <1>10 DEF GotBackspace, Echoed
    <3>3. term' \in Screens
      BY <1>10, <2>2, <3>2, OneLess DEF GotBackspace
    <3>4. QED
      BY <1>10, <3>1, <3>3 DEF GotBackspace
  <2>3. QED
    BY <2>1, <2>2
<1>11. CASE GotEnter
  <2>1. string' \in [0 .. MaxLine -> Codes]
    BY <1>11 DEF GotEnter, Codes
  <2>2. term' \in Screens
    BY <1>11, OutputPuts DEF GotEnter, Chars
  <2>3. QED
    BY <1>11, <2>1, <2>2 DEF GotEnter
<1>12. ASSUME NEW c \in {"x", NewLine, Tab}, PrintChar(c) PROVE ConsoleTypeOK'
  <2>1. term' \in Screens
    <3>1. CASE c = NewLine
      <4>1. term' = os_print_newline(term)
        BY <1>12, <3>1 DEF PrintChar, NewLine, Tab
      <4>2. QED
        BY <4>1, NewlineStays
    <3>2. CASE c = Tab
      <4>1. term' = OutputTab(term)
        BY <1>12, <3>2 DEF PrintChar, NewLine, Tab
      <4>2. QED
        BY <4>1, TabStays
    <3>3. CASE c = "x"
      <4>1. term' = os_output_char(term, "x")
        BY <1>12, <3>3 DEF PrintChar, NewLine, Tab
      <4>2. QED
        BY <4>1, OutputPuts DEF Chars
    <3>4. QED
      BY <3>1, <3>2, <3>3
  <2>2. QED
    BY <1>12, <2>1 DEF PrintChar, inputVars
<1>13. CASE UNCHANGED consoleVars
  BY <1>13 DEF consoleVars, inputVars
<1>14. CASE GotOther
  BY <1>14 DEF GotOther, inputVars
<1> QED
  BY <1>1, <1>2, <1>3, <1>4, <1>5, <1>6, <1>7, <1>8, <1>9, <1>10, <1>11, <1>12, <1>13, <1>14
     DEF ConsoleNext, InputStep

LEMMA EchoStep ==
  ASSUME ConsoleTypeOK, Echoed, [ConsoleNext]_consoleVars
  PROVE  Echoed'
<1> USE DEF Echoed
<1>1. ASSUME NEW scan \in DOMAIN Layout, KeyDown(scan) PROVE Echoed'
  <2>1. pc' = Woken /\ UNCHANGED <<term, string, rcx>>
    BY <1>1, Zenon DEF KeyDown, inputVars
  <2>2. QED
    BY <2>1 DEF Woken, Behind, Pos
<1>2. ASSUME NEW down \in BOOLEAN, Shift(down) PROVE Echoed'
  BY <1>2 DEF Shift, Woken, inputVars, Behind, Pos
<1>3. CASE Interrupt
  BY <1>3 DEF Interrupt, Woken, inputVars, Behind, Pos
<1>4. CASE CallInput
  <2>1. Pos(term) \in Cells
    BY PosIs DEF ConsoleTypeOK
  <2>2. Behind(term, 0, string)
    BY <2>1 DEF Behind, Cells
  <2>3. QED
    BY <1>4, <2>2 DEF CallInput, Behind, Pos
<1>5. CASE ShowCursor
  <2>1. Behind(term, rcx, string) /\ term \in Screens /\ rcx \in 0 .. MaxLine /\ Underscore \in Chars
    BY <1>5 DEF ShowCursor, ConsoleTypeOK, Chars
  <2>2. Behind(term', rcx, string) /\ term'.cells[Pos(term')] = Underscore
    BY <1>5, <2>1, OverCursor DEF ShowCursor
  <2>3. Behind(term, rcx, string)' /\ (term.cells[Pos(term)] = Underscore)'
    BY <1>5, <2>2 DEF ShowCursor, inputVars, Behind, Pos
  <2>4. QED
    BY <2>3
<1>6. CASE KeyLoad
  BY <1>6 DEF KeyLoad, inputVars, Behind, Pos
<1>7. CASE KeyClear
  BY <1>7 DEF KeyClear, Behind, Pos
<1>8. CASE Halt
  BY <1>8 DEF Halt, inputVars, Behind, Pos
<1>9. CASE GotChar
  <2>1. Behind(term, rcx, string) /\ pc' = "more"
    BY <1>9 DEF GotChar
  <2>2. CASE rcx = MaxLine
    BY <1>9, <2>1, <2>2 DEF GotChar, Behind, Pos
  <2>3. CASE rcx # MaxLine
    <3>1. term \in Screens /\ al \in Codes /\ rcx \in 0 .. MaxLine /\ string \in [0 .. MaxLine -> Codes]
      BY DEF ConsoleTypeOK
    <3>2. Behind(os_output_char(term, al), rcx + 1, [string EXCEPT ![rcx] = al])
      BY <2>1, <2>3, <3>1, OneMore
    <3>3. Behind(term', rcx', string')
      BY <1>9, <2>3, <3>2 DEF GotChar, ConsoleTypeOK
    <3>4. Behind(term, rcx, string)'
      BY <3>3 DEF Behind, Pos
    <3>5. QED
      BY <2>1, <3>4
  <2>4. QED
    BY <2>2, <2>3
<1>10. CASE GotBackspace
  <2>1. Behind(term, rcx, string) /\ pc' = "more"
    BY <1>10 DEF GotBackspace
  <2>2. CASE rcx = 0
    BY <1>10, <2>1, <2>2 DEF GotBackspace, Behind, Pos
  <2>3. CASE rcx # 0
    <3>1. term \in Screens /\ rcx \in 0 .. MaxLine /\ string \in [0 .. MaxLine -> Codes] /\ MaxLine \in Nat
      BY Sizes DEF ConsoleTypeOK
    <3>2. Behind(term', rcx - 1, string)
      BY <1>10, <2>1, <2>3, <3>1, OneLess DEF GotBackspace
    <3>3. rcx' = rcx - 1 /\ \A i \in 0 .. (rcx - 1) - 1 : string'[i] = string[i]
      <4>1. rcx' = rcx - 1 /\ string' = [string EXCEPT ![rcx - 1] = NoKey]
        BY <1>10, <2>3 DEF GotBackspace, ConsoleTypeOK
      <4>2. QED
        BY <3>1, <4>1
    <3>4. Behind(term', rcx', string')
      BY <3>2, <3>3 DEF Behind
    <3>5. Behind(term, rcx, string)'
      BY <3>4 DEF Behind, Pos
    <3>6. QED
      BY <2>1, <3>5
  <2>4. QED
    BY <2>2, <2>3
<1>11. CASE GotEnter
  BY <1>11 DEF GotEnter
<1>12. ASSUME NEW c \in {"x", NewLine, Tab}, PrintChar(c) PROVE Echoed'
  BY <1>12 DEF PrintChar
<1>13. CASE UNCHANGED consoleVars
  BY <1>13 DEF consoleVars, inputVars, Behind, Pos
<1>14. CASE GotOther
  BY <1>14 DEF GotOther, inputVars, Behind, Pos
<1> QED
  BY <1>1, <1>2, <1>3, <1>4, <1>5, <1>6, <1>7, <1>8, <1>9, <1>10, <1>11, <1>12, <1>13, <1>14
     DEF ConsoleNext, InputStep

\* The keys of this call, one more when a key is taken.
LEMMA KeysSoFar ==
  ASSUME NEW keys \in Seq(Codes), NEW m \in 0 .. Len(keys), NEW k \in Codes
  PROVE  /\ SubSeq(keys, m + 1, Len(keys)) \in Seq(Codes)
         /\ SubSeq(Append(keys, k), m + 1, Len(keys)) = SubSeq(keys, m + 1, Len(keys))
         /\ m < Len(keys) => /\ SubSeq(keys, m + 1, Len(keys) - 1) \in Seq(Codes)
                             /\ SubSeq(keys, m + 1, Len(keys))
                                  = Append(SubSeq(keys, m + 1, Len(keys) - 1), keys[Len(keys)])
<1> DEFINE n == Len(keys)
<1>1. n \in Nat /\ m \in Nat /\ m <= n /\ \A i \in 1 .. n : keys[i] \in Codes
  OBVIOUS
<1> HIDE DEF n
<1>2. m + 1 \in Int /\ n \in Int /\ n - 1 \in Int /\ \A i \in m + 1 .. n : i \in 1 .. n
  BY <1>1
<1>3. SubSeq(keys, m + 1, n) \in Seq(Codes)
  BY <1>1, <1>2, SubSeqProperties
<1>4. SubSeq(Append(keys, k), m + 1, n) = SubSeq(keys, m + 1, n)
  <2>1. CASE m = n
    <3>1. n < m + 1
      BY <1>1, <2>1
    <3>2. QED
      BY <1>2, <3>1, SubSeqEmpty
  <2>2. CASE m # n
    <3>1. m + 1 \in 1 .. Len(keys) /\ n \in 1 .. Len(keys)
      BY <1>1, <2>2 DEF n
    <3>2. <<k>> \in Seq(Codes) /\ Append(keys, k) = keys \o <<k>>
      BY AppendIsConcat
    <3>3. QED
      BY <3>1, <3>2, SubSeqOfConcat1
  <2>3. QED
    BY <2>1, <2>2
<1>5. ASSUME m < n
      PROVE  /\ SubSeq(keys, m + 1, n - 1) \in Seq(Codes)
             /\ SubSeq(keys, m + 1, n) = Append(SubSeq(keys, m + 1, n - 1), keys[n])
  <2>1. \A i \in m + 1 .. n - 1 : keys[i] \in Codes
    BY <1>1
  <2>2. SubSeq(keys, m + 1, n - 1) \in Seq(Codes)
    BY <1>2, <2>1, SubSeqProperties
  <2>3. m + 1 \in 1 .. Len(keys) /\ n \in m + 1 .. Len(keys) /\ keys[n] \in Codes
    BY <1>1, <1>5 DEF n
  <2>4. SubSeq(keys, m + 1, n) = SubSeq(keys, m + 1, n - 1) \o <<keys[n]>>
    BY <2>3, SubSeqRecursiveSecond
  <2>5. QED
    BY <2>2, <2>3, <2>4, AppendIsConcat
<1> QED
  BY <1>3, <1>4, <1>5 DEF n

LEMMA EditStep ==
  ASSUME ConsoleTypeOK, Edited, [ConsoleNext]_consoleVars
  PROVE  Edited'
<1> DEFINE Quiet == UNCHANGED <<string, rcx, taken, since, al>>
<1>0. ASSUME Quiet, (pc = "got") <=> (pc' = "got"), pc' = "idle" => pc = "idle"
      PROVE  Edited'
  BY <1>0 DEF Edited, Holds
<1>1. ASSUME NEW scan \in DOMAIN Layout, KeyDown(scan) PROVE Edited'
  <2>1. Quiet /\ pc' = Woken
    BY <1>1, Zenon DEF KeyDown, inputVars
  <2>2. QED
    BY <1>0, <2>1 DEF Woken
<1>2. ASSUME NEW down \in BOOLEAN, Shift(down) PROVE Edited'
  BY <1>0, <1>2 DEF Shift, Woken, inputVars
<1>3. CASE Interrupt
  BY <1>0, <1>3 DEF Interrupt, Woken, inputVars
<1>4. CASE CallInput
  <2> DEFINE keys == SubSeq(taken', since' + 1, Len(taken'))
  <2>1. taken' = taken /\ since' = Len(taken) /\ rcx' = 0 /\ pc' = "more"
    BY <1>4 DEF CallInput
  <2>2. keys = <<>>
    <3>1. Len(taken) + 1 \in Int /\ Len(taken) \in Int /\ Len(taken) < Len(taken) + 1
      BY DEF ConsoleTypeOK
    <3>2. QED
      BY <2>1, <3>1, SubSeqEmpty
  <2> HIDE DEF keys
  <2>3. Edit(keys) = <<>>
    <3>1. <<>> \in Seq(Codes) /\ NoKey \in Codes
      BY DEF Codes
    <3>2. QED
      BY <2>2, <3>1, EditAppend, Zenon
  <2>4. rcx' = Len(Edit(keys)) /\ \A i \in 1 .. Len(Edit(keys)) : string'[i - 1] = Edit(keys)[i]
    BY <2>1, <2>3
  <2>5. QED
    BY <2>1, <2>4 DEF Edited, Holds, keys
<1>5. CASE ShowCursor
  BY <1>0, <1>5 DEF ShowCursor, inputVars
<1>6. CASE KeyLoad
  BY <1>6 DEF KeyLoad, inputVars, Edited, Holds
<1>7. CASE KeyClear
  <2>1. /\ taken' = Append(taken, al) /\ pc' = "got" /\ al' = al
        /\ UNCHANGED <<since, rcx, string>>
    BY <1>7 DEF KeyClear
  <2>2. /\ Len(taken') - 1 = Len(taken) /\ taken'[Len(taken')] = al' /\ since < Len(taken')
        /\ Len(taken) \in Nat
    BY <2>1 DEF ConsoleTypeOK
  <2>3. SubSeq(taken', since' + 1, Len(taken') - 1) = SubSeq(taken, since + 1, Len(taken))
    BY <2>1, <2>2, KeysSoFar DEF ConsoleTypeOK
  <2>4. Holds(SubSeq(taken, since + 1, Len(taken)))
    BY <1>7 DEF KeyClear, Edited
  <2>5. Holds(SubSeq(taken, since + 1, Len(taken) - 1))'
    BY <2>1, <2>3, <2>4 DEF Holds
  <2>6. QED
    BY <2>1, <2>2, <2>5 DEF Edited
<1>8. CASE Halt
  BY <1>0, <1>8 DEF Halt, inputVars
<1>9. ASSUME pc = "got", GotOther \/ GotChar \/ GotBackspace \/ GotEnter
      PROVE  Edited'
  <2> DEFINE before == SubSeq(taken, since + 1, Len(taken) - 1)
             keys == SubSeq(taken, since + 1, Len(taken))
             text == Edit(before)
             edited == Edit(keys)
  <2>1. since < Len(taken) /\ taken[Len(taken)] = al /\ Holds(before)
    BY <1>9 DEF Edited
  <2>2. before \in Seq(Codes) /\ keys = Append(before, al) /\ al \in Codes
    BY <2>1, KeysSoFar DEF ConsoleTypeOK
  <2>3. UNCHANGED <<taken, since>> /\ pc' \in {"more", "idle"}
    BY <1>9 DEF GotOther, GotChar, GotBackspace, GotEnter, inputVars
  <2> HIDE DEF before, keys
  <2>4. text \in Seq(Codes) /\ edited = Struck(text, al)
    BY <2>2, EditAppend
  <2>5. rcx = Len(text) /\ \A i \in 1 .. Len(text) : string[i - 1] = text[i]
    BY <2>1 DEF Holds
  <2> HIDE DEF text, edited
  <2>6. /\ rcx \in 0 .. MaxLine /\ rdi = rcx /\ string \in [0 .. MaxLine -> Codes] /\ MaxLine \in Nat
        /\ Len(text) \in Nat
    BY <2>4, Sizes DEF ConsoleTypeOK
  <2>7. /\ rcx' = Len(edited) /\ \A i \in 1 .. Len(edited) : string'[i - 1] = edited[i]
        /\ pc' = "idle" => string'[rcx'] = NoKey
    <3>1. CASE GotChar
      <4>1. al \in Printable /\ pc' = "more"
        BY <3>1 DEF GotChar
      <4>2. edited = IF Len(text) = MaxLine THEN text ELSE Append(text, al)
        BY <2>4, <4>1, ConsoleAssumption DEF Struck, ConsoleAssumption
      <4>3. CASE rcx = MaxLine
        BY <2>5, <3>1, <4>1, <4>2, <4>3 DEF GotChar
      <4>4. CASE rcx # MaxLine
        <5>1. rcx' = rcx + 1 /\ string' = [string EXCEPT ![rcx] = al]
          BY <2>6, <3>1, <4>4 DEF GotChar
        <5>2. edited = Append(text, al)
          BY <2>5, <4>2, <4>4
        <5>3. /\ Len(edited) = Len(text) + 1 /\ edited[Len(text) + 1] = al
              /\ \A i \in 1 .. Len(text) : edited[i] = text[i]
          BY <2>2, <2>4, <5>2, AppendProperties
        <5>4. string'[rcx] = al /\ \A j \in 0 .. MaxLine : j # rcx => string'[j] = string[j]
          BY <2>6, <5>1
        <5>5. ASSUME NEW i \in 1 .. Len(edited) PROVE string'[i - 1] = edited[i]
          <6>1. CASE i = Len(text) + 1
            <7>1. i - 1 = rcx
              BY <2>5, <2>6, <6>1
            <7>2. QED
              BY <5>3, <5>4, <6>1, <7>1
          <6>2. CASE i # Len(text) + 1
            <7>1. i \in 1 .. Len(text) /\ i - 1 \in 0 .. MaxLine /\ i - 1 # rcx
              BY <2>5, <2>6, <5>3, <6>2
            <7>2. QED
              BY <2>5, <5>3, <5>4, <7>1
          <6>3. QED
            BY <6>1, <6>2
        <5>6. QED
          BY <2>5, <4>1, <5>1, <5>3, <5>5
      <4>5. QED
        BY <4>3, <4>4
    <3>2. CASE GotBackspace
      <4>1. al = Backspace /\ al \notin Printable /\ pc' = "more"
        BY <3>2, ConsoleAssumption DEF GotBackspace, ConsoleAssumption
      <4>2. edited = IF text = <<>> THEN text ELSE Front(text)
        BY <2>4, <4>1 DEF Struck
      <4>3. CASE rcx = 0
        <5>1. text = <<>>
          <6>1. text \in Seq(Codes) /\ Len(text) = 0
            BY <2>4, <2>5, <4>3
          <6>2. QED
            BY ONLY <6>1, EmptySeq
        <5>2. QED
          BY <2>5, <3>2, <4>1, <4>2, <4>3, <5>1 DEF GotBackspace
      <4>4. CASE rcx # 0
        <5>1. rcx' = rcx - 1 /\ string' = [string EXCEPT ![rcx - 1] = NoKey]
          BY <2>6, <3>2, <4>4 DEF GotBackspace
        <5>2. text # <<>>
          BY <2>5, <4>4
        <5>3. edited = Front(text)
          BY <4>2, <5>2
        <5>4. Len(edited) = Len(text) - 1 /\ \A i \in 1 .. Len(text) - 1 : edited[i] = text[i]
          BY <2>4, <5>2, <5>3, FrontIs
        <5>5. ASSUME NEW i \in 1 .. Len(edited) PROVE string'[i - 1] = edited[i]
          <6>1. i \in 1 .. Len(text) /\ i \in 1 .. Len(text) - 1 /\ i - 1 \in 0 .. MaxLine /\ i - 1 # rcx - 1
            BY <2>5, <2>6, <5>4
          <6>2. string'[i - 1] = string[i - 1]
            BY <2>6, <5>1, <6>1
          <6>3. QED
            BY <2>5, <5>4, <6>1, <6>2
        <5>6. QED
          BY <2>5, <4>1, <5>1, <5>4, <5>5
      <4>5. QED
        BY <4>3, <4>4
    <3>3. CASE GotEnter
      <4>1. al = Enter /\ rcx' = rcx /\ string' = [string EXCEPT ![rcx] = NoKey]
        BY <2>6, <3>3 DEF GotEnter
      <4>2. edited = text
        BY <2>4, <4>1, ConsoleAssumption DEF Struck, Enter, Backspace, ConsoleAssumption
      <4>3. string'[rcx] = NoKey /\ \A j \in 0 .. MaxLine : j # rcx => string'[j] = string[j]
        BY <2>6, <4>1
      <4>4. ASSUME NEW i \in 1 .. Len(edited) PROVE string'[i - 1] = edited[i]
        <5>1. i \in 1 .. Len(text) /\ i - 1 \in 0 .. MaxLine /\ i - 1 # rcx
          BY <2>5, <2>6, <4>2
        <5>2. QED
          BY <2>5, <4>2, <4>3, <5>1
      <4>5. QED
        BY <2>5, <4>1, <4>2, <4>3, <4>4
    <3>4. CASE GotOther
      <4>1. al \notin Printable \cup {Enter, Backspace} /\ pc' = "more" /\ UNCHANGED <<string, rcx>>
        BY <3>4 DEF GotOther, inputVars
      <4>2. edited = text
        BY <2>4, <4>1 DEF Struck
      <4>3. QED
        BY <2>5, <4>1, <4>2
    <3>5. QED
      BY <1>9, <3>1, <3>2, <3>3, <3>4
  <2>8. SubSeq(taken', since' + 1, Len(taken')) = keys
    BY <2>3 DEF keys
  <2>9. Holds(SubSeq(taken, since + 1, Len(taken)))'
    BY <2>7, <2>8 DEF Holds, edited
  <2>10. QED
    BY <2>3, <2>7, <2>9 DEF Edited
<1>10. ASSUME NEW c \in {"x", NewLine, Tab}, PrintChar(c) PROVE Edited'
  BY <1>0, <1>10 DEF PrintChar, inputVars
<1>11. CASE UNCHANGED consoleVars
  BY <1>0, <1>11 DEF consoleVars, inputVars
<1> QED
  BY <1>1, <1>2, <1>3, <1>4, <1>5, <1>6, <1>7, <1>8, <1>9, <1>10, <1>11
     DEF ConsoleNext, InputStep, GotOther, GotChar, GotBackspace, GotEnter

LEMMA OrderStep ==
  ASSUME ConsoleTypeOK, Ordered, [ConsoleNext]_consoleVars
  PROVE  Ordered'
<1>1. PICK e : Places(e)
  BY DEF Ordered
<1>2. /\ pressed \in Seq(Codes) /\ taken \in Seq(Codes) /\ Len(pressed) \in Nat /\ Len(taken) \in Nat
  BY DEF ConsoleTypeOK
<1>3. ASSUME NEW scan \in DOMAIN Layout, KeyDown(scan) PROVE Ordered'
  <2> DEFINE code == Layout[scan][IF key_shift THEN 2 ELSE 1]
  <2>1. /\ key' = code /\ pc' = Woken /\ UNCHANGED <<al, taken>>
        /\ pressed' = IF code = NoKey THEN pressed ELSE Append(pressed, code)
    BY <1>3, Zenon DEF KeyDown, inputVars
  <2>2. pc' = "clear" => pc = "clear"
    BY <2>1 DEF Woken
  <2>3. code \in Codes
    BY DEF Codes
  <2> HIDE DEF code
  <2>4. CASE code = NoKey
    <3>1. Places(e)'
      BY <1>1, <2>1, <2>2, <2>4 DEF Places
    <3>2. QED
      BY <3>1 DEF Ordered
  <2>5. CASE code # NoKey
    <3>1. /\ Len(pressed') = Len(pressed) + 1 /\ pressed'[Len(pressed) + 1] = code
          /\ \A i \in 1 .. Len(pressed) : pressed'[i] = pressed[i]
      BY <1>2, <2>1, <2>3, <2>5, AppendProperties
    <3>2. 1 .. Len(pressed) \subseteq 1 .. Len(pressed')
      BY <1>2, <3>1
    <3>3. /\ e \in [1 .. Len(taken') -> 1 .. Len(pressed')]
          /\ \A m, n \in 1 .. Len(taken') : m < n => e[m] < e[n]
          /\ \A m \in 1 .. Len(taken') : taken'[m] = pressed'[e[m]]
      BY <1>1, <2>1, <3>1, <3>2 DEF Places
    <3>4. /\ Len(pressed') > 0 /\ pressed'[Len(pressed')] = key'
          /\ \A m \in 1 .. Len(taken') : e[m] < Len(pressed')
      <4>1. e \in [1 .. Len(taken) -> 1 .. Len(pressed)] /\ Len(taken') = Len(taken)
        BY <1>1, <2>1 DEF Places
      <4>2. \A m \in 1 .. Len(taken') : e[m] < Len(pressed')
        BY <1>2, <3>1, <4>1
      <4>3. QED
        BY <1>2, <2>1, <3>1, <4>2
    <3>5. pc' = "clear" => \E j \in 1 .. Len(pressed') : pressed'[j] = al' /\ \A m \in 1 .. Len(taken') : e[m] < j
      BY <1>1, <2>1, <2>2, <3>1, <3>2 DEF Places
    <3>6. Places(e)'
      BY <3>3, <3>4, <3>5 DEF Places
    <3>7. QED
      BY <3>6 DEF Ordered
  <2>6. QED
    BY <2>4, <2>5
<1>4. CASE KeyLoad
  <2>1. al' = key /\ (pc' = "clear" => key # NoKey) /\ UNCHANGED <<key, taken, pressed>>
    BY <1>4 DEF KeyLoad, inputVars
  <2>2. key # NoKey => \E j \in 1 .. Len(pressed) : pressed[j] = key /\ \A m \in 1 .. Len(taken) : e[m] < j
    <3>1. key # NoKey => Len(pressed) \in 1 .. Len(pressed)
      BY <1>1, <1>2 DEF Places
    <3>2. QED
      BY <1>1, <3>1 DEF Places
  <2>3. Places(e)'
    BY <1>1, <2>1, <2>2 DEF Places
  <2>4. QED
    BY <2>3 DEF Ordered
<1>5. CASE KeyClear
  <2>1. key' = NoKey /\ taken' = Append(taken, al) /\ pc' = "got" /\ UNCHANGED <<pressed, al>>
    BY <1>5 DEF KeyClear
  <2>2. PICK j \in 1 .. Len(pressed) : pressed[j] = al /\ \A m \in 1 .. Len(taken) : e[m] < j
    BY <1>1, <1>5 DEF KeyClear, Places
  <2> DEFINE n == Len(taken)
             f == [m \in 1 .. n + 1 |-> IF m = n + 1 THEN j ELSE e[m]]
  <2>3. /\ Len(taken') = n + 1 /\ taken'[n + 1] = al
        /\ \A i \in 1 .. n : taken'[i] = taken[i]
    BY <1>2, <2>1, AppendProperties DEF ConsoleTypeOK
  <2>4. /\ e \in [1 .. n -> 1 .. Len(pressed)]
        /\ \A m, k \in 1 .. n : m < k => e[m] < e[k]
        /\ \A m \in 1 .. n : taken[m] = pressed[e[m]] /\ e[m] < j
    BY <1>1, <2>2 DEF Places
  <2>5. n \in Nat
    BY <1>2
  <2> HIDE DEF n
  <2>6. f[n + 1] = j /\ \A m \in 1 .. n : f[m] = e[m] /\ m # n + 1
    BY <2>5
  <2>7. f \in [1 .. n + 1 -> 1 .. Len(pressed)]
    BY <2>4, <2>5
  <2> HIDE DEF f
  <2>8. ASSUME NEW m \in 1 .. n + 1, NEW k \in 1 .. n + 1, m < k PROVE f[m] < f[k]
    <3>1. m \in 1 .. n /\ (k \in 1 .. n \/ k = n + 1)
      BY <2>5, <2>8
    <3>2. QED
      BY <2>4, <2>6, <2>8, <3>1
  <2>9. ASSUME NEW m \in 1 .. n + 1 PROVE taken'[m] = pressed[f[m]]
    <3>1. m \in 1 .. n \/ m = n + 1
      BY <2>5
    <3>2. QED
      BY <2>2, <2>3, <2>4, <2>6, <3>1
  <2>10. PICK g : g = f
    OBVIOUS
  <2>11. Places(g)'
    <3>1. /\ g \in [1 .. Len(taken') -> 1 .. Len(pressed')]
          /\ \A m, k \in 1 .. Len(taken') : m < k => g[m] < g[k]
          /\ \A m \in 1 .. Len(taken') : taken'[m] = pressed'[g[m]]
      BY <2>1, <2>3, <2>7, <2>8, <2>9, <2>10
    <3>2. key' = NoKey /\ pc' # "clear"
      BY <2>1
    <3>3. QED
      BY <3>1, <3>2 DEF Places
  <2>12. QED
    BY <2>11 DEF Ordered
<1>6. ASSUME UNCHANGED <<key, taken, pressed>>, pc' # "clear" \/ UNCHANGED <<pc, al>>
      PROVE  Ordered'
  <2>1. Places(e)'
    BY <1>1, <1>6 DEF Places
  <2>2. QED
    BY <2>1 DEF Ordered
<1>7. ASSUME NEW down \in BOOLEAN, Shift(down) PROVE Ordered'
  BY <1>6, <1>7 DEF Shift, Woken, inputVars
<1>8. CASE Interrupt
  BY <1>6, <1>8 DEF Interrupt, Woken, inputVars
<1>9. CASE CallInput \/ ShowCursor \/ Halt
  BY <1>6, <1>9 DEF CallInput, ShowCursor, Halt, inputVars
<1>10. CASE GotOther \/ GotChar \/ GotBackspace \/ GotEnter
  BY <1>6, <1>10 DEF GotOther, GotChar, GotBackspace, GotEnter, inputVars
<1>11. ASSUME NEW c \in {"x", NewLine, Tab}, PrintChar(c) PROVE Ordered'
  BY <1>6, <1>11 DEF PrintChar, inputVars
<1>12. CASE UNCHANGED consoleVars
  BY <1>6, <1>12 DEF consoleVars, inputVars
<1> QED
  BY <1>3, <1>4, <1>5, <1>7, <1>8, <1>9, <1>10, <1>11, <1>12 DEF ConsoleNext, InputStep

\* The invariant holds in every state: the keys, the line and the screen agree.
THEOREM ConsoleInvariant == ConsoleSpec => []ConsoleInv
<1>1. ConsoleInit => ConsoleInv
  BY InitInv
<1>2. ConsoleInv /\ [ConsoleNext]_consoleVars => ConsoleInv'
  BY TypeStep, EchoStep, EditStep, OrderStep DEF ConsoleInv
<1> QED
  BY <1>1, <1>2, PTL DEF ConsoleSpec

-----------------------------------------------------------------------------
(* Theorems                                                                *)

\* While os_input waits, the characters of its string stand right before the cursor, on a screen and
\* for a line of any size, over line ends, scrolls and backspaces, and the cursor shows.
THEOREM EchoAlwaysMatches == ConsoleSpec => []EchoMatches
<1>1. ASSUME ConsoleInv PROVE EchoMatches
  <2>1. Offset(term) = Pos(term)
    BY <1>1, PosIs DEF ConsoleInv, ConsoleTypeOK
  <2>2. QED
    BY <1>1, <2>1 DEF ConsoleInv, Echoed, Behind, EchoMatches
<1> QED
  BY <1>1, ConsoleInvariant, PTL

\* The string of os_input is the line that the keys taken in the call make, whatever they are, and
\* when os_input returns a zero ends it.
THEOREM LineAlwaysEdited == ConsoleSpec => []LineIsEdit
<1>1. ConsoleInv => LineIsEdit
  BY DEF ConsoleInv, Edited, Holds, LineIsEdit
<1> QED
  BY <1>1, ConsoleInvariant, PTL

\* The keys os_input takes were pressed, in that order and each at most once, wherever the keyboard
\* interrupt comes between its load of the key and its store of 0.
THEOREM KeysAlwaysInOrder == ConsoleSpec => []KeysInOrder
<1>1. ConsoleInv => KeysInOrder
  BY FirstPlacesFind DEF ConsoleInv
<1> QED
  BY <1>1, ConsoleInvariant, PTL

=============================================================================
