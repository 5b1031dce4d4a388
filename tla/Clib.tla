--------------------------------- MODULE Clib ---------------------------------
(***************************************************************************)
(* printf and sprintf of the C library (stdio.c): the way from a format    *)
(* and its arguments to characters, on the screen or in a buffer.          *)
(*                                                                         *)
(* A character is its ASCII code.  A program writes its format piece by    *)
(* piece: a character that stands for itself, %%, or a conversion.  What a *)
(* format means is said of the pieces; print sees the characters only, one *)
(* round of its loop a step.  Behind the format, memory goes on.           *)
(***************************************************************************)
EXTENDS Integers, Sequences, SequencesExt, FiniteSetsExt

CONSTANTS
  Calls,     \* the calls programs make: pieces, what is left of a piece cut short, arguments
  Behind,    \* the characters in memory behind the end of the format
  IntLimit,  \* one more than the largest uint32_t, 2^32
  LongLimit  \* and of uint64_t, 2^64

\* Characters.
NUL == 0
Percent == 37
Minus == 45
Digits == 48 .. 57
Long == 108
Conversions == [s |-> 115, c |-> 99, d |-> 100, u |-> 117, x |-> 120, X |-> 88]

\* The pieces of a format.
Plain(c) == [plain |-> TRUE, char |-> c]
Conversion(left, zero, width, long, conv) ==
  [plain |-> FALSE, left |-> left, zero |-> zero, width |-> width, long |-> long, conv |-> conv]

Pieces ==
  [plain : {TRUE}, char : Nat \ {NUL}]
  \cup [plain : {FALSE}, left : BOOLEAN, zero : BOOLEAN, width : Nat, long : BOOLEAN,
        conv : Range(Conversions)]

\* What stands for each argument, as a number, a character and a string; <<NUL>> is the pointer 0.
Arguments == [num : Nat, chr : Nat \ {NUL}, str : Seq(Nat \ {NUL}) \cup {<<NUL>>}]

\* A call has an argument for each conversion.
IsCall(c) ==
  /\ c.pieces \in Seq(Pieces)
  /\ c.cut \in Seq(Nat \ {NUL})
  /\ c.args \in Seq(Arguments)
  /\ Cardinality({n \in DOMAIN c.pieces : ~ c.pieces[n].plain}) <= Len(c.args)

ClibAssumption ==
  /\ \A c \in Calls : IsCall(c)
  /\ IntLimit \in Nat \ {0} /\ LongLimit \in Nat \ {0}
  /\ Behind \in Seq(Nat) /\ NUL \in Range(Behind)
ASSUME ClibAssumption

VARIABLES
  call,     \* the call in hand
  memory,   \* the characters from the start of the format on
  printing, \* print is running
  format,   \* where print is in them
  arg,      \* the argument that va_arg gives next
  out,      \* the characters put out
  pc        \* how many, as print counts them

clibVars == <<call, memory, printing, format, arg, out, pc>>

-----------------------------------------------------------------------------
(* prints and printi                                                       *)

\* What is left of the width goes before the string, or behind it with PAD_RIGHT; it is filled
\* with zeros for PAD_ZERO, on either side.
prints(string, width, left, zero) ==
  LET filler == [n \in 1 .. width - Len(string) |-> IF zero THEN 48 ELSE 32]
  IN  IF left THEN string \o filler ELSE filler \o string

\* The digits of u, the last first.  The sign is never looked at.
printi(u, b, letbase) ==
  LET Char(t) == 48 + (IF t >= 10 THEN t + letbase - 48 - 10 ELSE t)
      Rest[v \in Nat] == IF v = 0 THEN <<>> ELSE Append(Rest[v \div b], Char(v % b))
  IN  IF u = 0 THEN <<48>> ELSE Rest[u]

-----------------------------------------------------------------------------
(* print                                                                   *)

null == <<40, 110, 117, 108, 108, 41>>

\* The first position from n on with a character that is none of these.
FirstPast(n, these) == Min({k \in n .. Len(memory) : memory[k] \notin these})

\* The width that the digits say, taken in one after the other.
Decimal(digits) ==
  LET Upto[n \in 0 .. Len(digits)] == IF n = 0 THEN 0 ELSE 10 * Upto[n - 1] + digits[n] - 48
  IN  Upto[Len(digits)]

\* The number of values an argument can have: va_arg takes uint64_t with l, uint32_t without.
Limit(long) == IF long THEN LongLimit ELSE IntLimit

\* The string that a conversion makes of argument a.
Converted(conv, long, a) ==
  LET v == a.num % Limit(long)
  IN  CASE conv = Conversions.s -> IF a.str = <<NUL>> THEN null ELSE a.str
        [] conv = Conversions.c -> <<a.chr>>
        [] conv \in {Conversions.d, Conversions.u} -> printi(v, 10, 97)
        [] conv = Conversions.x -> printi(v, 16, 97)
        [] conv = Conversions.X -> printi(v, 16, 65)

Put(string) == out' = out \o string /\ pc' = pc + Len(string)

\* sprintf puts no NUL behind what it has written.
End ==
  /\ memory[format] = NUL
  /\ printing' = FALSE
  /\ UNCHANGED <<call, memory, format, arg, out, pc>>

OrdinaryChar ==
  /\ memory[format] \notin {NUL, Percent}
  /\ Put(<<memory[format]>>)
  /\ format' = format + 1
  /\ UNCHANGED <<call, memory, printing, arg>>

\* A plausible bug: nothing asks for the end behind the %.
PercentAtEndGoesOn ==
  /\ memory[format] = Percent
  /\ memory[format + 1] = NUL
  /\ format' = format + 2
  /\ UNCHANGED <<call, memory, printing, arg, out, pc>>

PercentAtEnd ==
  /\ memory[format] = Percent
  /\ memory[format + 1] = NUL
  /\ printing' = FALSE
  /\ format' = format + 1
  /\ UNCHANGED <<call, memory, arg, out, pc>>

PercentTwice ==
  /\ memory[format] = Percent
  /\ memory[format + 1] = Percent
  /\ Put(<<Percent>>)
  /\ format' = format + 2
  /\ UNCHANGED <<call, memory, printing, arg>>

\* A plausible bug: zeros are skipped wherever they stand.
DirectiveDropsZeros ==
  LET left == memory[format + 1] = Minus
      zeros == IF left THEN format + 2 ELSE format + 1
      digits == FirstPast(zeros, {48})
      size == FirstPast(digits, Digits)
      long == memory[size] = Long
      conv == IF long THEN size + 1 ELSE size
      width == Decimal(SelectSeq(SubSeq(memory, digits, size - 1), LAMBDA c : c # 48))
      takes == memory[conv] \in Range(Conversions)
  IN  /\ memory[format] = Percent
      /\ memory[format + 1] \notin {NUL, Percent}
      /\ IF takes
           THEN Put(prints(Converted(memory[conv], long, call.args[arg]), width, left,
                           digits > zeros))
           ELSE UNCHANGED <<out, pc>>
      /\ arg' = IF takes THEN arg + 1 ELSE arg
      /\ format' = conv + 1
      /\ UNCHANGED <<call, memory, printing>>

\* The -, the zeros, the width, the l and the conversion.  A character that is no conversion
\* puts out nothing, and nothing asks whether it is the NUL: the loop goes on behind it.
Directive ==
  LET left == memory[format + 1] = Minus
      zeros == IF left THEN format + 2 ELSE format + 1
      digits == FirstPast(zeros, {48})
      size == FirstPast(digits, Digits)
      long == memory[size] = Long
      conv == IF long THEN size + 1 ELSE size
      width == Decimal(SubSeq(memory, digits, size - 1))
      takes == memory[conv] \in Range(Conversions)
  IN  /\ memory[format] = Percent
      /\ memory[format + 1] \notin {NUL, Percent}
      /\ IF takes
           THEN Put(prints(Converted(memory[conv], long, call.args[arg]), width, left,
                           digits > zeros))
           ELSE UNCHANGED <<out, pc>>
      /\ arg' = IF takes THEN arg + 1 ELSE arg
      /\ format' = conv + 1
      /\ UNCHANGED <<call, memory, printing>>

print == printing /\ (End \/ OrdinaryChar \/ PercentAtEnd \/ PercentTwice \/ Directive)

-----------------------------------------------------------------------------
(* The program                                                             *)

\* How a piece is written.
Spelled(p) ==
  IF p.plain THEN IF p.char = Percent THEN <<Percent, Percent>> ELSE <<p.char>>
  ELSE <<Percent>> \o (IF p.left THEN <<Minus>> ELSE <<>>) \o (IF p.zero THEN <<48>> ELSE <<>>)
         \o (IF p.width = 0 THEN <<>> ELSE printi(p.width, 10, 97))
         \o (IF p.long THEN <<Long>> ELSE <<>>) \o <<p.conv>>

Format(c) == FlattenSeq([n \in DOMAIN c.pieces |-> Spelled(c.pieces[n])]) \o c.cut

NoCall == [pieces |-> <<>>, cut |-> <<>>, args |-> <<>>]

\* printf or sprintf has been called.
Printf(c) ==
  /\ call = c
  /\ memory = Format(c) \o <<NUL>> \o Behind
  /\ printing = TRUE
  /\ format = 1 /\ arg = 1
  /\ out = <<>> /\ pc = 0

ClibInit == \E c \in Calls : Printf(c)

\* The program goes on with something else.
Returned ==
  /\ ~ printing /\ call # NoCall
  /\ call' = NoCall
  /\ memory' = <<NUL>> \o Behind
  /\ printing' = FALSE
  /\ format' = 1 /\ arg' = 1
  /\ out' = <<>> /\ pc' = 0

-----------------------------------------------------------------------------
(* Properties                                                              *)

\* The numeral of v in base b.
Numeral(v, b, letters) ==
  LET Length[x \in Nat] == IF x < b THEN 1 ELSE Length[x \div b] + 1
      Power[k \in Nat] == IF k = 0 THEN 1 ELSE b * Power[k - 1]
      Digit(n) == (v \div Power[Length[v] - n]) % b
  IN  [n \in 1 .. Length[v] |-> IF Digit(n) < 10 THEN 48 + Digit(n) ELSE letters + Digit(n) - 10]

\* Does C take argument a of conversion p for a negative number?  Its sign bit is set.
Negative(p, a) == p.conv = Conversions.d /\ 2 * (a.num % Limit(p.long)) >= Limit(p.long)

\* What C says conversion p puts out for argument a, character by character: the text, before it
\* the sign of a negative number, and blanks or, unless there is a -, zeros.  What C leaves open,
\* a 0 with s or c and the null pointer, is what prints makes of it.
Meaning(p, a) ==
  LET v == a.num % Limit(p.long)
      sign == IF Negative(p, a) THEN 1 ELSE 0
      text == CASE p.conv = Conversions.s -> IF a.str = <<NUL>> THEN null ELSE a.str
                [] p.conv = Conversions.c -> <<a.chr>>
                [] p.conv = Conversions.x -> Numeral(v, 16, 97)
                [] p.conv = Conversions.X -> Numeral(v, 16, 65)
                [] OTHER -> Numeral(IF Negative(p, a) THEN Limit(p.long) - v ELSE v, 10, 97)
      zeros == p.zero /\ ~ p.left
      length == Max({sign + Len(text), p.width})
      first == IF p.left THEN sign + 1 ELSE length - Len(text) + 1
      minus == IF zeros THEN 1 ELSE first - 1
  IN  [n \in 1 .. length |-> IF n \in first .. first + Len(text) - 1 THEN text[n - first + 1]
                             ELSE IF sign = 1 /\ n = minus THEN Minus
                             ELSE IF zeros THEN 48 ELSE 32]

\* The argument of piece n.
ArgumentOf(c, n) == c.args[Cardinality({k \in 1 .. n : ~ c.pieces[k].plain})]

\* The calls that print is made for.  With 0 and - together it puts zeros behind the text, and
\* it shows a negative number, int or long, as a large positive one: the sign code is commented out.
AsInC(c) ==
  \A n \in DOMAIN c.pieces :
    LET p == c.pieces[n]
    IN  ~ p.plain => ~ (p.zero /\ p.left) /\ ~ Negative(p, ArgumentOf(c, n))

\* What print puts out is what C says the format means, piece by piece with the arguments in
\* order, whatever stands next to a piece, and its answer is the number of characters; for formats
\* without 0 and - together, and without %d or %ld for a negative number.
PrintsWhatIsMeant ==
  ~ printing /\ call.cut = <<>> /\ AsInC(call) =>
    /\ out = FlattenSeq([n \in DOMAIN call.pieces |->
                           IF call.pieces[n].plain THEN <<call.pieces[n].char>>
                           ELSE Meaning(call.pieces[n], ArgumentOf(call, n))])
    /\ pc = Len(out)

\* print does not look behind the end of the format, unless the format ends inside a
\* conversion, behind its -, 0, width or l.
StaysInFormat == Len(call.cut) < 2 => format <= Len(Format(call)) + 1
=============================================================================
