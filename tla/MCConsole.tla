----------------------------- MODULE MCConsole -----------------------------
(* A keyboard with the key of 5 and %, Enter, Backspace and two keys past the end of the    *)
(* tables: F1 finds a 0 in the upper one and in palette, F7 the percent sign of the upper    *)
(* one and, with shift, the byte 0x0F of palette.                                           *)
EXTENDS Console

MCLayout ==
  [five |-> <<"5", "%">>, enter |-> <<Enter, Enter>>, back |-> <<Backspace, Backspace>>,
   f1 |-> <<NoKey, NoKey>>, f7 |-> <<"%", "x0F">>]
=============================================================================
