------------------------------ MODULE MCPrograms ------------------------------
(* A disk with files of one block and of two, side by side, an unused entry between them; and  *)
(* every format of one conversion, alone or before one of a few others, and formats cut short. *)
EXTENDS Programs

CONSTANTS w1, shell

Entry(name, start, reserved, size) ==
  [name |-> name, start |-> start, reserved |-> reserved, size |-> size]

MCDirectories == {
  (0 :> Entry("a", 3, 2, 5) @@ 1 :> Entry("", 0, 0, 0) @@ 2 :> Entry("b", 5, 1, 3)) }

MCPages == w1 :> {2, 3} @@ shell :> {}

Argument(num, chr, str) == [num |-> num, chr |-> chr, str |-> str]

MCArguments == {
  << Argument(9, 65, <<72, 105>>), Argument(300, 66, <<NUL>>) >>,
  << Argument(266, 67, <<NUL>>), Argument(0, 68, <<>>) >>,
  << Argument(43981, 69, <<>>), Argument(10, 70, <<79>>) >> }

Every == {Conversion(left, zero, width, long, Conversions[conv]) :
            left, zero, long \in BOOLEAN, width \in {0, 1, 4, 10}, conv \in DOMAIN Conversions}

Some == {Plain(66), Plain(Percent), Plain(48), Plain(Long),
         Conversion(FALSE, TRUE, 3, FALSE, Conversions.d), Conversion(FALSE, FALSE, 0, TRUE, Conversions.x),
         Conversion(TRUE, FALSE, 3, FALSE, Conversions.s)}

Call(pieces, cut, args) == [pieces |-> pieces, cut |-> cut, args |-> args]

MCCalls ==
  {Call(<<p>>, <<>>, args) : p \in Every \cup Some, args \in MCArguments}
  \cup {Call(<<p, q>>, <<>>, args) : p \in Every \cup Some, q \in Some, args \in MCArguments}
  \cup {Call(<<q>>, cut, args) : q \in Some, args \in MCArguments,
          cut \in {<<Percent>>, <<Percent, Minus>>, <<Percent, 48, 53>>, <<Percent, Long>>,
                   <<Percent, 49>>}}

MCBehind == <<67, 68, NUL>>
=============================================================================
