----------------------------- MODULE MCMemTest -----------------------------
(* Tables that end at, cross and begin above the first tested address, parts with a rest that  *)
(* is no word, chunks of one and of several words, a part too small, and one part too many.   *)
EXTENDS MemTest

Slots(s) == [n \in DOMAIN s |-> [startAddr |-> s[n][1], len |-> s[n][2], usable |-> s[n][3]]]

MCTables == {
  Slots(<< <<0, 3, 1>>, <<3, 1, 2>>, <<4, 14, 1>>, <<0, 0, 0>> >>),
  Slots(<< <<0, 10, 1>>, <<10, 2, 2>>, <<12, 9, 1>>, <<0, 0, 0>> >>),
  Slots(<< <<2, 2, 1>>, <<5, 9, 1>>, <<0, 0, 0>> >>),
  Slots(<< <<4, 2, 1>>, <<8, 4, 1>>, <<0, 0, 0>> >>),
  Slots(<< <<0, 4, 1>>, <<6, 4, 1>>, <<12, 4, 1>>, <<18, 2, 1>>, <<0, 0, 0>> >>) }
=============================================================================
