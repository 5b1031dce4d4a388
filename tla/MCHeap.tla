------------------------------- MODULE MCHeap -------------------------------
(* Every table ends, as 0x4000 does, in its terminator and the records of the loader's         *)
(* infomap, the last of which is marked 0.  What is left above 512 is:                         *)
EXTENDS Mm

Ended(slots) == slots \o << <<0, 0, 0>>, <<0, 0, 0>>, <<4096, 5, 70000>>, <<90, 2, 3>>, <<4200, 0, 0>> >>

\* ... for programs: four least blocks and a half, and two.
ForPrograms == Ended(<< <<0, 200, 1>>, <<200, 56, 2>>, <<256, 904, 1>>, <<1160, 40, 3>>,
                        <<2048, 288, 1>> >>)

\* ... for the test: enough in one slot, enough in two with a first that takes only the small
\* block, too little for what comes last, and too little for the first blocks.
MCForTest == {
  Ended(<< <<0, 200, 1>>, <<304, 2200, 1>> >>),
  Ended(<< <<504, 312, 1>>, <<1024, 2000, 1>> >>),
  Ended(<< <<304, 1064, 1>> >>),
  Ended(<< <<304, 704, 1>> >>) }

\* ... and a slot that is all the kernel's, a second one too small, and one slot too many.
MCTables == {ForPrograms} \cup MCForTest \cup {
  Ended(<< <<256, 200, 1>>, <<1024, 648, 1>> >>),
  Ended(<< <<1024, 648, 1>>, <<2048, 136, 1>> >>),
  Ended(<< <<1024, 160, 1>>, <<1184, 8, 2>>, <<1192, 160, 1>>, <<2048, 288, 1>> >>) }
=============================================================================
