------------------------------- MODULE Programs -------------------------------
(***************************************************************************)
(* What programs do with the system between start and return: they print   *)
(* (Clib), and the command line loads them and they use files (Bmfs).  The *)
(* two share no state, so a behaviour prints first and then uses files.    *)
(***************************************************************************)
EXTENDS Bmfs, Clib

ProgramsInit == BmfsInit /\ ClibInit

PrintsNext == (print \/ Returned) /\ UNCHANGED bmfsVars

FilesNext == call = NoCall /\ BmfsNext /\ UNCHANGED clibVars

ProgramsNext == PrintsNext \/ FilesNext

ProgramsSpec == ProgramsInit /\ [][ProgramsNext]_<<bmfsVars, clibVars>>
=============================================================================
