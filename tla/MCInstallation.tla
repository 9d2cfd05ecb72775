--------------------------- MODULE MCInstallation ---------------------------
(* The programs, the rest of the package and the profile are on three      *)
(* devices: of the files of the package the first is copied, the rest is   *)
(* moved; an install copies those of the profile, a seeding moves them.    *)
EXTENDS Installation, TLC
CONSTANTS c1, c2, c3, v1, v2, Bin
MCDevice == [package |-> Bin, record |-> Share, workflow |-> Home, settings |-> Home,
             owned |-> Share]
Alike == Permutations(Commands) \cup Permutations(Versions)
=============================================================================
