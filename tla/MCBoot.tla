------------------------------ MODULE MCBoot ------------------------------
EXTENDS Boot

(* Four cluster chains for a kernel of five sectors: fragmented, one that   *)
(* ends early, one that loops, and one in order.                            *)
MCNexts == {
  [c \in 2..7 |-> CASE c = 3 -> 6 [] c = 6 -> 5 [] OTHER -> Eoc],
  [c \in 2..7 |-> CASE c = 3 -> 6 [] OTHER -> Eoc],
  [c \in 2..7 |-> CASE c = 3 -> 6 [] c = 6 -> 3 [] OTHER -> Eoc],
  [c \in 2..7 |-> IF c = 7 THEN Eoc ELSE c + 1]}

MCDirs == {
  <<"kernel", "end">>,
  <<"other", "gone", "other", "kernel", "end">>,
  <<"other", "end", "kernel">>,
  <<"other", "other", "gone", "other", "kernel">>}

(* The floppy make_fat12_image.py lays out, and the hard disk the installer *)
(* does: its partition is the second entry's when that one is active; in the   *)
(* last table no entry is.                                                  *)
MCFloppies == {
  [hdd |-> FALSE, fat32 |-> FALSE, hidden |-> 0, reserved |-> 4, stage2 |-> 3,
   fats |-> 2, fatSecs |-> 2, total |-> 32, rootEnts |-> 5, spc |-> k, root |-> 0,
   first |-> 3, size |-> 9, next |-> n, dir |-> d, table |-> <<>>] :
  k \in {1, 2}, n \in MCNexts, d \in MCDirs}

MCTables == {
  <<[active |-> TRUE, lba |-> 5], [active |-> FALSE, lba |-> 0]>>,
  <<[active |-> FALSE, lba |-> 9], [active |-> TRUE, lba |-> 5],
    [active |-> FALSE, lba |-> 30]>>,
  <<[active |-> FALSE, lba |-> 5], [active |-> FALSE, lba |-> 0]>>}

MCHardDisks == {
  [hdd |-> TRUE, fat32 |-> TRUE, hidden |-> 5, reserved |-> 6, stage2 |-> 3,
   fats |-> 2, fatSecs |-> 2, total |-> 22, rootEnts |-> 0, spc |-> 2, root |-> 2,
   first |-> 3, size |-> 9, next |-> n, dir |-> d, table |-> t] :
  n \in MCNexts, d \in MCDirs, t \in MCTables}

MCDisks == MCFloppies \cup MCHardDisks
=============================================================================
