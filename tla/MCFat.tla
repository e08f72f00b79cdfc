-------------------------------- MODULE MCFat --------------------------------
(***************************************************************************)
(* An instance of Fat for TLC: a volume with six clusters.                *)
(***************************************************************************)
EXTENDS Fat

\* A long name that begins like a short one.
CutToA == [long |-> "a"]

\* A formatted volume; one with a directory a whose sector is full, with a
\* file b of one block in it; and one with a directory in a directory.
SmallVolumes ==
    LET text == [v |-> "v", len |-> 1]
    IN  { Formatted,
          [fat |-> [Formatted.fat EXCEPT ![3] = Eoc, ![4] = Eoc],
           disk |-> [Formatted.disk EXCEPT
                        ![2][1] = Slot("a", "dir", 3, 0),
                        ![3] = [DirSector(3, Root) EXCEPT ![3] = Slot("b", "file", 4, 1)],
                        ![4] = TextSector("v", 1, TRUE)],
           saved |-> [Formatted.saved EXCEPT ![<<3, 3>>] = text]],
          [fat |-> [Formatted.fat EXCEPT ![3] = Eoc, ![4] = Eoc, ![5] = Eoc],
           disk |-> [Formatted.disk EXCEPT
                        ![2][1] = Slot("a", "dir", 3, 0),
                        ![2][2] = Slot("b", "file", 5, 1),
                        ![3] = [DirSector(3, Root) EXCEPT ![3] = Slot("b", "dir", 4, 0)],
                        ![4] = DirSector(4, 3),
                        ![5] = TextSector("v", 1, TRUE)],
           saved |-> [Formatted.saved EXCEPT ![<<2, 2>>] = text]] }
=============================================================================
