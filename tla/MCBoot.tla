-------------------------------- MODULE MCBoot --------------------------------
(* Values for TLC. A unit is a quarter megabyte. *)
EXTENDS Boot

Hole(base, length) == [base |-> base, length |-> length, free |-> FALSE]

\* A PC with a hole below 1 MB and one above; its RAM ends with 4 GB (Word);
\* RAM above 4 GB only, with lower words that look like the target; a lower
\* area smaller than E801 guesses; RAM up to the target and no further.
MCMachines ==
    { <<Free(0, 3), Hole(3, 1), Free(4, 8), Hole(12, 4)>>,
      <<Free(0, 3), Hole(3, 1), Free(4, 12)>>,
      <<Free(0, 3), Hole(3, 1), Free(16, 8)>>,
      <<Free(0, 2), Hole(2, 2), Free(4, 4)>>,
      <<Free(0, 4)>> }

\* Sectors that add up to 0, as the build leaves them: one; two; as many as the counter
\* holds and one more; two more, which is as many as UEFI refuses.
MCImages == [sums : {<<0>>, <<1, 2>>, <<1, 1, 0, 2, 2>>, <<1, 2, 2, 0, 2, 2>>}, magic : BOOLEAN]
=============================================================================
