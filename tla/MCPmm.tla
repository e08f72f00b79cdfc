-------------------------------- MODULE MCPmm --------------------------------
(***************************************************************************)
(* Instances of Pmm for TLC: pages of 4 bytes, a dozen pages of memory.    *)
(***************************************************************************)
EXTENDS Pmm

Ram(base, stop) == [base |-> base, length |-> stop - base, free |-> TRUE]
Rom(base, stop) == [base |-> base, length |-> stop - base, free |-> FALSE]

\* Two usable areas around a hole, with ends that are page-aligned, that are
\* not, in the other order, with a usable area that holds no whole page, and
\* with usable areas that overlap.
SmallMaps ==
    { <<Ram(0, 22), Rom(22, 26), Ram(26, 52)>>,
      <<Ram(0, 23), Rom(23, 25), Ram(25, 53), Rom(56, 57)>>,
      <<Ram(24, 50), Ram(0, 24)>>,
      <<Ram(0, 18), Ram(21, 23), Ram(24, 56)>>,
      <<Ram(0, 24), Ram(20, 52)>>,
      <<Ram(0, 34)>> }

=============================================================================
