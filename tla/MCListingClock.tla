---------------------------- MODULE MCListingClock ----------------------------
(* An instance of ListingClock for TLC: starts around New Year's Days and    *)
(* around 29 February in a leap year, in a year after one and in a century.  *)
EXTENDS ListingClock, TLC

MCStarts == {DayOf(2000, 1, 29), DayOf(2023, 11, 31), DayOf(2024, 0, 1),
             DayOf(2024, 1, 28), DayOf(2024, 11, 31), DayOf(2025, 1, 10),
             DayOf(2100, 1, 28)}
Symmetry == Permutations(Calls)
MCAges == {-14, 0, 45, 348}
MCPauses == {366, 426}
=============================================================================
