----------------------------- MODULE MCVesting -----------------------------
(* VestingSchedule over every small deposit, duration and cliff.             *)
EXTENDS VestingSchedule

SmallDeposits  == 1..14
SmallDurations == 1..4
SmallCliffs    == 0..3
SmallStarts    == 0..1
=============================================================================
