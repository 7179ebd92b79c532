-------------------------- MODULE VestingSchedule --------------------------
(* One stream seen by the vesting arithmetic alone: a clock, and a meter     *)
(* that adds flow_rate for every second of [start_time, end_time) as it      *)
(* passes.  The closed formulas of VestingMath have to agree with the meter  *)
(* however the clock jumps and whenever a withdrawal was last made.          *)
EXTENDS VestingMath

CONSTANTS Deposits, Durations, Cliffs, Starts
ASSUME ScheduleAssumption ==
    /\ Deposits \subseteq 1..I128_MAX
    /\ Durations \subseteq Nat \ {0}
    /\ Cliffs \subseteq Nat
    /\ Starts \subseteq Nat

VARIABLES
    deposit, start_time, cliff_time, end_time,  \* fixed when the stream is made
    clock,                                      \* ledger timestamp
    metered,                                    \* accrued second by second
    last_withdraw_time,                         \* time of the last withdrawal
    metered_then,                               \* the meter at that time
    total_withdrawn                             \* what the withdrawals took

terms == <<deposit, start_time, cliff_time, end_time>>
vars  == <<terms, clock, metered, last_withdraw_time, metered_then, total_withdrawn>>

flow_rate == compute_flow_rate(deposit, end_time - start_time)
claimable == compute_claimable(flow_rate, clock, cliff_time, end_time, last_withdraw_time)
earned    == compute_earned(flow_rate, clock, end_time, last_withdraw_time)
streamed  == compute_total_streamed(flow_rate, clock, end_time, start_time)
refund    == compute_refund(deposit, flow_rate, clock, end_time, start_time)

Init ==
    /\ deposit \in Deposits /\ start_time \in Starts
    /\ \E duration \in Durations, cliff_seconds \in Cliffs :
         /\ cliff_seconds < duration
         /\ end_time = start_time + duration
         /\ cliff_time = start_time + cliff_seconds
         /\ end_time <= U64_MAX
         /\ deposit \div duration > 0
    /\ clock = start_time /\ last_withdraw_time = start_time
    /\ metered = 0 /\ metered_then = 0 /\ total_withdrawn = 0

(* A second passes.                                                          *)
Tick ==
    /\ clock < U64_MAX
    /\ clock' = clock + 1
    /\ metered' = IF clock < end_time THEN metered + flow_rate ELSE metered
    /\ UNCHANGED <<terms, last_withdraw_time, metered_then, total_withdrawn>>

(* A withdrawal, before the cliff too: there it takes nothing and still      *)
(* moves last_withdraw_time, which forfeits what had been earned.            *)
Withdraw ==
    /\ claimable # None
    /\ claimable > 0 => total_withdrawn + claimable <= deposit
    /\ total_withdrawn' = total_withdrawn + claimable
    /\ last_withdraw_time' = effective_now(clock, end_time)
    /\ metered_then' = metered
    /\ UNCHANGED <<terms, clock, metered>>

Next == Tick \/ Withdraw

Spec == Init /\ [][Next]_vars
-----------------------------------------------------------------------------
(* What the schedule ranges over.                                            *)
TypeOK ==
    /\ deposit \in 1..I128_MAX
    /\ start_time \in Nat /\ cliff_time \in Nat /\ end_time \in U64
    /\ start_time <= cliff_time /\ cliff_time < end_time
    /\ clock \in U64 /\ start_time <= clock
    /\ last_withdraw_time \in start_time..end_time /\ last_withdraw_time <= clock
    /\ metered \in Nat /\ metered_then \in Nat /\ total_withdrawn \in 0..deposit

(* compute_total_streamed and compute_earned give what the meter counted,    *)
(* in all and since the last withdrawal: the formulas skip no second and     *)
(* count none twice, whenever withdrawals were made, before the cliff too.   *)
FormulasAgreeWithMeter ==
    /\ streamed = metered
    /\ earned = metered - metered_then
    /\ claimable = IF clock < cliff_time THEN 0 ELSE metered - metered_then

(* Kani invariants 4 to 6: what was streamed and what a cancellation gives   *)
(* back are the deposit, and neither is negative or overflows.               *)
RefundConserves ==
    /\ streamed \in 0..deposit
    /\ refund \in 0..deposit
    /\ streamed + refund = deposit

(* Kani invariants 1 and 1b: no sequence of withdrawals, before the cliff or *)
(* behind it, takes more than the deposit: the claim of the moment is within *)
(* what is left of it, so that withdraw never refuses it as an overflow.     *)
ClaimWithinDeposit == claimable \in 0..(deposit - total_withdrawn)

(* Kani invariant 2: without a withdrawal the claimable amount never falls.  *)
ClaimableMonotone == [][Tick => claimable' >= claimable]_vars
=============================================================================
