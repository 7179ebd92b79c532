---------------------------- MODULE VestingMath ----------------------------
(* The pure vesting arithmetic of contracts/stream/src/vesting_math.rs.      *)
EXTENDS HostTypes

(* Mutant: the flow goes on after the end.                                   *)
uncapped_now(now, end_time) == now
effective_now(now, end_time) == IF now < end_time THEN now ELSE end_time

(* Tokens earned since the last withdrawal, whatever the cliff.              *)
compute_earned(flow_rate, now, end_time, last_withdraw_time) ==
    Checked(flow_rate
            * saturating_sub(effective_now(now, end_time), last_withdraw_time))

(* Mutants: no cliff; nothing to claim once the stream has ended.            *)
claimable_without_cliff(flow_rate, now, cliff_time, end_time, last_withdraw_time) ==
    compute_earned(flow_rate, now, end_time, last_withdraw_time)
claimable_until_end(flow_rate, now, cliff_time, end_time, last_withdraw_time) ==
    IF now < cliff_time \/ now > end_time
    THEN 0
    ELSE compute_earned(flow_rate, now, end_time, last_withdraw_time)

(* The same behind the cliff: what a withdrawal may take.                    *)
compute_claimable(flow_rate, now, cliff_time, end_time, last_withdraw_time) ==
    IF now < cliff_time
    THEN 0
    ELSE compute_earned(flow_rate, now, end_time, last_withdraw_time)

compute_total_streamed(flow_rate, now, end_time, start_time) ==
    Checked(flow_rate
            * saturating_sub(effective_now(now, end_time), start_time))

compute_refund(deposit, flow_rate, now, end_time, start_time) ==
    LET total_streamed == compute_total_streamed(flow_rate, now, end_time, start_time)
    IN  IF total_streamed = None THEN None ELSE Saturated(deposit - total_streamed)

(* Mutant: the rate rounds up.                                               *)
ceiling_flow_rate(deposit, duration_seconds) ==
    (deposit + duration_seconds - 1) \div duration_seconds

(* Integer division rounds down; deposit and duration are positive here.     *)
compute_flow_rate(deposit, duration_seconds) == deposit \div duration_seconds
=============================================================================
