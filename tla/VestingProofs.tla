--------------------------- MODULE VestingProofs ---------------------------
(* The vesting arithmetic for every deposit, schedule and clock: proofs of   *)
(* what VestingSchedule states.  The argument is one invariant: the meter    *)
(* holds flow_rate times the seconds of the schedule that have passed.       *)
EXTENDS VestingSchedule, TLAPS

(* The inductive invariant: the meter in closed form, now and at the last    *)
(* withdrawal, and what was taken by then, which is less when a withdrawal   *)
(* before the cliff forfeited some.                                          *)
MeterInv ==
    /\ metered = flow_rate * (effective_now(clock, end_time) - start_time)
    /\ metered_then = flow_rate * (last_withdraw_time - start_time)
    /\ total_withdrawn <= metered_then
IInv == TypeOK /\ MeterInv

(* Integer division rounds down.                                             *)
LEMMA Division ==
    ASSUME NEW a \in Nat, NEW d \in Nat \ {0}
    PROVE  a \div d \in Nat /\ (a \div d) * d <= a
  BY SMT

(* What flows in fewer seconds is less.                                      *)
LEMMA Products ==
    ASSUME NEW f \in Nat, NEW x \in Nat, NEW y \in Nat, x <= y
    PROVE  f * x \in Nat /\ f * y \in Nat /\ f * x <= f * y
  BY SMT

(* What flows between two times is the difference of what flowed until then. *)
LEMMA Distributes ==
    ASSUME NEW f \in Nat, NEW x \in Int, NEW y \in Int, NEW z \in Int
    PROVE  f * (x - y) = f * (x - z) - f * (y - z)
  BY SMT

(* compute_flow_rate: however late the flow is read, it is within the        *)
(* deposit (Kani invariants 1 and 3).                                        *)
LEMMA FlowFitsDeposit ==
    ASSUME TypeOK, NEW t \in Int, start_time <= t, t <= end_time
    PROVE  /\ flow_rate \in Nat
           /\ flow_rate * (t - start_time) \in 0..deposit
  <1>1. /\ deposit \in Nat /\ start_time \in Nat /\ end_time \in Nat
        /\ end_time - start_time \in Nat \ {0}
    BY WidthAssumption DEF TypeOK, U64
  <1>2. /\ flow_rate \in Nat
        /\ flow_rate * (end_time - start_time) <= deposit
    BY <1>1, Division DEF flow_rate, compute_flow_rate
  <1>3. /\ flow_rate * (t - start_time) \in Nat
        /\ flow_rate * (t - start_time) <= flow_rate * (end_time - start_time)
        /\ flow_rate * (end_time - start_time) \in Nat
    <2>1. t - start_time \in Nat /\ end_time - start_time \in Nat
          /\ t - start_time <= end_time - start_time
      BY <1>1
    <2> QED
      BY <2>1, <1>2, Products
  <1> QED
    BY <1>1, <1>2, <1>3

(* effective_now stays within the schedule.                                  *)
LEMMA EffectiveNow ==
    ASSUME TypeOK
    PROVE  /\ effective_now(clock, end_time) \in start_time..end_time
           /\ last_withdraw_time <= effective_now(clock, end_time)
           /\ start_time \in Int /\ end_time \in Int /\ last_withdraw_time \in Int
  BY WidthAssumption DEF TypeOK, effective_now, U64

(* The three formulas give what the meter counted, for any schedule, at any  *)
(* time and after any withdrawals.                                           *)
LEMMA FormulasFromMeter == IInv => FormulasAgreeWithMeter
  <1> SUFFICES ASSUME IInv PROVE FormulasAgreeWithMeter
    OBVIOUS
  <1> DEFINE eff == effective_now(clock, end_time)
  <1> USE DEF IInv
  <1>1. /\ eff \in start_time..end_time /\ last_withdraw_time <= eff
        /\ start_time \in Int /\ end_time \in Int /\ last_withdraw_time \in Int
        /\ start_time <= last_withdraw_time
    BY EffectiveNow DEF TypeOK
  <1>2. /\ flow_rate \in Nat
        /\ metered \in 0..deposit /\ metered_then \in 0..deposit
        /\ metered = flow_rate * (eff - start_time)
        /\ metered_then = flow_rate * (last_withdraw_time - start_time)
    BY <1>1, FlowFitsDeposit DEF MeterInv, TypeOK
  <1>3. flow_rate * (eff - last_withdraw_time) = metered - metered_then
    BY <1>1, <1>2, Distributes
  <1>4. metered_then <= metered
    BY <1>1, <1>2, <1>3, Products
  <1>5. /\ saturating_sub(eff, start_time) = eff - start_time
        /\ saturating_sub(eff, last_withdraw_time) = eff - last_withdraw_time
    BY <1>1 DEF saturating_sub
  <1>6. metered \in I128 /\ metered - metered_then \in I128
    BY <1>2, <1>4, WidthAssumption DEF TypeOK, I128
  <1>7. streamed = metered
    BY <1>2, <1>5, <1>6 DEF streamed, compute_total_streamed, Checked
  <1>8. earned = metered - metered_then
    BY <1>3, <1>5, <1>6 DEF earned, compute_earned, Checked
  <1>9. claimable = IF clock < cliff_time THEN 0 ELSE metered - metered_then
    BY <1>8 DEF claimable, earned, compute_claimable
  <1> QED
    BY <1>7, <1>8, <1>9 DEF FormulasAgreeWithMeter

(* What the meter holds is within the deposit, and grows.                    *)
LEMMA MeterWithinDeposit ==
    ASSUME IInv
    PROVE  /\ metered \in 0..deposit /\ metered_then \in 0..metered
           /\ deposit \in 1..I128_MAX /\ deposit \in Nat
  <1> USE DEF IInv
  <1> DEFINE eff == effective_now(clock, end_time)
  <1>1. /\ eff \in start_time..end_time /\ last_withdraw_time <= eff
        /\ start_time \in Int /\ end_time \in Int /\ last_withdraw_time \in Int
        /\ start_time <= last_withdraw_time
    BY EffectiveNow DEF TypeOK
  <1>2. /\ flow_rate \in Nat
        /\ metered \in 0..deposit
        /\ metered = flow_rate * (eff - start_time)
        /\ metered_then = flow_rate * (last_withdraw_time - start_time)
    <2>1. /\ flow_rate \in Nat
          /\ flow_rate * (eff - start_time) \in 0..deposit
      BY <1>1, FlowFitsDeposit
    <2> QED
      BY <2>1 DEF MeterInv
  <1>3. metered_then \in Nat /\ metered_then <= metered
    <2>1. /\ last_withdraw_time - start_time \in Nat /\ eff - start_time \in Nat
          /\ last_withdraw_time - start_time <= eff - start_time
      BY <1>1
    <2> QED
      BY <1>2, <2>1, Products
  <1> QED
    BY <1>2, <1>3, WidthAssumption DEF TypeOK

-----------------------------------------------------------------------------
LEMMA InitIInv == Init => IInv
  <1> SUFFICES ASSUME Init PROVE IInv
    OBVIOUS
  <1>1. PICK duration \in Durations, cliff_seconds \in Cliffs :
          /\ cliff_seconds < duration
          /\ end_time = start_time + duration
          /\ cliff_time = start_time + cliff_seconds
          /\ end_time <= U64_MAX
    BY DEF Init
  <1>2. TypeOK
    BY <1>1, ScheduleAssumption, WidthAssumption DEF Init, TypeOK, U64
  <1>3. flow_rate \in Nat
    BY <1>2, FlowFitsDeposit DEF TypeOK
  <1>4. effective_now(clock, end_time) = start_time
    BY <1>2 DEF Init, TypeOK, effective_now, U64
  <1> QED
    BY <1>2, <1>3, <1>4 DEF Init, IInv, MeterInv, TypeOK

LEMMA NextIInv == IInv /\ [Next]_vars => IInv'
  <1> SUFFICES ASSUME IInv, [Next]_vars PROVE IInv'
    OBVIOUS
  <1> USE DEF IInv
  <1>1. /\ flow_rate \in Nat
        /\ effective_now(clock, end_time) \in start_time..end_time
        /\ flow_rate * (effective_now(clock, end_time) - start_time) \in Nat
    BY EffectiveNow, FlowFitsDeposit DEF TypeOK
  <1>2. CASE Tick
    <2>1. terms' = terms /\ flow_rate' = flow_rate
      BY <1>2 DEF Tick, terms, flow_rate
    <2>2. metered' = flow_rate * (effective_now(clock', end_time) - start_time)
      <3>1. CASE clock < end_time
        <4>1. /\ effective_now(clock, end_time) = clock
              /\ effective_now(clock', end_time) = clock + 1
          BY <1>2, <3>1 DEF Tick, TypeOK, effective_now, U64
        <4>2. flow_rate * (clock - start_time) + flow_rate
                = flow_rate * ((clock + 1) - start_time)
          BY <1>1 DEF TypeOK, U64
        <4> QED
          BY <1>2, <3>1, <4>1, <4>2 DEF Tick, MeterInv
      <3>2. CASE ~(clock < end_time)
        <4>1. effective_now(clock', end_time) = effective_now(clock, end_time)
          BY <1>2, <3>2 DEF Tick, TypeOK, effective_now, U64
        <4> QED
          BY <1>2, <3>2, <4>1 DEF Tick, MeterInv
      <3> QED
        BY <3>1, <3>2
    <2>3. metered' \in Nat
      BY <1>1, <1>2 DEF Tick, TypeOK
    <2>4. TypeOK'
      BY <1>2, <2>1, <2>3, WidthAssumption DEF Tick, TypeOK, terms, U64
    <2> QED
      BY <1>2, <2>1, <2>2, <2>4 DEF Tick, MeterInv, terms
  <1>3. CASE Withdraw
    <2>1. terms' = terms /\ flow_rate' = flow_rate
      BY <1>3 DEF Withdraw, terms, flow_rate
    <2>2. claimable \in 0..(metered - metered_then)
      BY FormulasFromMeter, MeterWithinDeposit DEF FormulasAgreeWithMeter
    <2>3. /\ total_withdrawn' \in 0..metered /\ metered_then' = metered
          /\ metered \in 0..deposit
      BY <1>3, <2>2, MeterWithinDeposit DEF Withdraw, MeterInv, TypeOK
    <2>4. TypeOK'
      BY <1>1, <1>3, <2>1, <2>3, EffectiveNow, MeterWithinDeposit
         DEF Withdraw, TypeOK, terms, U64, effective_now
    <2> QED
      BY <1>3, <2>1, <2>3, <2>4 DEF Withdraw, MeterInv, terms
  <1>4. CASE UNCHANGED vars
    BY <1>4 DEF vars, terms, TypeOK, MeterInv, flow_rate
  <1> QED
    BY <1>2, <1>3, <1>4 DEF Next

THEOREM SpecIInv == Spec => []IInv
  BY InitIInv, NextIInv, PTL DEF Spec

(* Type correctness of the schedule.                                         *)
THEOREM SpecTypeOK == Spec => []TypeOK
  <1>1. IInv => TypeOK
    BY DEF IInv
  <1> QED
    BY <1>1, SpecIInv, PTL

-----------------------------------------------------------------------------
(* The vesting formulas skip no second and count none twice, for every       *)
(* deposit and schedule, at any time and after withdrawals at any times.     *)
THEOREM FormulasCorrect == Spec => []FormulasAgreeWithMeter
  BY SpecIInv, FormulasFromMeter, PTL

(* A cancellation gives back what was not streamed: the two parts are the    *)
(* deposit, to the stroop.                                                   *)
THEOREM CancellationConserves == Spec => []RefundConserves
  <1>1. IInv => RefundConserves
    <2> SUFFICES ASSUME IInv PROVE RefundConserves
      OBVIOUS
    <2>1. streamed = metered /\ metered \in 0..deposit /\ deposit \in 1..I128_MAX
      BY FormulasFromMeter, MeterWithinDeposit DEF FormulasAgreeWithMeter
    <2>2. streamed # None
      BY <2>1, NoneAssumption
    <2>3. refund = Saturated(deposit - streamed)
      BY <2>2 DEF refund, streamed, compute_refund
    <2>4. refund = deposit - streamed
      BY <2>1, <2>3, WidthAssumption DEF Saturated
    <2> QED
      BY <2>1, <2>4 DEF RefundConserves
  <1> QED
    BY <1>1, SpecIInv, PTL

(* No sequence of withdrawals, whether before the cliff or behind it, takes  *)
(* more than the deposit.                                                    *)
THEOREM ClaimsFitDeposit == Spec => []ClaimWithinDeposit
  <1>1. IInv => ClaimWithinDeposit
    <2> SUFFICES ASSUME IInv PROVE ClaimWithinDeposit
      OBVIOUS
    <2>1. claimable \in 0..(metered - metered_then)
      BY FormulasFromMeter, MeterWithinDeposit DEF FormulasAgreeWithMeter
    <2>2. /\ total_withdrawn \in Nat /\ total_withdrawn <= metered_then
          /\ metered_then \in Nat /\ metered \in 0..deposit /\ deposit \in Nat
      BY MeterWithinDeposit DEF IInv, MeterInv, TypeOK
    <2> QED
      BY <2>1, <2>2 DEF ClaimWithinDeposit
  <1> QED
    BY <1>1, SpecIInv, PTL

(* Without a withdrawal the claimable amount never falls.                    *)
THEOREM ClaimableGrows == Spec => ClaimableMonotone
  <1>1. /\ IInv /\ FormulasAgreeWithMeter /\ FormulasAgreeWithMeter'
        => [Tick => claimable' >= claimable]_vars
    <2> SUFFICES ASSUME IInv, FormulasAgreeWithMeter, FormulasAgreeWithMeter', Tick
                 PROVE claimable' >= claimable
      OBVIOUS
    <2>1. /\ claimable = IF clock < cliff_time THEN 0 ELSE metered - metered_then
          /\ claimable' = IF clock' < cliff_time' THEN 0 ELSE metered' - metered_then'
      BY DEF FormulasAgreeWithMeter
    <2>2. /\ clock' = clock + 1 /\ cliff_time' = cliff_time
          /\ metered_then' = metered_then
          /\ metered' = metered \/ metered' = metered + flow_rate
      BY DEF Tick, terms
    <2>3. /\ flow_rate \in Nat /\ metered \in Nat /\ metered_then \in 0..metered
          /\ clock \in Nat /\ cliff_time \in Nat
      BY MeterWithinDeposit, FlowFitsDeposit, EffectiveNow DEF IInv, TypeOK, U64
    <2> QED
      BY <2>1, <2>2, <2>3
  <1> QED
    BY <1>1, SpecIInv, FormulasCorrect, PTL DEF ClaimableMonotone
=============================================================================
