----------------------------- MODULE HostTypes -----------------------------
(* The machine integers of the Soroban host as the contracts use them: i128  *)
(* token amounts, u64 ledger times, checked_*, saturating_* and Option.      *)
(* Amounts and times are kept as mathematical integers; an operation that    *)
(* would leave its width is cut off or answers None where the code does so.  *)
EXTENDS Integers

CONSTANTS
    I128_MAX,       \* i128::MAX
    U64_MAX,        \* u64::MAX
    None            \* Option::None

(* A time difference converts to i128 without loss (`elapsed as i128`).      *)
ASSUME WidthAssumption == I128_MAX \in Nat /\ U64_MAX \in Nat \ {0} /\ U64_MAX <= I128_MAX
ASSUME NoneAssumption  == None \notin Int

I128 == (-I128_MAX - 1)..I128_MAX
U64  == 0..U64_MAX

(* i128 checked_add and checked_mul: None when the result leaves i128.       *)
Checked(x) == IF x \in I128 THEN x ELSE None

(* i128 saturating_add, saturating_sub and saturating_mul.                   *)
Saturated(x) ==
    IF x > I128_MAX THEN I128_MAX
    ELSE IF x < -I128_MAX - 1 THEN -I128_MAX - 1
    ELSE x

(* u64 saturating_sub, and saturating_add or checked_add().unwrap_or(MAX).   *)
saturating_sub(a, b) == IF a >= b THEN a - b ELSE 0
(* Mutants: the addition does not stop at u64::MAX, or does not happen.      *)
unchecked_add(a, b) == a + b
forgotten_add(a, b) == a
saturating_add(a, b) == IF a + b <= U64_MAX THEN a + b ELSE U64_MAX
=============================================================================
