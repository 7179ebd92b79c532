-------------------------------- MODULE Fees --------------------------------
(* The protocol fee on withdrawals and the flat creation fee of              *)
(* contracts/stream/src/lib.rs, with the seven-day timelock on fee changes.  *)
EXTENDS ContractAdmin

CONSTANTS
    FEE_TIMELOCK,       \* 7 days in the code
    FeeChoices,         \* fees set directly, in basis points
    ProposedFees,       \* fees proposed by the admin
    Treasuries, ExemptChoices, CreationFees, XlmTokens
ASSUME FeeAssumption ==
    /\ FEE_TIMELOCK \in Nat
    /\ FeeChoices \cup ProposedFees \subseteq Nat
    /\ Treasuries \subseteq Users /\ ExemptChoices \subseteq Users
    /\ CreationFees \subseteq Nat /\ XlmTokens \subseteq Tokens

BASIS_POINTS == 10000   \* one hundred percent

VARIABLES
    fee_bps, treasury, fee_exempt,
    pending_fee,                    \* None, or the fee and its unlock time
    creation_fee, xlm_token

feeVars == <<fee_bps, treasury, fee_exempt, pending_fee, creation_fee, xlm_token>>

FeesInit ==
    /\ fee_bps = 0 /\ treasury = None /\ fee_exempt = {} /\ pending_fee = None
    /\ creation_fee = 0 /\ xlm_token = None

(* Mutant: the exemption list is not read.                                   *)
FeeIgnoringExemption(claimable, payee) ==
    IF claimable > 0 /\ fee_bps > 0
    THEN IF Checked(claimable * fee_bps) = None
         THEN None
         ELSE (claimable * fee_bps) \div BASIS_POINTS
    ELSE 0

(* The fee on a claim: rounded down, None when the product overflows.        *)
ProtocolFee(claimable, payee) ==
    IF claimable > 0 /\ fee_bps > 0 /\ payee \notin fee_exempt
    THEN IF Checked(claimable * fee_bps) = None
         THEN None
         ELSE (claimable * fee_bps) \div BASIS_POINTS
    ELSE 0

(* Mutant: the fee is paid on top of the claim.                              *)
PayClaimAndFee(b, token, payee, claimable, fee) ==
    LET served == PayOut(b, token, payee, claimable)
    IN  IF treasury = None THEN served ELSE PayOut(served, token, treasury, fee)

(* Pays a claim out of the contract: the payee's part, and the fee when      *)
(* there is a treasury to take it.                                           *)
PayClaim(b, token, payee, claimable, fee) ==
    LET served == PayOut(b, token, payee, claimable - fee)
    IN  IF treasury = None THEN served ELSE PayOut(served, token, treasury, fee)

(* The creation fee goes from the sender to the treasury, if it is on.       *)
PayCreationFee(b, sender) ==
    IF creation_fee > 0 THEN Move(b, xlm_token, sender, treasury, creation_fee) ELSE b
CanPayCreationFee(b, sender) ==
    creation_fee > 0 => /\ treasury # None /\ xlm_token # None
                        /\ CanPay(b, xlm_token, sender, creation_fee)

(* Neither this nor set_treasury_address asks who calls.                     *)
set_protocol_fee(bps) ==
    /\ bps <= BASIS_POINTS
    /\ fee_bps' = bps
    /\ UNCHANGED <<treasury, fee_exempt, pending_fee, creation_fee, xlm_token>>

set_treasury_address(new_treasury) ==
    /\ treasury' = new_treasury
    /\ UNCHANGED <<fee_bps, fee_exempt, pending_fee, creation_fee, xlm_token>>

propose_fee_change(new_fee_bps) ==
    /\ check_admin
    /\ new_fee_bps <= BASIS_POINTS
    /\ pending_fee' = [new_fee_bps |-> new_fee_bps,
                       unlock_time |-> saturating_add(now, FEE_TIMELOCK)]
    /\ UNCHANGED <<fee_bps, treasury, fee_exempt, creation_fee, xlm_token>>

execute_fee_change ==
    /\ pending_fee # None
    /\ now >= pending_fee.unlock_time
    /\ fee_bps' = pending_fee.new_fee_bps
    /\ pending_fee' = None
    /\ UNCHANGED <<treasury, fee_exempt, creation_fee, xlm_token>>

add_fee_exempt(addr) ==
    /\ check_admin
    /\ fee_exempt' = fee_exempt \cup {addr}
    /\ UNCHANGED <<fee_bps, treasury, pending_fee, creation_fee, xlm_token>>

remove_fee_exempt(addr) ==
    /\ check_admin
    /\ fee_exempt' = fee_exempt \ {addr}
    /\ UNCHANGED <<fee_bps, treasury, pending_fee, creation_fee, xlm_token>>

set_creation_fee(fee, token) ==
    /\ check_admin
    /\ fee >= 0
    /\ creation_fee' = fee /\ xlm_token' = token
    /\ UNCHANGED <<fee_bps, treasury, fee_exempt, pending_fee>>

FeesNext ==
    \/ \E bps \in FeeChoices : set_protocol_fee(bps)
    \/ \E t \in Treasuries : set_treasury_address(t)
    \/ \E bps \in ProposedFees : propose_fee_change(bps)
    \/ execute_fee_change
    \/ \E a \in ExemptChoices : add_fee_exempt(a) \/ remove_fee_exempt(a)
    \/ \E fee \in CreationFees, t \in XlmTokens : set_creation_fee(fee, t)

FeesTypeOK ==
    /\ fee_bps \in 0..BASIS_POINTS
    /\ treasury \in Users \cup {None}
    /\ fee_exempt \subseteq Users
    /\ \/ pending_fee = None
       \/ pending_fee \in [new_fee_bps : 0..BASIS_POINTS, unlock_time : U64]
    /\ creation_fee \in Nat /\ xlm_token \in Tokens \cup {None}
=============================================================================
