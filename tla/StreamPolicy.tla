---------------------------- MODULE StreamPolicy ----------------------------
(* The limits an administrator puts on streams: minimum duration, streams    *)
(* per sender, withdrawal cooldown and the recipient whitelist.              *)
EXTENDS ContractAdmin

CONSTANTS
    DEFAULT_MIN_DURATION,   \* 3600 in the code
    DEFAULT_MAX_STREAMS,    \* 1000 in the code
    MinDurations, MaxStreamChoices, Cooldowns,
    LimitedSenders, SenderLimits,   \* who gets a limit of its own, and which
    WhitelistSwitch,        \* values given to set_whitelist_enabled
    WhitelistChoices
ASSUME PolicyAssumption ==
    /\ DEFAULT_MIN_DURATION \in Nat /\ DEFAULT_MAX_STREAMS \in Nat
    /\ MinDurations \cup MaxStreamChoices \cup SenderLimits \cup Cooldowns \subseteq Nat
    /\ WhitelistSwitch \subseteq BOOLEAN /\ WhitelistChoices \subseteq Users
    /\ LimitedSenders \subseteq Users

VARIABLES
    min_duration, max_streams,
    sender_limit,               \* sender_limit[u] is None without an override
    withdrawal_cooldown, whitelist_enabled, whitelist

policyVars == <<min_duration, max_streams, sender_limit,
                withdrawal_cooldown, whitelist_enabled, whitelist>>

PolicyInit ==
    /\ min_duration = DEFAULT_MIN_DURATION
    /\ max_streams = DEFAULT_MAX_STREAMS
    /\ sender_limit = [u \in Users |-> None]
    /\ withdrawal_cooldown = 0
    /\ whitelist_enabled = FALSE /\ whitelist = {}

effective_sender_limit(sender) ==
    IF sender_limit[sender] = None THEN max_streams ELSE sender_limit[sender]

MayReceive(recipient) == whitelist_enabled => recipient \in whitelist

CooldownOver(last_withdraw_time) ==
    withdrawal_cooldown > 0 =>
        now >= saturating_add(last_withdraw_time, withdrawal_cooldown)

(* Only the address given as admin signs; the stored admin is not read.      *)
set_min_duration(seconds) ==
    /\ min_duration' = seconds
    /\ UNCHANGED <<max_streams, sender_limit, withdrawal_cooldown,
                   whitelist_enabled, whitelist>>

set_max_streams(n) ==
    /\ check_admin
    /\ max_streams' = n
    /\ UNCHANGED <<min_duration, sender_limit, withdrawal_cooldown,
                   whitelist_enabled, whitelist>>

set_sender_stream_limit(sender, limit) ==
    /\ check_admin
    /\ sender_limit' = [sender_limit EXCEPT ![sender] = limit]
    /\ UNCHANGED <<min_duration, max_streams, withdrawal_cooldown,
                   whitelist_enabled, whitelist>>

set_withdrawal_cooldown(seconds) ==
    /\ check_admin
    /\ withdrawal_cooldown' = seconds
    /\ UNCHANGED <<min_duration, max_streams, sender_limit,
                   whitelist_enabled, whitelist>>

set_whitelist_enabled(enabled) ==
    /\ check_admin
    /\ whitelist_enabled' = enabled
    /\ UNCHANGED <<min_duration, max_streams, sender_limit,
                   withdrawal_cooldown, whitelist>>

add_to_whitelist(recipient) ==
    /\ check_admin
    /\ whitelist' = whitelist \cup {recipient}
    /\ UNCHANGED <<min_duration, max_streams, sender_limit,
                   withdrawal_cooldown, whitelist_enabled>>

remove_from_whitelist(recipient) ==
    /\ check_admin
    /\ whitelist' = whitelist \ {recipient}
    /\ UNCHANGED <<min_duration, max_streams, sender_limit,
                   withdrawal_cooldown, whitelist_enabled>>

PolicyNext ==
    \/ \E n \in MinDurations : set_min_duration(n)
    \/ \E n \in MaxStreamChoices : set_max_streams(n)
    \/ \E u \in LimitedSenders, n \in SenderLimits : set_sender_stream_limit(u, n)
    \/ \E n \in Cooldowns : set_withdrawal_cooldown(n)
    \/ \E b \in WhitelistSwitch : set_whitelist_enabled(b)
    \/ \E u \in WhitelistChoices : add_to_whitelist(u) \/ remove_from_whitelist(u)

PolicyTypeOK ==
    /\ min_duration \in Nat /\ max_streams \in Nat
    /\ sender_limit \in [Users -> Nat \cup {None}]
    /\ withdrawal_cooldown \in Nat
    /\ whitelist_enabled \in BOOLEAN /\ whitelist \subseteq Users
=============================================================================
