----------------------------- MODULE ApiKeyAuth -----------------------------
(***************************************************************************)
(* src/grpc/auth.rs: the registered keys behind one tokio lock, the rate   *)
(* window of validate_key, and the interceptor, which only tries the lock. *)
(* A key stands for its own hash.  Nothing in the program disables a key   *)
(* or lets it expire, so those two checks always pass and are left out.    *)
(*                                                                         *)
(* Nothing in the program calls validate_key, check_allocation_allowed or  *)
(* get_amplification_factor either: KeysNext is what the module offers to  *)
(* callers, and the served program (CyanFlameRpc) takes of it only the     *)
(* registration of keys and the check of the interceptor.                  *)
(***************************************************************************)
EXTENDS Integers, FiniteSets, Functions

CONSTANTS Callers,      \* tasks that would call validate_key and what is built on it
          Keys,         \* keys that callers present; the default ones among them
          FreeLimit,    \* stands for the 100 requests per minute of the free tier
          Minute,       \* the 60 seconds of the window, in ticks of the clock
          MaxClock      \* bound on the clock

ASSUME KeysAssumption ==
    /\ FreeLimit \in Nat /\ Minute \in Nat \ {0} /\ MaxClock \in Nat

VARIABLES auth_enabled, \* given to AuthManager::new
          api_keys,     \* the registered keys and their entries
          clock,        \* Utc::now
          caller,       \* where each caller is, what it asks and what it was told
          granted       \* ghost: how often each key was granted at each time

keyVars == <<auth_enabled, api_keys, clock, caller, granted>>

\* The four tiers; rate limit 0 is unlimited, and an unknown name is the free tier.
TierConfig == [free       |-> [amplification |-> 100,   max_tb |-> 2,   rate_limit |-> FreeLimit],
               starter    |-> [amplification |-> 1000,  max_tb |-> 24,  rate_limit |-> 10 * FreeLimit],
               pro        |-> [amplification |-> 10000, max_tb |-> 240, rate_limit |-> 100 * FreeLimit],
               enterprise |-> [amplification |-> 24500, max_tb |-> 574, rate_limit |-> 0]]
from_name(tier) == IF tier \in DOMAIN TierConfig THEN TierConfig[tier] ELSE TierConfig.free

\* register_default_keys: one key of every tier and an older one.
DefaultKeys == [cf_free_test123 |-> "free", cf_starter_test123 |-> "starter",
                cf_pro_test123 |-> "pro", cf_ent_test123 |-> "enterprise",
                test_key_123 |-> "enterprise"]

NewEntry(tier, t) == [tier |-> tier, rate_limit |-> from_name(tier).rate_limit,
                      request_count |-> 0, last_request |-> t]

register_key(key, tier) ==
    api_keys' = [k \in DOMAIN api_keys \cup {key} |->
                    IF k = key THEN NewEntry(tier, clock) ELSE api_keys[k]]

Idle == [at |-> "idle", key |-> "none", asks |-> "none", told |-> "none"]

KeysInit(registered) ==
    /\ auth_enabled \in BOOLEAN /\ clock = 0
    /\ api_keys = [k \in registered |-> NewEntry(DefaultKeys[k], 0)]
    /\ caller = [c \in Callers |-> Idle]
    /\ granted = [k \in Keys |-> [t \in 0..MaxClock |-> 0]]

\* No one waits with the lock held, so a caller either has it or is done with it.
KeysFree == \A c \in Callers : caller[c].at # "locked"

\* What is asked: the entry itself, the factor of its tier, or room for an allocation.
Questions == {"entry", "factor", "fits", "too much"}

\* With authentication off everybody is of the enterprise tier.
AskUnlocked(c, asks) ==
    /\ ~auth_enabled /\ caller[c].at = "idle"
    /\ caller' = [caller EXCEPT ![c].told =
                    IF asks = "too much" THEN "resource_exhausted" ELSE "ok"]
    /\ UNCHANGED <<auth_enabled, api_keys, clock, granted>>

LockKeys(c, key, asks) ==
    /\ auth_enabled /\ KeysFree /\ caller[c].at = "idle"
    /\ caller' = [caller EXCEPT ![c] = [at |-> "locked", key |-> key, asks |-> asks,
                                        told |-> "none"]]
    /\ UNCHANGED <<auth_enabled, api_keys, clock, granted>>

\* The window begins again with the first request a minute after the last beginning.
\* Slip: the count is reset and the beginning of the window is kept.
WindowAt_KeepStart(entry, t) ==
    IF t - entry.last_request >= Minute THEN [entry EXCEPT !.request_count = 0] ELSE entry
WindowAt(entry, t) ==
    IF t - entry.last_request >= Minute
    THEN [entry EXCEPT !.request_count = 0, !.last_request = t]
    ELSE entry

Exhausted(entry) == entry.rate_limit > 0 /\ entry.request_count >= entry.rate_limit

\* validate_key keeps a window that it began even if it then refuses.  Nothing ever
\* raises current_allocations or allocated_memory_bytes, so an allocation is refused
\* only if it is larger than all that the tier may have.
validate_key(c) ==
    /\ caller[c].at = "locked"
    /\ LET key   == caller[c].key
           known == key \in DOMAIN api_keys
           entry == WindowAt(api_keys[key], clock)
           ok    == known /\ ~Exhausted(entry)
       IN  /\ api_keys' = CASE ~known -> api_keys
                            [] ok -> [api_keys EXCEPT ![key] =
                                        [entry EXCEPT !.request_count = @ + 1]]
                            [] OTHER -> [api_keys EXCEPT ![key] = entry]
           /\ granted' = IF ok THEN [granted EXCEPT ![key][clock] = @ + 1] ELSE granted
           /\ caller' = [caller EXCEPT ![c] =
                [Idle EXCEPT !.told = CASE ~known -> "unauthenticated"
                                        [] known /\ ~ok -> "resource_exhausted"
                                        [] caller[c].asks = "too much" -> "resource_exhausted"
                                        [] OTHER -> "ok"]]
    /\ UNCHANGED <<auth_enabled, clock>>

Tick ==
    /\ clock < MaxClock /\ clock' = clock + 1
    /\ UNCHANGED <<auth_enabled, api_keys, caller, granted>>

\* Tasks that use the methods of AuthManager; the program has no such task.
KeysNext ==
    \/ \E c \in Callers, asks \in Questions : AskUnlocked(c, asks)
    \/ \E c \in Callers, key \in Keys, asks \in Questions : LockKeys(c, key, asks)
    \/ \E c \in Callers : validate_key(c)
    \/ Tick
KeysSpec == KeysInit(DOMAIN DefaultKeys) /\ [][KeysNext]_keyVars

\* The interceptor: a key from either header is looked up if the lock can be read now;
\* if it cannot, the request passes.  It looks at no window and counts nothing, so what
\* it admits is limited by nothing (CyanFlameRpc: ServedWithinLimit).
Admits(key, readable) ==
    ~auth_enabled \/ (key # "none" /\ (~readable \/ key \in DOMAIN api_keys))

-----------------------------------------------------------------------------
\* The limit of validate_key is per window, and windows are not aligned with what a
\* client measures: in any minute a key is granted at most twice its limit, never more,
\* however its requests straddle the resets.  This is about the method alone, for
\* whoever calls it; no request of the served program goes through it.
BurstBounded ==
    \A k \in DOMAIN api_keys \cap Keys : api_keys[k].rate_limit > 0 =>
        \A t \in 0..MaxClock :
            SumFunctionOnSet(granted[k], {u \in 0..MaxClock : t <= u /\ u < t + Minute})
                <= 2 * api_keys[k].rate_limit
=============================================================================
