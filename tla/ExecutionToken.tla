--------------------------- MODULE ExecutionToken ---------------------------
(***************************************************************************)
(* The execution tokens of the Python SDK: KSwitchTokenIssuer, which signs *)
(* one for an allowed call, and KSwitchTokenValidator, which the threads   *)
(* of a service share: its keys, its replay store with the file it is      *)
(* saved in, and restarts of the service.                                  *)
(*                                                                         *)
(* The checks of issuer, audience, action, resource and request hash       *)
(* compare the token with the request and keep no state; a validation here *)
(* is one that passes them.                                                *)
(***************************************************************************)
EXTENDS Integers, Sequences

CONSTANTS
    Threads,     \* threads that validate tokens
    Ttls,        \* lifetimes by risk tier, in ticks
    Grace,       \* _GRACE_SECONDS, in ticks
    Lag,         \* a thread does not wait longer for the replay lock
    MaxTokens,   \* bound: tokens issued
    MaxKeys,     \* bound: signing keys
    MaxTime      \* bound: clock ticks

VARIABLES
    now,
    signing,     \* the issuer's key
    published,   \* the keys in its JWKS document
    tokens,      \* the tokens issued, in order
    keys,        \* _public_keys of the validator
    cached,      \* the keys in its JWKS file
    step,        \* where each thread is
    token,       \* the token it validates
    at,          \* the time it compared the token's expiry with
    used,        \* _replay_store: the deadline of each token, or None
    saved,       \* what the replay file gives when it is loaded
    unsaved,     \* the file does not hold the store: a save failed or goes on
    accepted,    \* how often each token was found valid
    forgotten    \* the service restarted while the file did not

issuer     == <<signing, published, tokens>>
jwks       == <<keys, cached>>
validation == <<step, token, at>>
replay     == <<used, saved, unsaved>>
ghost      == <<accepted, forgotten>>
vars       == <<now, issuer, jwks, validation, replay, ghost>>

None   == -1
Tokens == 1 .. MaxTokens
Keys   == 1 .. MaxKeys
Unused == [k \in Tokens |-> None]
Times  == 0 .. MaxTime
Token  == [key : Keys, exp : Nat, single : BOOLEAN]
Store  == [Tokens -> {None} \cup Nat]

TypeOK ==
    /\ now \in Times
    /\ signing \in Keys /\ published \subseteq Keys
    /\ Len(tokens) <= MaxTokens /\ \A k \in DOMAIN tokens : tokens[k] \in Token
    /\ keys \subseteq Keys /\ cached \subseteq Keys
    /\ step \in [Threads -> {"idle", "keyed", "checked", "save", "write",
                             "valid"}]
    /\ token \in [Threads -> {None} \cup Tokens] /\ at \in [Threads -> Times]
    /\ used \in Store /\ saved \in Store
    /\ unsaved \in BOOLEAN
    /\ accepted \in [Tokens -> 0 .. 2] /\ forgotten \in BOOLEAN

Init ==
    /\ now = 0
    /\ signing = 1 /\ published = {1} /\ tokens = <<>>
    /\ keys \in {{}, {1}} /\ cached = keys
    /\ step = [t \in Threads |-> "idle"]
    /\ token = [t \in Threads |-> None] /\ at = [t \in Threads |-> 0]
    /\ used = Unused /\ saved = Unused /\ unsaved = FALSE
    /\ accepted = [k \in Tokens |-> 0] /\ forgotten = FALSE

Goes(t, from, to) == step[t] = from /\ step' = [step EXCEPT ![t] = to]

Tick ==
    /\ now < MaxTime
    /\ \A t \in Threads : step[t] = "checked" => now - at[t] < Lag
    /\ now' = now + 1
    /\ UNCHANGED <<issuer, jwks, validation, replay, ghost>>

-----------------------------------------------------------------------------
(* KSwitchTokenIssuer.                                                     *)

\* issue: the lifetime follows the risk tier, single_use the action's class.
Issue ==
    /\ Len(tokens) < MaxTokens
    /\ \E ttl \in Ttls, single \in BOOLEAN :
          tokens' = Append(tokens, [key |-> signing, exp |-> now + ttl,
                                    single |-> single])
    /\ UNCHANGED <<now, signing, published, jwks, validation, replay, ghost>>

\* The key is replaced; its JWKS document may still list the one before.
Rotate ==
    /\ signing < MaxKeys
    /\ signing' = signing + 1
    /\ published' \in {{signing'}, {signing, signing'}}
    /\ UNCHANGED <<now, tokens, jwks, validation, replay, ghost>>

-----------------------------------------------------------------------------
(* KSwitchTokenValidator.validate.                                         *)

\* _refresh_jwks: the fetch fails, or gives the keys and the file.
Refresh ==
    \/ UNCHANGED jwks
    \/ keys' = published /\ cached' = published

Knows(set, k) == tokens[k].key \in set

\* Check 2, under the lock: a key not known is looked for once.
FindKey(t, k) ==
    /\ k \in DOMAIN tokens
    /\ IF Knows(keys, k) THEN UNCHANGED jwks ELSE Refresh
    /\ IF Knows(keys', k)
       THEN Goes(t, "idle", "keyed") /\ token' = [token EXCEPT ![t] = k]
       ELSE step[t] = "idle" /\ UNCHANGED <<step, token>>
    /\ UNCHANGED <<now, issuer, at, replay, ghost>>

\* A validation ends.
Leave(t, from) == Goes(t, from, "idle") /\ token' = [token EXCEPT ![t] = None]

Compared(t, time) == at' = [at EXCEPT ![t] = time]

\* Checks 1 and 3 to 9: the clock is read once.
CheckExpiry(t) ==
    /\ step[t] = "keyed"
    /\ IF tokens[token[t]].exp < now
       THEN Leave(t, "keyed") /\ UNCHANGED at
       ELSE /\ Goes(t, "keyed", "checked") /\ UNCHANGED token
            /\ Compared(t, now)
    /\ UNCHANGED <<now, issuer, jwks, replay, ghost>>

Locked == \E t \in Threads : step[t] \in {"save", "write"}

\* Mutant: a use is remembered only as long as the token is valid.
Until(k) == tokens[k].exp

Deadline(k) == tokens[k].exp + Grace

\* _evict_replay
Evicted == [k \in Tokens |-> IF used[k] < now THEN None ELSE used[k]]

\* Check 10, under the replay lock.
CheckReplay(t) ==
    /\ step[t] = "checked" /\ tokens[token[t]].single /\ ~Locked
    /\ IF Evicted[token[t]] # None
       THEN Leave(t, "checked") /\ used' = Evicted /\ UNCHANGED unsaved
       ELSE /\ Goes(t, "checked", "save") /\ UNCHANGED token
            /\ used' = [Evicted EXCEPT ![token[t]] = Deadline(token[t])]
            /\ unsaved' = TRUE
    /\ Compared(t, 0)
    /\ UNCHANGED <<now, issuer, jwks, saved, ghost>>

NoReplayCheck(t) ==
    /\ step[t] = "checked" /\ ~tokens[token[t]].single
    /\ Goes(t, "checked", "valid") /\ Compared(t, 0)
    /\ UNCHANGED <<now, issuer, jwks, token, replay, ghost>>

\* _save_replay_cache: write_text empties the file, which then loads as an
\* empty store, and writes it again; an exception at either is passed over.
EmptyFile(t) ==
    /\ \/ Goes(t, "save", "write") /\ saved' = Unused
       \/ Goes(t, "save", "valid") /\ UNCHANGED saved
    /\ UNCHANGED <<now, issuer, jwks, token, at, used, unsaved, ghost>>

WriteFile(t) ==
    /\ Goes(t, "write", "valid")
    /\ \/ saved' = used /\ unsaved' = FALSE
       \/ UNCHANGED <<saved, unsaved>>
    /\ UNCHANGED <<now, issuer, jwks, token, at, used, ghost>>

Accept(t) ==
    /\ step[t] = "valid" /\ accepted[token[t]] < 2
    /\ Leave(t, "valid")
    /\ accepted' = [accepted EXCEPT ![token[t]] = @ + 1]
    /\ UNCHANGED <<now, issuer, jwks, at, replay, forgotten>>

\* The service starts again: __init__ loads the replay file, dropping what is
\* past its deadline, and the keys from their file, or by a fetch if it has
\* none.
Restart ==
    /\ step' = [t \in Threads |-> "idle"]
    /\ token' = [t \in Threads |-> None] /\ at' = [t \in Threads |-> 0]
    /\ used' = [k \in Tokens |-> IF saved[k] > now THEN saved[k] ELSE None]
    /\ forgotten' = (forgotten \/ unsaved) /\ unsaved' = FALSE
    /\ IF cached # {} THEN keys' = cached /\ UNCHANGED cached
                      ELSE keys' \in {{}, published} /\ cached' = keys'
    /\ UNCHANGED <<now, issuer, saved, accepted>>

Next ==
    \/ Tick \/ Issue \/ Rotate \/ Restart
    \/ \E t \in Threads :
          \/ \E k \in Tokens : FindKey(t, k)
          \/ CheckExpiry(t) \/ CheckReplay(t) \/ NoReplayCheck(t)
          \/ EmptyFile(t) \/ WriteFile(t) \/ Accept(t)

Spec == Init /\ [][Next]_vars

-----------------------------------------------------------------------------
\* validator.py, check 10: a single-use token is found valid once, by
\* whichever threads present it and across restarts, though its use is
\* forgotten again after its expiry and the expiry is compared with a clock
\* read before the replay lock was taken; unless the service restarted when
\* the file did not hold the store.
SingleUseHolds ==
    forgotten \/ \A k \in DOMAIN tokens : tokens[k].single => accepted[k] <= 1
=============================================================================
