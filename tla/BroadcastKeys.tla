---------------------------- MODULE BroadcastKeys ----------------------------
(***************************************************************************)
(* The broadcast keys (services/beacon_management/key_management.rs) and   *)
(* the broadcast loop that uses them (BroadcastState::run_broadcast_loop). *)
(*                                                                         *)
(* The loop is the only task that touches the table broadcast_keys, but it *)
(* touches it in separate statements with time passing in between, any of  *)
(* which may fail, and the process may crash between two of them.  The     *)
(* table survives a crash; the loop's own variables do not.                *)
(*                                                                         *)
(* Times are kept relative to unix_now(): rotates_at[k] is the time left   *)
(* until the stored column's value, 0 once that has passed.                *)
(***************************************************************************)
EXTENDS Naturals

CONSTANTS
    KeyIds,            \* the 4-byte key ids
    NoKey,
    rotation_interval,
    key_expiry,
    CycleTime,         \* the longest the publishes of one cycle take
    MaxFaults          \* statements that fail, plus crashes

SlotLength == IF rotation_interval > 1 THEN rotation_interval ELSE 1

\* The documentation of BroadcastKeyManagement::new asks for a key_expiry above
\* rotation_interval, which nothing in the code enforces.  CycleTime bounds the
\* jitter and the publishes of one cycle by the length of a token's slot.
ASSUME KeyAssumption ==
    /\ rotation_interval \in Nat /\ key_expiry \in Nat
    /\ key_expiry > rotation_interval
    /\ NoKey \notin KeyIds
    /\ CycleTime \in 0 .. SlotLength
    /\ MaxFaults \in Nat

VARIABLES
    rows,       \* the key ids in the table
    is_active,  \* those with is_active = 1
    rotates_at,
    expires_at,
    pc,         \* where the loop is in its cycle
    key,        \* the id of the key it announces in this cycle
    drawn,      \* time since rotate_key read the clock
    phase,      \* unix_now() % SlotLength
    lag,        \* slots that have ended since the token was derived
    elapsed,    \* time since the token was derived
    faults

table == <<rows, is_active, rotates_at, expires_at>>
clock == <<phase, lag, elapsed>>
vars == <<table, pc, key, drawn, clock, faults>>

TypeOK ==
    /\ rows \subseteq KeyIds
    /\ is_active \subseteq rows
    /\ rotates_at \in [KeyIds -> 0 .. rotation_interval]
    /\ expires_at \in [KeyIds -> 0 .. key_expiry]
    /\ pc \in {"tick", "retire", "insert", "sweep", "token", "publish"}
    /\ key \in KeyIds \cup {NoKey}
    /\ drawn \in 0 .. key_expiry
    /\ phase \in 0 .. SlotLength - 1
    /\ lag \in 0 .. 2
    /\ elapsed \in 0 .. CycleTime
    /\ faults \in 0 .. MaxFaults

Init ==
    /\ rows = {} /\ is_active = {}
    /\ rotates_at = [k \in KeyIds |-> 0]
    /\ expires_at = [k \in KeyIds |-> 0]
    /\ pc = "tick" /\ key = NoKey /\ drawn = 0
    /\ phase = 0 /\ lag = 0 /\ elapsed = 0
    /\ faults = 0

\* n - m, down to 0.
Less(n, m) == IF n > m THEN n - m ELSE 0
-----------------------------------------------------------------------------
(***************************************************************************)
(* get_or_rotate_key, at the tick of the loop's interval.  Ticks that were *)
(* missed come in a burst, so the next cycle may start at any time.        *)
(***************************************************************************)
\* WHERE is_active = 1 AND rotates_at > now
SelectableKeys == {k \in is_active : rotates_at[k] > 0}

\* ORDER BY rotates_at DESC LIMIT 1
GetKey ==
    /\ pc = "tick"
    /\ \E k \in SelectableKeys :
          /\ \A other \in SelectableKeys : rotates_at[other] <= rotates_at[k]
          /\ key' = k
    /\ pc' = "sweep"
    /\ UNCHANGED <<table, drawn, clock, faults>>

\* No such row: rotate_key reads the clock.  (It also draws the new id, which
\* InsertKey and InsertCollides do here: nothing looks at it before.)
RotateKey ==
    /\ pc = "tick"
    /\ SelectableKeys = {}
    /\ drawn' = 0
    /\ pc' = "retire"
    /\ UNCHANGED <<table, key, clock, faults>>

\* Faulty: nothing is retired.
RetireNone == is_active

\* UPDATE ... SET is_active = 0 WHERE is_active = 1
ActiveAfterRetire == {}

RetireKeys ==
    /\ pc = "retire"
    /\ is_active' = ActiveAfterRetire
    /\ pc' = "insert"
    /\ UNCHANGED <<rows, rotates_at, expires_at, key, drawn, clock, faults>>

\* Faulty: the new row is not active.
ActiveMissing(k) == is_active

ActiveAfterInsert(k) == is_active \cup {k}

\* Faulty: key_expiry is counted from the start of the previous rotation.
ExpiryFromRotation == Less(key_expiry, drawn + rotation_interval)

ExpiryFromCreation == Less(key_expiry, drawn)

InsertKey ==
    /\ pc = "insert"
    /\ \E k \in KeyIds \ rows :
          /\ rows' = rows \cup {k}
          /\ is_active' = ActiveAfterInsert(k)
          /\ rotates_at' = [rotates_at EXCEPT ![k] = Less(rotation_interval, drawn)]
          /\ expires_at' = [expires_at EXCEPT ![k] = ExpiryFromCreation]
          /\ key' = k
    /\ pc' = "sweep"
    /\ drawn' = 0
    /\ UNCHANGED <<clock, faults>>

\* key_id is the primary key: drawing an id that is taken fails the cycle.
InsertCollides ==
    /\ pc = "insert"
    /\ rows # {}
    /\ pc' = "tick"
    /\ drawn' = 0
    /\ UNCHANGED <<table, key, clock, faults>>
-----------------------------------------------------------------------------
(***************************************************************************)
(* The rest of the cycle: sweep_expired, the token, the publishes.         *)
(***************************************************************************)
\* Faulty: keys are deleted as they rotate out; retired keys are never deleted.
RotatedKeys == {k \in rows : rotates_at[k] <= 1}
ExpiredActive == {k \in is_active : expires_at[k] = 0}

\* WHERE expires_at <= now
ExpiredKeys == {k \in rows : expires_at[k] = 0}

SweepExpired ==
    /\ pc = "sweep"
    /\ rows' = rows \ ExpiredKeys
    /\ is_active' = is_active \ ExpiredKeys
    /\ pc' = "token"
    /\ UNCHANGED <<rotates_at, expires_at, key, drawn, clock, faults>>

\* Faulty: the slot before the current one.
PreviousSlot == 1

CurrentSlot == 0

\* generate_token: the slot is that of the time of the call.
GenerateToken ==
    /\ pc = "token"
    /\ lag' = CurrentSlot
    /\ elapsed' = 0
    /\ pc' = "publish"
    /\ UNCHANGED <<table, key, drawn, phase, faults>>

PublishDone ==
    /\ pc = "publish"
    /\ pc' = "tick" /\ key' = NoKey /\ lag' = 0 /\ elapsed' = 0
    /\ UNCHANGED <<table, drawn, phase, faults>>
-----------------------------------------------------------------------------
\* One unit of time passes.
Tick ==
    /\ pc = "publish" => elapsed < CycleTime
    /\ rotates_at' = [k \in KeyIds |-> Less(rotates_at[k], 1)]
    /\ expires_at' = [k \in KeyIds |-> Less(expires_at[k], 1)]
    /\ drawn' = IF pc \in {"retire", "insert"} /\ drawn < key_expiry
                THEN drawn + 1 ELSE drawn
    /\ phase' = IF phase + 1 = SlotLength THEN 0 ELSE phase + 1
    /\ elapsed' = IF pc = "publish" THEN elapsed + 1 ELSE elapsed
    /\ lag' = IF pc = "publish" /\ phase' = 0 /\ lag < 2 THEN lag + 1 ELSE lag
    /\ UNCHANGED <<rows, is_active, pc, key, faults>>

\* A statement fails.  The loop skips the cycle, except that it goes on after
\* a failed sweep.
StatementFails ==
    /\ faults < MaxFaults
    /\ faults' = faults + 1
    /\ \/ /\ pc \in {"tick", "retire", "insert"}
          /\ pc' = "tick"
       \/ /\ pc = "sweep"
          /\ pc' = "token"
    /\ drawn' = 0
    /\ UNCHANGED <<table, key, clock>>

\* The process stops anywhere and is started again.
CrashAndRestart ==
    /\ faults < MaxFaults
    /\ faults' = faults + 1
    /\ pc' = "tick" /\ key' = NoKey /\ drawn' = 0 /\ lag' = 0 /\ elapsed' = 0
    /\ UNCHANGED <<table, phase>>

LoopStep ==
    \/ GetKey
    \/ RotateKey
    \/ RetireKeys
    \/ InsertKey
    \/ InsertCollides
    \/ SweepExpired
    \/ GenerateToken
    \/ PublishDone
    \/ StatementFails
    \/ CrashAndRestart

Next == LoopStep \/ Tick

Spec == Init /\ [][Next]_vars

(***************************************************************************)
(* The loop and the clock go on.  Ids are drawn at random, so a cycle that *)
(* needs a free one draws it in the end.                                   *)
(***************************************************************************)
Fairness ==
    /\ WF_vars(Tick)
    /\ WF_vars(GetKey \/ RotateKey)
    /\ WF_vars(RetireKeys)
    /\ SF_vars(InsertKey)
    /\ WF_vars(SweepExpired)
    /\ WF_vars(GenerateToken)
    /\ WF_vars(PublishDone)

FairSpec == Spec /\ Fairness
-----------------------------------------------------------------------------
\* There is never more than one active key, although retiring the old key and
\* inserting the new one are two statements and a crash may separate them.
OneActiveKey == \A k, other \in is_active : k = other

\* The key the loop announces is the active key of the table, or has expired
\* since the loop looked it up: no rotation happens behind its back.
HeldKeyIsActive ==
    pc \in {"sweep", "token", "publish"} =>
        key \in KeyIds /\ (key \in is_active \/ expires_at[key] = 0)

\* A beacon that accepts the current slot and its two neighbours accepts the
\* token when it is published, though it was derived before the publishes.
TokenSlotIsAccepted == pc = "publish" => lag <= 1

\* No step deletes a key that is not due for rotation yet.
UnrotatedKeyIsKept ==
    [][\A k \in rows : rotates_at[k] > 0 => k \in rows']_vars

\* A table left without an active key (a crash or an error after the UPDATE)
\* gets one again.
ActiveKeyReturns == is_active = {} ~> is_active # {}

\* An expired key is deleted, although cycles that fail skip the sweep.
ExpiredKeyIsDeleted ==
    \A k \in KeyIds : k \in rows /\ expires_at[k] = 0 ~> k \notin rows
=============================================================================
