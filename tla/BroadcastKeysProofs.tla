------------------------- MODULE BroadcastKeysProofs -------------------------
(***************************************************************************)
(* Proofs about BroadcastKeys: its safety properties, for any set of ids,  *)
(* any intervals with key_expiry > rotation_interval, and any number of    *)
(* failing statements and crashes.                                         *)
(***************************************************************************)
EXTENDS BroadcastKeys, TLAPS

\* Between the UPDATE and the INSERT no key is active.
InsertInv == pc = "insert" => is_active = {}

\* Both deadlines are counted from the same reading of the clock.
DeadlineInv ==
    \A k \in KeyIds : rotates_at[k] > 0 =>
        expires_at[k] = rotates_at[k] + (key_expiry - rotation_interval)

\* A slot can only have ended since the token was derived if more time has
\* passed than the present slot has lasted.
TokenInv == pc = "publish" => lag = 0 \/ (lag = 1 /\ elapsed > phase)

IInv ==
    /\ TypeOK
    /\ InsertInv
    /\ OneActiveKey
    /\ HeldKeyIsActive
    /\ DeadlineInv
    /\ TokenInv

\* The length of a slot, rotation_interval_secs.max(1).
LEMMA SlotLengthType == SlotLength \in Nat \ {0}
BY KeyAssumption DEF SlotLength

\* The saturating difference.
LEMMA LessType ==
    ASSUME NEW b \in Nat, NEW n \in 0 .. b, NEW m \in Nat
    PROVE  /\ Less(n, m) \in 0 .. b
           /\ Less(n, m) > 0 <=> n > m
           /\ n > m => Less(n, m) = n - m
BY DEF Less

\* The loop starts in the invariant.
LEMMA InitIInv == Init => IInv
<1> SUFFICES ASSUME Init PROVE IInv
  OBVIOUS
<1> USE KeyAssumption, SlotLengthType DEF Init
<1>1. TypeOK
  BY DEF TypeOK
<1> QED
  BY <1>1 DEF IInv, InsertInv, OneActiveKey, HeldKeyIsActive, DeadlineInv, TokenInv

\* Every step of the loop, of the clock and every fault keeps it.
LEMMA NextIInv == IInv /\ [Next]_vars => IInv'
<1> SUFFICES ASSUME IInv, [Next]_vars PROVE IInv'
  OBVIOUS
<1> USE KeyAssumption, SlotLengthType
    DEF IInv, TypeOK, InsertInv, OneActiveKey, HeldKeyIsActive, DeadlineInv, TokenInv,
        table, clock
<1>1. CASE GetKey
  BY <1>1 DEF GetKey, SelectableKeys
<1>2. CASE RotateKey
  BY <1>2 DEF RotateKey
<1>3. CASE RetireKeys
  BY <1>3 DEF RetireKeys, ActiveAfterRetire
<1>4. CASE InsertKey
  <2>1. PICK k \in KeyIds \ rows :
           /\ rows' = rows \cup {k}
           /\ is_active' = ActiveAfterInsert(k)
           /\ rotates_at' = [rotates_at EXCEPT ![k] = Less(rotation_interval, drawn)]
           /\ expires_at' = [expires_at EXCEPT ![k] = ExpiryFromCreation]
           /\ key' = k
    BY Zenon, <1>4 DEF InsertKey
  <2>2. /\ Less(rotation_interval, drawn) \in 0 .. rotation_interval
        /\ ExpiryFromCreation \in 0 .. key_expiry
        /\ Less(rotation_interval, drawn) > 0 =>
             ExpiryFromCreation = Less(rotation_interval, drawn)
                                    + (key_expiry - rotation_interval)
    BY DEF Less, ExpiryFromCreation
  <2>3. is_active' = {k}
    BY <1>4, <2>1 DEF InsertKey, ActiveAfterInsert
  <2>4. TypeOK'
    BY <1>4, <2>1, <2>2, <2>3 DEF InsertKey
  <2>5. DeadlineInv'
    BY <2>1, <2>2
  <2> QED
    BY <1>4, <2>1, <2>3, <2>4, <2>5 DEF InsertKey
<1>5. CASE InsertCollides
  BY <1>5 DEF InsertCollides
<1>6. CASE SweepExpired
  BY <1>6 DEF SweepExpired, ExpiredKeys
<1>7. CASE GenerateToken
  BY <1>7 DEF GenerateToken, CurrentSlot
<1>8. CASE PublishDone
  BY <1>8 DEF PublishDone
<1>9. CASE Tick
  <2>1. /\ rotates_at' \in [KeyIds -> 0 .. rotation_interval]
        /\ expires_at' \in [KeyIds -> 0 .. key_expiry]
    BY Zenon, <1>9, LessType DEF Tick
  <2>2. DeadlineInv' /\ HeldKeyIsActive'
    BY <1>9 DEF Tick, Less
  <2>3. /\ phase' \in 0 .. SlotLength - 1
        /\ elapsed' \in 0 .. CycleTime
        /\ lag' \in 0 .. 2
        /\ drawn' \in 0 .. key_expiry
    BY <1>9 DEF Tick
  <2>4. TokenInv'
    BY <1>9 DEF Tick
  <2> QED
    BY <1>9, <2>1, <2>2, <2>3, <2>4 DEF Tick
<1>10. CASE StatementFails
  BY <1>10 DEF StatementFails
<1>11. CASE CrashAndRestart
  BY <1>11 DEF CrashAndRestart
<1>12. CASE UNCHANGED vars
  BY <1>12 DEF vars
<1> QED
  BY <1>1, <1>2, <1>3, <1>4, <1>5, <1>6, <1>7, <1>8, <1>9, <1>10, <1>11, <1>12
     DEF Next, LoopStep

\* The invariant holds of every behaviour of the keys and the broadcast loop.
LEMMA Invariance == Spec => []IInv
BY InitIInv, NextIInv, PTL DEF Spec

\* The table and the loop's variables keep their types.
THEOREM TypeCorrect == Spec => []TypeOK
BY Invariance, PTL DEF IInv

\* The UPDATE and the INSERT of rotate_key never leave two active keys.
THEOREM SingleActiveKey == Spec => []OneActiveKey
BY Invariance, PTL DEF IInv

\* The loop announces the table's active key unless that expired meanwhile.
THEOREM AnnouncedKeyActive == Spec => []HeldKeyIsActive
BY Invariance, PTL DEF IInv

\* generate_token's slot is the published one or the one before it, provided
\* the publishes of a cycle take no longer than a slot.
THEOREM TokenAccepted == Spec => []TokenSlotIsAccepted
<1>1. IInv => TokenSlotIsAccepted
  BY DEF IInv, TokenInv, TokenSlotIsAccepted
<1> QED
  BY <1>1, Invariance, PTL

\* sweep_expired deletes no key before its rotation deadline.
THEOREM UnrotatedKept == Spec => UnrotatedKeyIsKept
<1>1. IInv /\ [Next]_vars =>
        [\A k \in rows : rotates_at[k] > 0 => k \in rows']_vars
  <2> SUFFICES ASSUME IInv, Next, NEW k \in rows, rotates_at[k] > 0
               PROVE  k \in rows'
    BY DEF vars
  <2>1. expires_at[k] # 0
    BY KeyAssumption DEF IInv, TypeOK, DeadlineInv
  <2> QED
    BY <2>1 DEF Next, LoopStep, GetKey, RotateKey, RetireKeys, InsertKey,
       InsertCollides, SweepExpired, ExpiredKeys, GenerateToken, PublishDone, Tick,
       StatementFails, CrashAndRestart, table
<1> QED
  BY <1>1, Invariance, PTL DEF Spec, UnrotatedKeyIsKept

\* Once rotate_key runs, the keys it is about to retire are due.
RotationInv ==
    pc \in {"retire", "insert"} => \A k \in is_active : rotates_at[k] = 0

\* No step makes an active key inactive, or deletes it, before it is due.
ActiveUntilDue ==
    [][\A k \in is_active : rotates_at[k] > 0 => k \in is_active']_vars

\* A key that was retired is not active again as long as its row is there.
RetiredForGood ==
    [][\A k \in rows \ is_active : k \notin is_active']_vars

\* The deadlines only come closer after get_or_rotate_key has compared them.
LEMMA RotationStep == IInv /\ RotationInv /\ [Next]_vars => RotationInv'
<1> SUFFICES ASSUME IInv, RotationInv, [Next]_vars PROVE RotationInv'
  OBVIOUS
<1>0. /\ rotates_at \in [KeyIds -> 0 .. rotation_interval]
      /\ is_active \subseteq KeyIds /\ rotation_interval \in Nat
  BY KeyAssumption DEF IInv, TypeOK
<1>1. CASE RotateKey
  BY <1>0, <1>1 DEF RotateKey, SelectableKeys, RotationInv, table
<1>2. CASE RetireKeys
  BY <1>2 DEF RetireKeys, ActiveAfterRetire, RotationInv
<1>3. CASE Tick
  <2>1. \A k \in KeyIds : rotates_at[k] = 0 => rotates_at'[k] = 0
    BY <1>0, <1>3 DEF Tick, Less
  <2> QED
    BY <1>0, <1>3, <2>1 DEF Tick, RotationInv
<1>4. CASE pc' \notin {"retire", "insert"}
  BY <1>4 DEF RotationInv
<1>5. CASE UNCHANGED vars
  BY <1>5 DEF vars, table, RotationInv
<1> QED
  BY <1>1, <1>2, <1>3, <1>4, <1>5
     DEF Next, LoopStep, GetKey, InsertKey, InsertCollides, SweepExpired, GenerateToken,
         PublishDone, StatementFails, CrashAndRestart

\* Neither rotate_key's UPDATE, which names no key, nor sweep_expired ends a key
\* early, though time passes and calls fail between the SELECT and either.
THEOREM KeyLastsUntilDue == Spec => ActiveUntilDue
<1>1. Init => RotationInv
  BY Zenon DEF Init, RotationInv
<1>2. IInv /\ RotationInv /\ [Next]_vars =>
        [\A k \in is_active : rotates_at[k] > 0 => k \in is_active']_vars
  <2> SUFFICES ASSUME IInv, RotationInv, Next, NEW k \in is_active, rotates_at[k] > 0
               PROVE  k \in is_active'
    BY DEF vars
  <2>1. expires_at[k] # 0 /\ pc # "retire"
    BY KeyAssumption DEF IInv, TypeOK, DeadlineInv, RotationInv
  <2> QED
    BY <2>1 DEF Next, LoopStep, GetKey, RotateKey, RetireKeys, InsertKey,
       ActiveAfterInsert, InsertCollides, SweepExpired, ExpiredKeys, GenerateToken,
       PublishDone, Tick, StatementFails, CrashAndRestart, table
<1> QED
  BY <1>1, <1>2, Invariance, RotationStep, PTL DEF Spec, ActiveUntilDue

\* rotate_key activates only the row it inserts.
THEOREM RetiredStays == Spec => RetiredForGood
<1>1. [Next]_vars => [\A k \in rows \ is_active : k \notin is_active']_vars
  BY DEF Next, LoopStep, GetKey, RotateKey, RetireKeys, ActiveAfterRetire, InsertKey,
       ActiveAfterInsert, InsertCollides, SweepExpired, GenerateToken,
       PublishDone, Tick, StatementFails, CrashAndRestart, table, vars
<1> QED
  BY <1>1, PTL DEF Spec, RetiredForGood
=============================================================================
