----------------------- MODULE IdempotencyStoreProofs -----------------------
(***************************************************************************)
(* Proofs about IdempotencyStore.Execute for any number of concurrent      *)
(* callers and any keys: the invariant of the two critical sections, and   *)
(* that the store implements OnceStore.                                    *)
(***************************************************************************)
EXTENDS IdempotencyStore, TLAPS

(* The answers are told apart by their state, and a result names its owner. *)
LEMMA AnswersDiffer ==
    ASSUME NEW c \in Callers, NEW hit \in BOOLEAN
    PROVE  /\ Once!Pending \in Answers
           /\ Once!Failed \in Answers
           /\ Once!Result(c, hit) \in Answers
  BY DEF Answers

(* A text that is not blank after trimming is a key.                        *)
LEMMA TrimmedIsKey ==
    ASSUME NEW t \in KeyText, TrimmedKey(t) # Blank
    PROVE  TrimmedKey(t) \in Keys
  BY DEF TrimmedKey, Keys

(* The invariant holds before the first call.                               *)
LEMMA StoreInvInit ==
    ASSUME Init
    PROVE  StoreInv
  <1>1. StoreTypeOK
    BY DEF Init, StoreTypeOK, OpenCall, Answers
  <1>2. OneRunningPerKey
    BY DEF Init, OneRunningPerKey
  <1>3. WaitersAreServed
    BY DEF Init, WaitersAreServed
  <1>4. PendingUntilReturn /\ UntouchedBeforeEntry
    BY DEF Init, OpenCall, PendingUntilReturn, UntouchedBeforeEntry
  <1> QED BY <1>1, <1>2, <1>3, <1>4 DEF StoreInv

-----------------------------------------------------------------------------
(* Every step keeps the types.                                              *)
LEMMA StoreTypeStep ==
    ASSUME StoreInv, [Next]_storeVars
    PROVE  StoreTypeOK'
  <1> USE StoreAssumption DEF StoreInv
  <1>1. ASSUME NEW c \in Callers, NEW t \in KeyText, Refuse(c, t)
        PROVE  StoreTypeOK'
    BY <1>1 DEF Refuse, Return, StoreTypeOK, Answers
  <1>2. ASSUME NEW c \in Callers, NEW t \in KeyText, Hit(c, t)
        PROVE  StoreTypeOK'
    <2>1. TrimmedKey(t) \in Keys
      BY <1>2, TrimmedIsKey DEF Hit, Enter
    <2>2. Once!Result(entries[TrimmedKey(t)], TRUE) \in Answers
      BY <1>2, <2>1, AnswersDiffer DEF Hit, StoreTypeOK
    <2> QED BY <1>2, <2>1, <2>2 DEF Hit, Enter, Return, StoreTypeOK
  <1>3. ASSUME NEW c \in Callers, NEW t \in KeyText, Join(c, t)
        PROVE  StoreTypeOK'
    <2>1. TrimmedKey(t) \in Keys
      BY <1>3, TrimmedIsKey DEF Join, Enter
    <2> QED BY <1>3, <2>1 DEF Join, Enter, StoreTypeOK
  <1>4. ASSUME NEW c \in Callers, NEW t \in KeyText, Own(c, t)
        PROVE  StoreTypeOK'
    <2>1. TrimmedKey(t) \in Keys
      BY <1>4, TrimmedIsKey DEF Own, Enter
    <2> QED BY <1>4, <2>1 DEF Own, Enter, StoreTypeOK
  <1>5. ASSUME NEW c \in Callers, NEW err \in BOOLEAN, Finish(c, err)
        PROVE  StoreTypeOK'
    <2>1. Once!Failed \in Answers /\ Once!Result(c, FALSE) \in Answers
      BY AnswersDiffer
    <2>2. key[c] \in Keys
      BY <1>5 DEF Finish, OneRunningPerKey
    <2>3. entries' \in [Keys -> Callers \cup {NoCaller}]
      BY <1>5, <2>2 DEF Finish, Cached, StoreTypeOK
    <2>4. call' \in [Callers -> [done : BOOLEAN, err : BOOLEAN]]
      BY <1>5 DEF Finish, Closed, StoreTypeOK
    <2> QED BY <1>5, <2>1, <2>2, <2>3, <2>4 DEF Finish, Return, StoreTypeOK
  <1>6. ASSUME NEW c \in Callers, WaitDone(c)
        PROVE  StoreTypeOK'
    <2>1. waitsOn[c] \in Callers
      BY <1>6 DEF WaitDone, WaitersAreServed
    <2>2. Once!Failed \in Answers /\ Once!Result(waitsOn[c], TRUE) \in Answers
      BY <2>1, AnswersDiffer
    <2> QED BY <1>6, <2>2 DEF WaitDone, Return, StoreTypeOK
  <1>7. ASSUME NEW c \in Callers, WaitCancelled(c)
        PROVE  StoreTypeOK'
    BY <1>7 DEF WaitCancelled, Return, StoreTypeOK, Answers
  <1>8. ASSUME NEW c \in Callers, Cancel(c)
        PROVE  StoreTypeOK'
    BY <1>8 DEF Cancel, StoreTypeOK
  <1>9. CASE UNCHANGED storeVars
    BY <1>9 DEF storeVars, StoreTypeOK
  <1> QED
    BY <1>1, <1>2, <1>3, <1>4, <1>5, <1>6, <1>7, <1>8, <1>9 DEF Next, Step

(* At most one operation runs per key: a caller starts one only under the   *)
(* lock, on a key that is neither cached nor in flight.                     *)
LEMMA OneRunningStep ==
    ASSUME StoreInv, [Next]_storeVars
    PROVE  OneRunningPerKey'
  <1> USE StoreAssumption DEF StoreInv, StoreTypeOK
  <1>1. ASSUME NEW c \in Callers, NEW t \in KeyText, Refuse(c, t)
        PROVE  OneRunningPerKey'
    BY <1>1 DEF Refuse, Return, OneRunningPerKey
  <1>2. ASSUME NEW c \in Callers, NEW t \in KeyText, Hit(c, t)
        PROVE  OneRunningPerKey'
    BY <1>2 DEF Hit, Enter, Return, OneRunningPerKey
  <1>3. ASSUME NEW c \in Callers, NEW t \in KeyText, Join(c, t)
        PROVE  OneRunningPerKey'
    BY <1>3 DEF Join, Enter, OneRunningPerKey
  <1>4. ASSUME NEW c \in Callers, NEW t \in KeyText, Own(c, t)
        PROVE  OneRunningPerKey'
    <2>1. TrimmedKey(t) \in Keys
      BY <1>4, TrimmedIsKey DEF Own, Enter
    <2> QED BY <1>4, <2>1 DEF Own, Enter, OneRunningPerKey, UntouchedBeforeEntry
  <1>5. ASSUME NEW c \in Callers, NEW err \in BOOLEAN, Finish(c, err)
        PROVE  OneRunningPerKey'
    BY <1>5 DEF Finish, Cached, Closed, Return, OneRunningPerKey
  <1>6. ASSUME NEW c \in Callers, WaitDone(c)
        PROVE  OneRunningPerKey'
    BY <1>6 DEF WaitDone, Return, OneRunningPerKey
  <1>7. ASSUME NEW c \in Callers, WaitCancelled(c)
        PROVE  OneRunningPerKey'
    BY <1>7 DEF WaitCancelled, Return, OneRunningPerKey
  <1>8. ASSUME NEW c \in Callers, Cancel(c)
        PROVE  OneRunningPerKey'
    BY <1>8 DEF Cancel, OneRunningPerKey
  <1>9. CASE UNCHANGED storeVars
    BY <1>9 DEF storeVars, OneRunningPerKey
  <1> QED
    BY <1>1, <1>2, <1>3, <1>4, <1>5, <1>6, <1>7, <1>8, <1>9 DEF Next, Step

(* No waiter is lost: the call it joined runs on, or closed with the result *)
(* that was cached, which no later call can replace.                        *)
LEMMA WaitersStep ==
    ASSUME StoreInv, [Next]_storeVars
    PROVE  WaitersAreServed'
  <1> USE StoreAssumption DEF StoreInv, StoreTypeOK
  <1>1. ASSUME NEW c \in Callers, NEW t \in KeyText, Refuse(c, t)
        PROVE  WaitersAreServed'
    BY <1>1 DEF Refuse, Return, WaitersAreServed
  <1>2. ASSUME NEW c \in Callers, NEW t \in KeyText, Hit(c, t)
        PROVE  WaitersAreServed'
    BY <1>2 DEF Hit, Enter, Return, WaitersAreServed, UntouchedBeforeEntry
  <1>3. ASSUME NEW c \in Callers, NEW t \in KeyText, Join(c, t)
        PROVE  WaitersAreServed'
    <2>1. TrimmedKey(t) \in Keys
      BY <1>3, TrimmedIsKey DEF Join, Enter
    <2> QED BY <1>3, <2>1 DEF Join, Enter, WaitersAreServed, OneRunningPerKey,
                              UntouchedBeforeEntry
  <1>4. ASSUME NEW c \in Callers, NEW t \in KeyText, Own(c, t)
        PROVE  WaitersAreServed'
    BY <1>4 DEF Own, Enter, WaitersAreServed, UntouchedBeforeEntry
  <1>5. ASSUME NEW c \in Callers, NEW err \in BOOLEAN, Finish(c, err)
        PROVE  WaitersAreServed'
    BY <1>5 DEF Finish, Cached, Closed, Return, WaitersAreServed,
                OneRunningPerKey
  <1>6. ASSUME NEW c \in Callers, WaitDone(c)
        PROVE  WaitersAreServed'
    BY <1>6 DEF WaitDone, Return, WaitersAreServed
  <1>7. ASSUME NEW c \in Callers, WaitCancelled(c)
        PROVE  WaitersAreServed'
    BY <1>7 DEF WaitCancelled, Return, WaitersAreServed
  <1>8. ASSUME NEW c \in Callers, Cancel(c)
        PROVE  WaitersAreServed'
    BY <1>8 DEF Cancel, WaitersAreServed
  <1>9. CASE UNCHANGED storeVars
    BY <1>9 DEF storeVars, WaitersAreServed
  <1> QED
    BY <1>1, <1>2, <1>3, <1>4, <1>5, <1>6, <1>7, <1>8, <1>9 DEF Next, Step

(* Answers appear when a caller returns, keys and closed calls once it has  *)
(* entered.                                                                 *)
LEMMA LocalStep ==
    ASSUME StoreInv, [Next]_storeVars
    PROVE  PendingUntilReturn' /\ UntouchedBeforeEntry'
  <1> USE DEF StoreInv, StoreTypeOK, PendingUntilReturn, UntouchedBeforeEntry
  <1>1. ASSUME NEW c \in Callers, NEW t \in KeyText,
               Refuse(c, t) \/ Hit(c, t) \/ Join(c, t) \/ Own(c, t)
        PROVE  PendingUntilReturn' /\ UntouchedBeforeEntry'
    BY <1>1 DEF Refuse, Hit, Join, Own, Enter, Return
  <1>2. ASSUME NEW c \in Callers, NEW err \in BOOLEAN, Finish(c, err)
        PROVE  PendingUntilReturn' /\ UntouchedBeforeEntry'
    BY <1>2 DEF Finish, Closed, Return
  <1>3. ASSUME NEW c \in Callers, WaitDone(c) \/ WaitCancelled(c) \/ Cancel(c)
        PROVE  PendingUntilReturn' /\ UntouchedBeforeEntry'
    BY <1>3 DEF WaitDone, WaitCancelled, Cancel, Return
  <1>4. CASE UNCHANGED storeVars
    BY <1>4 DEF storeVars
  <1> QED BY <1>1, <1>2, <1>3, <1>4 DEF Next, Step

(* The invariant of the store holds under every interleaving of any number  *)
(* of calls of Execute, failing operations and cancelled contexts.          *)
THEOREM StoreInductive == Spec => []StoreInv
  <1>1. Init => StoreInv
    BY StoreInvInit
  <1>2. StoreInv /\ [Next]_storeVars => StoreInv'
    BY StoreTypeStep, OneRunningStep, WaitersStep, LocalStep DEF StoreInv
  <1> QED BY <1>1, <1>2, PTL DEF Spec

(* The maps of the store, the calls and the callers stay well typed.        *)
THEOREM StoreTypeCorrect == Spec => []StoreTypeOK
  <1>1. StoreInv => StoreTypeOK
    BY DEF StoreInv
  <1> QED BY <1>1, StoreInductive, PTL

(* The operation handed to Execute, which runs outside the lock, runs for   *)
(* one caller per key at a time and for none once a result is cached.       *)
THEOREM OneRunningPerKeyHolds == Spec => []OneRunningPerKey
  <1>1. StoreInv => OneRunningPerKey
    BY DEF StoreInv
  <1> QED BY <1>1, StoreInductive, PTL

(* The call a waiter joined is running, or closed and readable with the     *)
(* cached result.                                                           *)
THEOREM WaitersAreServedHolds == Spec => []WaitersAreServed
  <1>1. StoreInv => WaitersAreServed
    BY DEF StoreInv
  <1> QED BY <1>1, StoreInductive, PTL

-----------------------------------------------------------------------------
(* Every step of Execute is a step of OnceStore or leaves it unchanged.     *)
LEMMA StepRefines ==
    ASSUME StoreInv, [Next]_storeVars
    PROVE  [Once!OnceNext]_(Once!onceVars)
  <1> USE StoreAssumption DEF StoreInv, StoreTypeOK, PendingUntilReturn
  <1>1. ASSUME NEW c \in Callers, NEW t \in KeyText, Refuse(c, t)
        PROVE  Once!Fail(c)
    BY <1>1 DEF Refuse, Return, Once!Fail
  <1>2. ASSUME NEW c \in Callers, NEW t \in KeyText, Hit(c, t)
        PROVE  \E k \in Keys : Once!Replay(c, k)
    <2>1. TrimmedKey(t) \in Keys
      BY <1>2, TrimmedIsKey DEF Hit, Enter
    <2>2. Once!Replay(c, TrimmedKey(t))
      BY <1>2 DEF Hit, Enter, Return, Once!Replay, UntouchedBeforeEntry
    <2> QED BY <2>1, <2>2
  <1>3. ASSUME NEW c \in Callers, NEW t \in KeyText, Join(c, t) \/ Own(c, t)
        PROVE  \E k \in Keys : Once!Ask(c, k)
    <2>1. TrimmedKey(t) \in Keys
      BY <1>3, TrimmedIsKey DEF Join, Own, Enter
    <2>2. Once!Ask(c, TrimmedKey(t))
      BY <1>3 DEF Join, Own, Enter, Once!Ask, UntouchedBeforeEntry
    <2> QED BY <2>1, <2>2
  <1>4. ASSUME NEW c \in Callers, NEW err \in BOOLEAN, Finish(c, err)
        PROVE  Once!Fail(c) \/ \E k \in Keys : Once!Commit(c, k)
    <2>1. CASE err
      BY <1>4, <2>1 DEF Finish, Cached, Return, Once!Fail
    <2>2. CASE ~err
      <3>1. key[c] \in Keys /\ entries[key[c]] = NoCaller
        BY <1>4 DEF Finish, OneRunningPerKey
      <3>2. Once!Commit(c, key[c])
        BY <1>4, <2>2, <3>1 DEF Finish, Cached, Return, Once!Commit
      <3> QED BY <3>1, <3>2
    <2> QED BY <2>1, <2>2
  <1>5. ASSUME NEW c \in Callers, WaitDone(c)
        PROVE  Once!Fail(c) \/ \E k \in Keys : Once!Replay(c, k)
    <2> DEFINE owner == waitsOn[c]
    <2>1. CASE call[owner].err
      BY <1>5, <2>1 DEF WaitDone, Return, Once!Fail
    <2>2. CASE ~call[owner].err
      <3>1. owner \in Callers /\ key[c] \in Keys /\ entries[key[c]] = owner
        BY <1>5, <2>2 DEF WaitDone, WaitersAreServed, OneRunningPerKey
      <3>2. Once!Replay(c, key[c])
        BY <1>5, <2>2, <3>1 DEF WaitDone, Return, Once!Replay
      <3> QED BY <3>1, <3>2
    <2> QED BY <2>1, <2>2
  <1>6. ASSUME NEW c \in Callers, WaitCancelled(c)
        PROVE  Once!Fail(c)
    BY <1>6 DEF WaitCancelled, Return, Once!Fail
  <1>7. ASSUME NEW c \in Callers, Cancel(c)
        PROVE  UNCHANGED Once!onceVars
    BY <1>7 DEF Cancel, Once!onceVars
  <1>8. CASE UNCHANGED storeVars
    BY <1>8 DEF storeVars, Once!onceVars
  <1> QED BY <1>1, <1>2, <1>3, <1>4, <1>5, <1>6, <1>7, <1>8
          DEF Next, Step, Once!OnceNext

(* The store implements OnceStore: per key one operation takes effect, and  *)
(* every caller that gets a result gets that one.                           *)
THEOREM KeepsPromiseHolds == Spec => KeepsPromise
  <1>1. Init => Once!OnceInit
    BY DEF Init, Once!OnceInit
  <1>2. StoreInv /\ [Next]_storeVars => [Once!OnceNext]_(Once!onceVars)
    BY StepRefines
  <1> QED BY <1>1, <1>2, StoreInductive, PTL DEF Spec, KeepsPromise, Once!OnceSpec
=============================================================================
