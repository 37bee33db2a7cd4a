-------------------------- MODULE IdempotencyStore --------------------------
(***************************************************************************)
(* IdempotencyStore.Execute of internal/storage/memory, called by any      *)
(* number of goroutines.  The critical sections under s.mu are atomic; the *)
(* operation runs outside the lock, and so does the wait of a caller that  *)
(* found the key in flight.                                                *)
(*                                                                         *)
(* A caller stands for one call of Execute and a result is named by the    *)
(* caller whose operation produced it: that is what callers must agree on. *)
(* The idempotencyCall a caller allocates is named by that caller too.     *)
(***************************************************************************)
EXTENDS Naturals, FiniteSets

CONSTANTS
    Callers,     \* calls of Execute
    KeyText,     \* keys as callers write them
    TrimSpace,   \* strings.TrimSpace, a function on the texts
    Blank,       \* the empty string
    NoCaller     \* the nil *idempotencyCall

Keys == {TrimSpace[t] : t \in KeyText} \ {Blank}

ASSUME StoreAssumption ==
    /\ KeyText \subseteq DOMAIN TrimSpace
    /\ NoCaller \notin Callers

VARIABLES
    entries,    \* s.entries: the result cached for a key
    inFlight,   \* s.inFlight: the call running for a key
    call,       \* the idempotencyCall each caller allocated
    pc,         \* where each caller is in Execute
    key,        \* its trimmed key
    waitsOn,    \* the call it found in flight
    cancelled,  \* whether its context is done
    answer      \* what it returned

storeVars == <<entries, inFlight, call, pc, key, waitsOn, cancelled, answer>>

Once == INSTANCE OnceStore WITH NoKey <- Blank, winner <- entries, asked <- key

Answers == {Once!Pending, Once!Failed} \cup
           {Once!Result(c, hit) : c \in Callers, hit \in BOOLEAN}

OpenCall == [done |-> FALSE, err |-> FALSE]

Init ==
    /\ entries = [k \in Keys |-> NoCaller]
    /\ inFlight = [k \in Keys |-> NoCaller]
    /\ call = [c \in Callers |-> OpenCall]
    /\ pc = [c \in Callers |-> "start"]
    /\ key = [c \in Callers |-> Blank]
    /\ waitsOn = [c \in Callers |-> NoCaller]
    /\ cancelled = [c \in Callers |-> FALSE]
    /\ answer = [c \in Callers |-> Once!Pending]

-----------------------------------------------------------------------------
Return(c, a) ==
    /\ pc' = [pc EXCEPT ![c] = "returned"]
    /\ answer' = [answer EXCEPT ![c] = a]

TrimmedKey(text) == TrimSpace[text]

(* A blank key, or a context that is already done, fails before the lock.   *)
Refuse(c, text) ==
    /\ pc[c] = "start"
    /\ TrimmedKey(text) = Blank \/ cancelled[c]
    /\ Return(c, Once!Failed)
    /\ UNCHANGED <<entries, inFlight, call, key, waitsOn, cancelled>>

(* A variant of the next definition that looks the trimmed key up and goes  *)
(* on with the text as it came in.                                          *)
EnterUntrimmed(c, text) ==
    /\ pc[c] = "start"
    /\ TrimmedKey(text) # Blank
    /\ ~cancelled[c]
    /\ key' = [key EXCEPT ![c] = text]
    /\ UNCHANGED cancelled

(* The context is checked before the lock is taken and may be done by then. *)
(* Nothing depends on the time in between, so check and lock are one step.  *)
Enter(c, text) ==
    /\ pc[c] = "start"
    /\ TrimmedKey(text) # Blank
    /\ ~cancelled[c]
    /\ key' = [key EXCEPT ![c] = TrimmedKey(text)]
    /\ UNCHANGED cancelled

(* The key has a cached result. *)
Hit(c, text) ==
    LET k == TrimmedKey(text)
    IN  /\ Enter(c, text)
        /\ entries[k] # NoCaller
        /\ Return(c, Once!Result(entries[k], TRUE))
        /\ UNCHANGED <<entries, inFlight, call, waitsOn>>

(* The key is in flight: wait for that call outside the lock. *)
Join(c, text) ==
    LET k == TrimmedKey(text)
    IN  /\ Enter(c, text)
        /\ entries[k] = NoCaller
        /\ inFlight[k] # NoCaller
        /\ waitsOn' = [waitsOn EXCEPT ![c] = inFlight[k]]
        /\ pc' = [pc EXCEPT ![c] = "waiting"]
        /\ UNCHANGED <<entries, inFlight, call, answer>>

(* Own without the check that the key is in flight. *)
OwnBusyKey(c, text) ==
    LET k == TrimmedKey(text)
    IN  /\ Enter(c, text)
        /\ entries[k] = NoCaller
        /\ inFlight' = [inFlight EXCEPT ![k] = c]
        /\ pc' = [pc EXCEPT ![c] = "running"]
        /\ UNCHANGED <<entries, call, waitsOn, answer>>

(* The key is free: run the operation outside the lock. *)
Own(c, text) ==
    LET k == TrimmedKey(text)
    IN  /\ Enter(c, text)
        /\ entries[k] = NoCaller
        /\ inFlight[k] = NoCaller
        /\ inFlight' = [inFlight EXCEPT ![k] = c]
        /\ pc' = [pc EXCEPT ![c] = "running"]
        /\ UNCHANGED <<entries, call, waitsOn, answer>>

(* What the second critical section leaves in entries and in the call; the  *)
(* variants cache a failure, drop the error, and never close done.          *)
CacheAlways(c, err) == [entries EXCEPT ![key[c]] = c]

Cached(c, err) == IF err THEN entries ELSE [entries EXCEPT ![key[c]] = c]

ClosedWithoutError(c, err) == [call EXCEPT ![c] = [done |-> TRUE, err |-> FALSE]]

NeverClosed(c, err) == [call EXCEPT ![c].err = err]

Closed(c, err) == [call EXCEPT ![c] = [done |-> TRUE, err |-> err]]

(* The operation has returned: the second critical section. *)
Finish(c, err) ==
    /\ pc[c] = "running"
    /\ entries' = Cached(c, err)
    /\ call' = Closed(c, err)
    /\ inFlight' = [inFlight EXCEPT ![key[c]] = NoCaller]
    /\ Return(c, IF err THEN Once!Failed ELSE Once!Result(c, FALSE))
    /\ UNCHANGED <<key, waitsOn, cancelled>>

(* The two arms of the waiting select. *)
WaitDone(c) ==
    LET owner == waitsOn[c]
    IN  /\ pc[c] = "waiting"
        /\ call[owner].done
        /\ Return(c, IF call[owner].err THEN Once!Failed
                     ELSE Once!Result(owner, TRUE))
        /\ UNCHANGED <<entries, inFlight, call, key, waitsOn, cancelled>>

WaitCancelled(c) ==
    /\ pc[c] = "waiting"
    /\ cancelled[c]
    /\ Return(c, Once!Failed)
    /\ UNCHANGED <<entries, inFlight, call, key, waitsOn, cancelled>>

(* The caller's context is cancelled. *)
Cancel(c) ==
    /\ pc[c] # "returned"
    /\ ~cancelled[c]
    /\ cancelled' = [cancelled EXCEPT ![c] = TRUE]
    /\ UNCHANGED <<entries, inFlight, call, pc, key, waitsOn, answer>>

Step(c) ==
    \/ \E t \in KeyText : Refuse(c, t) \/ Hit(c, t) \/ Join(c, t) \/ Own(c, t)
    \/ \E err \in BOOLEAN : Finish(c, err)
    \/ WaitDone(c)
    \/ WaitCancelled(c)

Next == \E c \in Callers : Step(c) \/ Cancel(c)

Spec == Init /\ [][Next]_storeVars

(* A goroutine that can take a step of Execute takes it, and the operation  *)
(* handed to Execute returns; nothing makes a context be cancelled.         *)
FairSpec == Spec /\ \A c \in Callers : WF_storeVars(Step(c))

-----------------------------------------------------------------------------
(* Type correctness: entries and calls name callers, and a caller that is   *)
(* past the first critical section has a real key.                          *)
StoreTypeOK ==
    /\ entries \in [Keys -> Callers \cup {NoCaller}]
    /\ inFlight \in [Keys -> Callers \cup {NoCaller}]
    /\ call \in [Callers -> [done : BOOLEAN, err : BOOLEAN]]
    /\ pc \in [Callers -> {"start", "waiting", "running", "returned"}]
    /\ key \in [Callers -> Keys \cup {Blank}]
    /\ waitsOn \in [Callers -> Callers \cup {NoCaller}]
    /\ cancelled \in [Callers -> BOOLEAN]
    /\ answer \in [Callers -> Answers]

(* A key has at most one running operation, the one inFlight names, and     *)
(* none once a result is cached: the unlocked operation is never run twice. *)
OneRunningPerKey ==
    /\ \A c \in Callers : pc[c] = "running" =>
          /\ key[c] \in Keys
          /\ inFlight[key[c]] = c
          /\ entries[key[c]] = NoCaller
          /\ ~call[c].done
    /\ \A k \in Keys : inFlight[k] # NoCaller =>
          pc[inFlight[k]] = "running" /\ key[inFlight[k]] = k

(* No lost wake-up: the call a caller waits on is still running for its     *)
(* key, or it is done and, if it succeeded, is the cached result although   *)
(* the waiter reads it from the call and never looks at entries again.      *)
WaitersAreServed ==
    \A c \in Callers : pc[c] = "waiting" =>
        LET owner == waitsOn[c]
        IN  /\ owner \in Callers
            /\ key[c] \in Keys
            /\ key[owner] = key[c]
            /\ \/ pc[owner] = "running"
               \/ call[owner].done /\ (call[owner].err \/ entries[key[c]] = owner)

(* A caller that has not returned has no answer yet. *)
PendingUntilReturn ==
    \A c \in Callers : pc[c] # "returned" => answer[c] = Once!Pending

(* A caller that has not entered has named no key and its call is open. *)
UntouchedBeforeEntry ==
    \A c \in Callers : pc[c] = "start" => key[c] = Blank /\ ~call[c].done

(* The inductive invariant the refinement rests on: running operations are  *)
(* exclusive per key and every waiter's call stays readable.                *)
StoreInv ==
    /\ StoreTypeOK
    /\ OneRunningPerKey
    /\ WaitersAreServed
    /\ PendingUntilReturn
    /\ UntouchedBeforeEntry

(* The store keeps the promise of OnceStore: one effective operation per    *)
(* key, and every successful answer, cached, joined or own, is its result.  *)
KeepsPromise == Once!OnceSpec

(* Every call of Execute returns: no waiter is left behind. *)
EveryCallReturns == \A c \in Callers : <>(pc[c] = "returned")
=============================================================================
