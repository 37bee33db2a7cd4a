----------------------------- MODULE OnceStore -----------------------------
(***************************************************************************)
(* What an idempotency store promises: for every key at most one operation *)
(* takes effect, and every caller that gets a result for the key gets the  *)
(* result of that operation.  A caller may fail; a failure leaves the key  *)
(* open for another caller.                                                *)
(***************************************************************************)
CONSTANTS
    Callers,   \* one element per call of Execute
    Keys,      \* keys after trimming
    NoKey,     \* the caller has not named its key yet
    NoCaller   \* no operation has taken effect yet

VARIABLES
    winner,   \* for each key the caller whose operation took effect
    asked,    \* for each caller the key it asked for
    answer    \* for each caller the answer it got

onceVars == <<winner, asked, answer>>

Pending == [state |-> "pending"]
Failed == [state |-> "failed"]
Result(c, hit) == [state |-> "ok", from |-> c, hit |-> hit]

OnceInit ==
    /\ winner = [k \in Keys |-> NoCaller]
    /\ asked = [c \in Callers |-> NoKey]
    /\ answer = [c \in Callers |-> Pending]

Ask(c, k) ==
    /\ asked[c] = NoKey
    /\ asked' = [asked EXCEPT ![c] = k]
    /\ UNCHANGED <<winner, answer>>

(* The operation of c is the one that takes effect for its key. *)
Commit(c, k) ==
    /\ answer[c] = Pending
    /\ asked[c] = k
    /\ winner[k] = NoCaller
    /\ winner' = [winner EXCEPT ![k] = c]
    /\ answer' = [answer EXCEPT ![c] = Result(c, FALSE)]
    /\ UNCHANGED asked

(* c gets the result that took effect for its key earlier. *)
Replay(c, k) ==
    /\ answer[c] = Pending
    /\ asked[c] \in {NoKey, k}
    /\ asked' = [asked EXCEPT ![c] = k]
    /\ winner[k] # NoCaller
    /\ answer' = [answer EXCEPT ![c] = Result(winner[k], TRUE)]
    /\ UNCHANGED winner

Fail(c) ==
    /\ answer[c] = Pending
    /\ answer' = [answer EXCEPT ![c] = Failed]
    /\ UNCHANGED <<winner, asked>>

OnceNext ==
    \E c \in Callers :
        \/ Fail(c)
        \/ \E k \in Keys : Ask(c, k) \/ Commit(c, k) \/ Replay(c, k)

OnceSpec == OnceInit /\ [][OnceNext]_onceVars
=============================================================================
