---------------------------- MODULE SessionStore ----------------------------
(***************************************************************************)
(* internal/auth/session_store.go, one action per instruction that another *)
(* goroutine can observe.  Writers hold the mutex from Lock to the         *)
(* deferred Unlock; Snapshot takes no lock and reads the atomic.Value.     *)
(* ReplaceIfUnchanged loads the value, compares it with the credential the *)
(* caller expects, and stores the candidate in a later step.               *)
(*                                                                         *)
(* The validation ReplaceAfter runs is the caller's function: it succeeds  *)
(* or fails, and runs before the mutex is taken.                           *)
(***************************************************************************)
CONSTANTS
    Callers,       \* goroutines that use one store
    Credentials,   \* usable username/password pairs
    Nil,           \* the nil interface an empty atomic.Value loads as
    NoHolder       \* nobody holds the mutex

ASSUME SentinelAssumption ==
    /\ Nil \notin Credentials
    /\ NoHolder \notin Callers
    /\ (Credentials \cup {Nil}) \cap {"pending", "stored", "refused"} = {}

VARIABLES
    value,    \* the atomic.Value
    mu,       \* the goroutine holding the mutex, NoHolder when it is free
    point,    \* where each goroutine is
    op,       \* the call it is in
    answer    \* what the call will return

storeVars == <<value, mu, point, op, answer>>

Atomic == INSTANCE CredentialRegister WITH active <- value, NoCred <- Nil

Operations == Atomic!Operations

StoreTypeOK ==
    /\ value \in Atomic!Contents
    /\ mu \in Callers \cup {NoHolder}
    /\ point \in [Callers -> {"idle", "validate", "lock", "load", "store", "unlock", "return"}]
    /\ op \in [Callers -> Operations \cup {Atomic!NoOp}]
    /\ answer \in [Callers -> Atomic!Answers]

StoreInit ==
    /\ value = Nil
    /\ mu = NoHolder
    /\ point = [p \in Callers |-> "idle"]
    /\ op = [p \in Callers |-> Atomic!NoOp]
    /\ answer = [p \in Callers |-> "pending"]

\* The first thing each method does.
Entry(o) ==
    IF o.kind = "Snapshot" THEN "load"
    ELSE IF o.kind = "ReplaceAfter" THEN "validate"
    ELSE "lock"

Invoke(p, o) ==
    /\ point[p] = "idle"
    /\ point' = [point EXCEPT ![p] = Entry(o)]
    /\ op' = [op EXCEPT ![p] = o]
    /\ answer' = [answer EXCEPT ![p] = "pending"]
    /\ UNCHANGED <<value, mu>>

\* ReplaceAfter: a failed validation returns its error; a passed one goes on to Replace.
Validate(p) ==
    /\ point[p] = "validate"
    /\ \/ /\ point' = [point EXCEPT ![p] = "lock"]
          /\ UNCHANGED answer
       \/ /\ point' = [point EXCEPT ![p] = "return"]
          /\ answer' = [answer EXCEPT ![p] = "refused"]
    /\ UNCHANGED <<value, mu, op>>

LockSkippingComparison(p) ==
    /\ point[p] = "lock"
    /\ mu = NoHolder
    /\ mu' = p
    /\ point' = [point EXCEPT ![p] = "store"]
    /\ UNCHANGED <<value, op, answer>>

Lock(p) ==
    /\ point[p] = "lock"
    /\ mu = NoHolder
    /\ mu' = p
    /\ point' = [point EXCEPT ![p] = IF op[p].kind = "ReplaceIfUnchanged" THEN "load" ELSE "store"]
    /\ UNCHANGED <<value, op, answer>>

\* Snapshot: one atomic load, without the mutex.
Snapshot(p) ==
    /\ point[p] = "load"
    /\ op[p].kind = "Snapshot"
    /\ answer' = [answer EXCEPT ![p] = value]
    /\ point' = [point EXCEPT ![p] = "return"]
    /\ UNCHANGED <<value, mu, op>>

RefuseKeepingTheMutex(p) ==
    /\ point[p] = "load"
    /\ op[p].kind = "ReplaceIfUnchanged"
    /\ \/ /\ value = op[p].expected
          /\ point' = [point EXCEPT ![p] = "store"]
          /\ UNCHANGED answer
       \/ /\ value # op[p].expected
          /\ point' = [point EXCEPT ![p] = "return"]
          /\ answer' = [answer EXCEPT ![p] = "refused"]
    /\ UNCHANGED <<value, mu, op>>

\* ReplaceIfUnchanged, lines 52-59: load and compare; only a match goes on to the store.
LoadAndCompare(p) ==
    /\ point[p] = "load"
    /\ op[p].kind = "ReplaceIfUnchanged"
    /\ \/ /\ value = op[p].expected
          /\ point' = [point EXCEPT ![p] = "store"]
          /\ UNCHANGED answer
       \/ /\ value # op[p].expected
          /\ point' = [point EXCEPT ![p] = "unlock"]
          /\ answer' = [answer EXCEPT ![p] = "refused"]
    /\ UNCHANGED <<value, mu, op>>

Store(p) ==
    /\ point[p] = "store"
    /\ value' = op[p].candidate
    /\ answer' = [answer EXCEPT ![p] = "stored"]
    /\ point' = [point EXCEPT ![p] = "unlock"]
    /\ UNCHANGED <<mu, op>>

Unlock(p) ==
    /\ point[p] = "unlock"
    /\ mu' = NoHolder
    /\ point' = [point EXCEPT ![p] = "return"]
    /\ UNCHANGED <<value, op, answer>>

Return(p) ==
    /\ point[p] = "return"
    /\ point' = [point EXCEPT ![p] = "idle"]
    /\ op' = [op EXCEPT ![p] = Atomic!NoOp]
    /\ UNCHANGED <<value, mu, answer>>

\* The steps of a goroutine that is inside a method.
StoreStep(p) ==
    \/ Validate(p) \/ Lock(p) \/ Snapshot(p) \/ LoadAndCompare(p)
    \/ Store(p) \/ Unlock(p) \/ Return(p)

StoreNext ==
    \E p \in Callers :
        \/ \E o \in Operations : Invoke(p, o)
        \/ StoreStep(p)

StoreSpec == StoreInit /\ [][StoreNext]_storeVars

(***************************************************************************)
(* A goroutine inside a method keeps running; sync.Mutex hands itself to a *)
(* waiter that has starved for a millisecond, so a waiter that finds the   *)
(* mutex free again and again gets it (strong fairness).  Nobody is forced *)
(* to call.                                                                *)
(***************************************************************************)
StoreFairness == \A p \in Callers : WF_storeVars(StoreStep(p)) /\ SF_storeVars(Lock(p))

StoreFairSpec == StoreSpec /\ StoreFairness

-----------------------------------------------------------------------------
(* The mutex is held exactly by the goroutine between Lock and Unlock, and *)
(* while a ReplaceIfUnchanged sits between its comparison and its store    *)
(* nobody else can have changed the value it compared with.                *)
Holding(p) ==
    \/ point[p] \in {"store", "unlock"}
    \/ point[p] = "load" /\ op[p].kind = "ReplaceIfUnchanged"

ComparisonStillHolds ==
    /\ \A p \in Callers : Holding(p) <=> mu = p
    /\ \A p \in Callers :
        point[p] = "store" /\ op[p].kind = "ReplaceIfUnchanged" => value = op[p].expected

(* The store never goes back to empty: no sequence of calls, failed        *)
(* validations included, ends an authenticated session.                    *)
NeverEmptiedAgain == [][value # Nil => value' # Nil]_value

(* Every call of the store returns, whatever the other goroutines call.    *)
EveryCallReturns == \A p \in Callers : point[p] # "idle" ~> point[p] = "idle"

(* Every method takes effect atomically between its call and its return.   *)
RegisterSpec == Atomic!Spec
=============================================================================
