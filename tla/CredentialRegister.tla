------------------------- MODULE CredentialRegister -------------------------
(***************************************************************************)
(* What internal/auth/session_store.go promises: a register that holds at  *)
(* most one credential and whose operations take effect one at a time, at  *)
(* some instant between the moment they are called and the moment they     *)
(* return.  SessionStore.tla is the detailed model (mutex, atomic.Value)   *)
(* and is shown to implement this one.                                     *)
(***************************************************************************)
CONSTANTS
    Callers,       \* goroutines that use one store
    Credentials,   \* usable username/password pairs
    NoCred         \* the nil interface an empty atomic.Value loads as

Contents == Credentials \cup {NoCred}

\* The methods of SessionStore, with the arguments that matter to each.
Operations ==
         [kind : {"Snapshot"}]
    \cup [kind : {"Replace"}, candidate : Credentials]
    \cup [kind : {"ReplaceAfter"}, candidate : Credentials]
    \cup [kind : {"ReplaceIfUnchanged"}, candidate : Credentials, expected : Contents]

NoOp == [kind |-> "none"]

\* What a method hands back: a credential (Snapshot), or whether the
\* candidate was stored; "pending" until the operation has taken effect.
Answers == Contents \cup {"pending", "stored", "refused"}

VARIABLES
    active,   \* the credential the module currently uses
    op,       \* op[p]: the call p is in, NoOp outside any call
    answer    \* answer[p]: its result once it has taken effect

vars == <<active, op, answer>>

Init ==
    /\ active = NoCred
    /\ op = [p \in Callers |-> NoOp]
    /\ answer = [p \in Callers |-> "pending"]

Invoke(p, o) ==
    /\ op[p] = NoOp
    /\ op' = [op EXCEPT ![p] = o]
    /\ answer' = [answer EXCEPT ![p] = "pending"]
    /\ UNCHANGED active

Read(p) ==
    /\ op[p].kind = "Snapshot"
    /\ answer' = [answer EXCEPT ![p] = active]
    /\ UNCHANGED active

Write(p) ==
    /\ op[p].kind \in {"Replace", "ReplaceAfter"}
    /\ active' = op[p].candidate
    /\ answer' = [answer EXCEPT ![p] = "stored"]

\* ReplaceAfter leaves the register alone when the validation it was given fails.
Reject(p) ==
    /\ op[p].kind = "ReplaceAfter"
    /\ answer' = [answer EXCEPT ![p] = "refused"]
    /\ UNCHANGED active

CompareAndSwap(p) ==
    /\ op[p].kind = "ReplaceIfUnchanged"
    /\ \/ /\ active = op[p].expected
          /\ active' = op[p].candidate
          /\ answer' = [answer EXCEPT ![p] = "stored"]
       \/ /\ active # op[p].expected
          /\ answer' = [answer EXCEPT ![p] = "refused"]
          /\ UNCHANGED active

\* The single instant at which the operation takes effect.
TakeEffect(p) ==
    /\ answer[p] = "pending"
    /\ Read(p) \/ Write(p) \/ Reject(p) \/ CompareAndSwap(p)
    /\ UNCHANGED op

Return(p) ==
    /\ op[p] # NoOp
    /\ answer[p] # "pending"
    /\ op' = [op EXCEPT ![p] = NoOp]
    /\ UNCHANGED <<active, answer>>

Next ==
    \E p \in Callers :
        \/ \E o \in Operations : Invoke(p, o)
        \/ TakeEffect(p)
        \/ Return(p)

Spec == Init /\ [][Next]_vars
=============================================================================
