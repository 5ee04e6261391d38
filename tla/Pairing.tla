------------------------------ MODULE Pairing ------------------------------
(***************************************************************************)
(* What host.pair promises about challenges, without tables, queries or    *)
(* races: a challenge is spent once and for all before anything is paired  *)
(* under it, and a call that begins after that can no longer pair.  Calls  *)
(* that began earlier may each still pair: the promise the comments of     *)
(* host_pair.rs make about replays is exactly about later calls.           *)
(***************************************************************************)
CONSTANTS
    Call,       \* calls of the orchestrator
    Nonce,      \* what a call asks to be paired under
    None        \* no nonce: the call has not begun

VARIABLES
    nonce,      \* what each call is for, None until it begins
    spent,      \* the nonces that have been initiated
    barred,     \* calls that began after their nonce was spent
    paired      \* calls that paired

vars == <<nonce, spent, barred, paired>>

Init ==
    /\ nonce = [c \in Call |-> None]
    /\ spent = {}
    /\ barred = {}
    /\ paired = {}

Begin(c, n) ==
    /\ nonce[c] = None
    /\ nonce' = [nonce EXCEPT ![c] = n]
    /\ barred' = IF n \in spent THEN barred \cup {c} ELSE barred
    /\ UNCHANGED <<spent, paired>>

Spend(c) ==
    /\ nonce[c] # None /\ c \notin barred
    /\ spent' = spent \cup {nonce[c]}
    /\ UNCHANGED <<nonce, barred, paired>>

Pair(c) ==
    /\ nonce[c] \in spent /\ c \notin barred
    /\ paired' = paired \cup {c}
    /\ UNCHANGED <<nonce, spent, barred>>

Next == \E c \in Call : Spend(c) \/ Pair(c) \/ \E n \in Nonce : Begin(c, n)

Spec == Init /\ [][Next]_vars
=============================================================================
