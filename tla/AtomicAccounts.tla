--------------------------- MODULE AtomicAccounts ---------------------------
(***************************************************************************)
(* What the account store promises to those who register: an account is    *)
(* stored in one step, together with the answer that says so, and stays.   *)
(***************************************************************************)
CONSTANTS Names, Requests, None

VARIABLES stored,       \* the request that set the password of each name
          acknowledged  \* the requests that were told their account is stored

Init == /\ stored = [n \in Names |-> None]
        /\ acknowledged = {}

Store(n, q) ==
    /\ stored[n] = None
    /\ stored' = [stored EXCEPT ![n] = q]
    /\ acknowledged' = acknowledged \cup {q}

Next == \E n \in Names, q \in Requests : Store(n, q)

Spec == Init /\ [][Next]_<<stored, acknowledged>>
============================================================================
