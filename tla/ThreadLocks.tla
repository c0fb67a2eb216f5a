----------------------------- MODULE ThreadLocks -----------------------------
(***************************************************************************)
(* What the ActiveThreads map of the daemon promises to chat sessions: a   *)
(* lock on every thread.  A session holds at most one; a lock changes hands*)
(* only after it was released, and taking one gives the old one back.      *)
(* ChatThreads is shown to implement this.                                 *)
(***************************************************************************)
CONSTANTS Sessions, Threads, Nobody

VARIABLE owner

Init ==
    /\ owner \in [Threads -> Sessions \cup {Nobody}]
    /\ \A t, u \in Threads : owner[t] = owner[u] /\ owner[t] # Nobody => t = u

Acquire(s, t) ==
    /\ owner[t] \in {Nobody, s}
    /\ owner' = [u \in Threads |-> IF u = t THEN s
                                   ELSE IF owner[u] = s THEN Nobody ELSE owner[u]]

(* A session leaves its thread, the idle job drops locks that nobody used  *)
(* for a while, a restart of the daemon drops all of them.                 *)
Release(T) ==
    /\ T # {}
    /\ owner' = [t \in Threads |-> IF t \in T THEN Nobody ELSE owner[t]]

Next == \/ \E s \in Sessions, t \in Threads : Acquire(s, t)
        \/ \E T \in SUBSET Threads : Release(T)

Spec == Init /\ [][Next]_owner
=============================================================================
