--------------------------- MODULE SessionLifecycle ---------------------------
(***************************************************************************)
(* What session recovery promises the mining loop: at any time it holds at *)
(* most one session, every session it hands over runs on a client no       *)
(* earlier session used, session indexes count up from 1 without gaps, and *)
(* once it was closed it never holds a session again.                      *)
(***************************************************************************)
EXTENDS Naturals

VARIABLES
    held,          \* 0, or the client of the session held
    newest,        \* the newest client any session ever ran on
    sessions,      \* sessions handed over so far; the index of the last one
    closed

lifecycle_vars == <<held, newest, sessions, closed>>

Init ==
    /\ held = 0
    /\ newest = 0
    /\ sessions = 0
    /\ closed = FALSE

Install ==
    /\ ~closed
    /\ held = 0
    /\ held' > newest
    /\ newest' = held'
    /\ sessions' = sessions + 1
    /\ UNCHANGED closed

Drop ==
    /\ held # 0
    /\ held' = 0
    /\ UNCHANGED <<newest, sessions, closed>>

Close ==
    /\ ~closed
    /\ closed' = TRUE
    /\ held' = 0
    /\ UNCHANGED <<newest, sessions>>

Next == Install \/ Drop \/ Close

Spec == Init /\ [][Next]_lifecycle_vars
===============================================================================
