---------------------------- MODULE StartupFence ----------------------------
(***************************************************************************)
(* What the update gate promises, without files, locks or helpers: a        *)
(* session does not begin while an installation replaces the application,   *)
(* an installation does not begin while a session runs, and a session is    *)
(* called fresh only when it found no other one.                            *)
(***************************************************************************)
CONSTANTS Workbench, Helper
VARIABLES
    sessions,     \* the workbenches that run
    fresh,        \* those of them that count as a fresh session
    installing    \* the helper that may replace the application, if any
fence == <<sessions, fresh, installing>>

Init == sessions = {} /\ fresh = {} /\ installing = {}

Begin(w) ==
    /\ installing = {} /\ w \notin sessions
    /\ sessions' = sessions \cup {w}
    /\ \/ fresh' = fresh
       \/ sessions = {} /\ fresh' = {w}
    /\ UNCHANGED installing

End(w) ==
    /\ w \in sessions
    /\ sessions' = sessions \ {w}
    /\ fresh' = fresh \ {w}
    /\ UNCHANGED installing

Install(h) ==
    /\ installing = {} /\ sessions = {}
    /\ installing' = {h}
    /\ UNCHANGED <<sessions, fresh>>

Finish ==
    /\ installing # {}
    /\ installing' = {}
    /\ UNCHANGED <<sessions, fresh>>

Next ==
    \/ \E w \in Workbench : Begin(w) \/ End(w)
    \/ \E h \in Helper : Install(h)
    \/ Finish

Spec == Init /\ [][Next]_fence
=============================================================================
