------------------------------- MODULE Session -------------------------------
(***************************************************************************)
(* What a client sees of the server: requests it opens are answered at     *)
(* most once, and never after it has revoked them; a request with nothing  *)
(* to answer stays silent, and so does a revoked one; a handler may break. *)
(* Only a session that aborts loses requests, and it accepts no others.    *)
(* The session is over when no request is open any more.                   *)
(***************************************************************************)

CONSTANTS
    Request,
    Revocable,  \* the requests a client can cancel while they run
    Exit,       \* the requests that end the session
    Mute        \* the requests that are not to be answered

VARIABLES
    phase,      \* "accepting", "draining" or "over"
    aborting,   \* the session gives up what is open
    state       \* what has become of each request

vars == <<phase, aborting, state>>

Open == {"open", "revoked"}

Init ==
    /\ phase = "accepting" /\ aborting = FALSE
    /\ state = [r \in Request |-> "unread"]

Become(r, s) == state' = [state EXCEPT ![r] = s]

Accept(r) ==
    /\ phase = "accepting" /\ ~aborting
    /\ state[r] = "unread"
    /\ Become(r, "open")
    /\ phase' = IF r \in Exit THEN "draining" ELSE "accepting"
    /\ UNCHANGED aborting

Revoke(r) ==
    /\ phase # "over"
    /\ r \in Revocable /\ state[r] = "open"
    /\ Become(r, "revoked")
    /\ UNCHANGED <<phase, aborting>>

Answer(r) ==
    /\ state[r] = "open" /\ r \notin Mute
    /\ Become(r, "answered")
    /\ UNCHANGED <<phase, aborting>>

Silence(r) ==
    /\ \/ state[r] = "revoked"
       \/ state[r] = "open" /\ r \in Mute
    /\ Become(r, "silent")
    /\ UNCHANGED <<phase, aborting>>

Break(r) ==
    /\ state[r] \in Open
    /\ Become(r, "broken")
    /\ UNCHANGED <<phase, aborting>>

Lose(r) ==
    /\ state[r] \in Open
    /\ Become(r, "lost")
    /\ aborting' = TRUE
    /\ UNCHANGED phase

Stop ==
    /\ phase = "accepting"
    /\ phase' = "draining"
    /\ aborting' \in {aborting, TRUE}
    /\ UNCHANGED state

Close ==
    /\ phase = "draining" /\ \A r \in Request : state[r] \notin Open
    /\ phase' = "over"
    /\ UNCHANGED <<aborting, state>>

Next ==
    \/ \E r \in Request : \/ Accept(r) \/ Revoke(r)
                          \/ Answer(r) \/ Silence(r) \/ Break(r) \/ Lose(r)
    \/ Stop \/ Close

Spec == Init /\ [][Next]_vars
=============================================================================
