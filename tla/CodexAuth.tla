----------------------------- MODULE CodexAuth -----------------------------
(***************************************************************************)
(* Device sign-ins with Codex: src/agents/codex/codexAuthService.ts.       *)
(* Members start, cancel and complete sign-ins at any time; the account    *)
(* server is asked between the check that no sign-in is in progress and    *)
(* the assignment, so several may be under way.  Each has a timer; only    *)
(* the timer of the last one can still be cleared.                         *)
(***************************************************************************)
EXTENDS Naturals

CONSTANT Logins     \* bound: sign-ins that are started

VARIABLES
    login,      \* of each sign-in: where startDeviceLogin stands
    activeLogin,
    timer,      \* loginExpiryTimer: the sign-in it belongs to
    ticking     \* timers that will fire

authVars == <<login, activeLogin, timer, ticking>>

NoLogin == "no login"

AuthInit ==
    /\ login = [l \in Logins |-> "none"]
    /\ activeLogin = NoLogin
    /\ timer = NoLogin
    /\ ticking = {}

\* startDeviceLogin up to its request, and after it.
StartDeviceLogin(l) ==
    /\ login[l] = "none"
    /\ login' = [login EXCEPT ![l] = IF activeLogin = NoLogin THEN "asking" ELSE "refused"]
    /\ UNCHANGED <<activeLogin, timer, ticking>>

LoginStarted(l) ==
    /\ login[l] = "asking"
    /\ \/ /\ login' = [login EXCEPT ![l] = "shown"]
          /\ activeLogin' = l
          /\ timer' = l
          /\ ticking' = ticking \cup {l}
       \/ /\ login' = [login EXCEPT ![l] = "refused"]
          /\ UNCHANGED <<activeLogin, timer, ticking>>

\* clearActiveLogin
ClearActiveLogin ==
    /\ activeLogin' = NoLogin
    /\ ticking' = ticking \ {timer}
    /\ timer' = NoLogin

\* A timer fires: it clears whichever sign-in is active.
LoginExpires ==
    /\ \E l \in ticking : IF l = timer THEN ClearActiveLogin
                          ELSE /\ activeLogin' = NoLogin
                               /\ ticking' = ticking \ {l, timer}
                               /\ timer' = NoLogin
    /\ UNCHANGED login

\* account/login/completed for this sign-in or none in particular, logout.
LoginCompletes ==
    /\ ClearActiveLogin
    /\ UNCHANGED login

\* cancelLogin, close
CancelLogin ==
    /\ activeLogin # NoLogin
    /\ ClearActiveLogin
    /\ UNCHANGED login

AuthNext ==
    \/ \E l \in Logins : StartDeviceLogin(l) \/ LoginStarted(l)
    \/ LoginExpires
    \/ LoginCompletes
    \/ CancelLogin

AuthFairness == WF_authVars(LoginExpires)

-----------------------------------------------------------------------------
\* However sign-ins overlap, none stays "already in progress" for ever.
LoginLapses == (activeLogin # NoLogin) ~> (activeLogin = NoLogin)
=============================================================================
