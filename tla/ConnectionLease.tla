--------------------------- MODULE ConnectionLease ---------------------------
(***************************************************************************)
(* What the shared connection promises to those who use it, without        *)
(* pointers and counters: a session opens for the first user, everybody    *)
(* shares it, and once somebody has asked for it to be closed it closes    *)
(* the moment its last user leaves, at once if there is none.  The one     *)
(* exception is a user who joins again without leaving: the session then   *)
(* never closes (it is pinned).                                            *)
(***************************************************************************)
CONSTANTS
  Users,     \* who may use the session
  Params,    \* the parameters a session can be opened with
  NoParams   \* no session is open

VARIABLES
  session,   \* the parameters of the open session, or NoParams
  users,     \* its present users
  closing,   \* somebody has asked for it to be closed
  pinned     \* somebody has joined again without leaving

vars == <<session, users, closing, pinned>>

Init ==
  /\ session = NoParams
  /\ users = {}
  /\ closing = FALSE
  /\ pinned = FALSE

Joined(u) ==
  /\ users' = users \cup {u}
  /\ UNCHANGED closing

Open(u, p) ==
  /\ session = NoParams
  /\ session' = p
  /\ Joined(u)
  /\ UNCHANGED pinned

Join(u) ==
  /\ session # NoParams
  /\ pinned' = (pinned \/ u \in users)
  /\ Joined(u)
  /\ UNCHANGED session

(* The session goes if the remaining users are none and its end is wanted.  *)
CloseIfIdle(remaining, wanted) ==
  /\ users' = remaining
  /\ IF remaining = {} /\ wanted /\ ~pinned
       THEN /\ session' = NoParams
            /\ closing' = FALSE
            /\ UNCHANGED pinned
       ELSE /\ closing' = wanted
            /\ UNCHANGED <<session, pinned>>

Leave(u) ==
  /\ u \in users
  /\ CloseIfIdle(users \ {u}, closing)

RequestClose ==
  /\ session # NoParams
  /\ CloseIfIdle(users, TRUE)

(* One passes its use on to another who is not a user.                      *)
HandOver(from, to) ==
  /\ from \in users
  /\ to \notin users
  /\ users' = (users \ {from}) \cup {to}
  /\ UNCHANGED <<session, closing, pinned>>

Next ==
  \/ \E u \in Users : Join(u) \/ Leave(u) \/ \E p \in Params : Open(u, p)
  \/ \E u, v \in Users : HandOver(u, v)
  \/ RequestClose

Spec == Init /\ [][Next]_vars
=============================================================================
