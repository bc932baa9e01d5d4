------------------------------ MODULE Accounts ------------------------------
(***************************************************************************)
(* Who may do what at the dashboard (store.py, server.py).  A request is   *)
(* handled in two or three transactions: who is it, may he, and what he    *)
(* asked for; other requests come in between.  The users exist, there is   *)
(* one game server, and everyone signs in from one address.                *)
(***************************************************************************)
EXTENDS Naturals, FiniteSets

CONSTANTS
    Users, Admins,
    Threads,                     \* requests handled at a time
    None,
    AddressLimit, AccountLimit,  \* 40 and 8
    Window,                      \* 300000 ms
    Patience,                    \* the longest wait for the database
    Life,                        \* session_hours, and the hours of a link
    MaxTime,                     \* bound of the model
    MaxSecrets,                  \* bound of the model
    MaxRequests                  \* bound of the model

ASSUME AccountsAssumption ==
    /\ Admins \subseteq Users /\ Admins # {} /\ None \notin Users
    /\ {AddressLimit, AccountLimit, Window, Patience, Life} \subseteq Nat
    /\ {MaxTime, MaxSecrets, MaxRequests} \subseteq Nat
    /\ Patience <= Window

VARIABLES
    clock,
    active,       \* users that are not disabled
    role,         \* grants
    issued,       \* the secrets that were handed out
    rows,         \* those a lookup finds
    attempts,     \* login_attempts
    tried,        \* what was attempted lately, and when
    call,         \* of each thread
    requests,
    crossed       \* a user was disabled by one who was disabled himself

vars == <<clock, active, role, issued, rows, attempts, tried, call, requests,
          crossed>>

Level == [none |-> 0, viewer |-> 1, operator |-> 2, manager |-> 3]
Roles == DOMAIN Level
Never == MaxTime + Life + 1
Secret(kind, holder, expires) ==
    [kind |-> kind, holder |-> holder, id |-> Cardinality(issued),
     expires |-> expires]
Kind(kind) == {s \in rows : s.kind = kind}

Idle == [step |-> "idle", who |-> None, at |-> 0, void |-> FALSE]
Agent == [kind |-> "agent", holder |-> None, id |-> 0, expires |-> Never]

TypeOK ==
    /\ clock \in 0..MaxTime /\ active \subseteq Users
    /\ role \in [Users -> Roles]
    /\ rows \subseteq issued /\ Cardinality(issued) <= MaxSecrets
    /\ \A t \in Threads : call[t].void \in BOOLEAN /\ call[t].at \in Nat
    /\ requests \in 0..MaxRequests /\ crossed \in BOOLEAN

Init ==
    /\ clock = 0 /\ active = Users /\ role = [u \in Users |-> "none"]
    /\ issued = {Agent} /\ rows = issued
    /\ attempts = {} /\ tried = {}
    /\ call = [t \in Threads |-> Idle]
    /\ requests = 0 /\ crossed = FALSE

Begin(t, new) ==
    /\ call[t] = Idle /\ requests < MaxRequests
    /\ requests' = requests + 1
    /\ call' = [call EXCEPT ![t] = new]

End(t) == call' = [call EXCEPT ![t] = Idle]
Go(t, step) == call' = [call EXCEPT ![t].step = step]

\* A new secret, and the rows that are left beside it.
Issue(s, left) ==
    /\ Cardinality(issued) < MaxSecrets
    /\ issued' = issued \cup {s} /\ rows' = left \cup {s}
-----------------------------------------------------------------------------
(* Signing in.                                                             *)

\* The time is read before the transaction begins.
Login(t, u) ==
    /\ Begin(t, [Idle EXCEPT !.step = "attempt", !.who = u, !.at = clock])
    /\ UNCHANGED <<clock, active, role, issued, rows, attempts, tried, crossed>>

\* (Mutant: one more is let through.)
FullAfter(some, limit) == Cardinality(some) > limit
Full(some, limit) == Cardinality(some) >= limit

Recent(since) == {a \in attempts : a.at + Window >= since}

\* A sign-in attempt that is refused is rolled back, the clearing included.
Attempt(t) ==
    LET c == call[t]
        kept == Recent(c.at)
        n == CHOOSE k \in 1..(Cardinality(attempts \cup tried) + 1) :
                \A a \in attempts \cup tried : a.n # k
        new == [n |-> n, user |-> c.who, at |-> c.at, when |-> clock]
        lately == {a \in tried : a.when + Window - Patience >= clock}
    IN
    /\ c.step = "attempt"
    /\ IF \/ Full(kept, AddressLimit)
          \/ Full({a \in kept : a.user = c.who}, AccountLimit)
       THEN End(t) /\ UNCHANGED <<attempts, tried>>
       ELSE /\ attempts' = kept \cup {new}
            /\ tried' = lately \cup {new}
            /\ IF c.who \in active THEN Go(t, "verify") ELSE End(t)
    /\ UNCHANGED <<clock, active, role, issued, rows, requests, crossed>>

WrongPassword(t) ==
    /\ call[t].step = "verify"
    /\ End(t)
    /\ UNCHANGED <<clock, active, role, issued, rows, attempts, tried, requests,
                   crossed>>

\* The user was active, and the password right, when the row was read.
OpenSession(t) ==
    LET c == call[t]
        expired == {s \in Kind("session") : s.expires < c.at}
    IN
    /\ c.step = "verify"
    /\ Issue(Secret("session", c.who, c.at + Life), rows \ expired)
    /\ End(t)
    /\ UNCHANGED <<clock, active, role, attempts, tried, requests, crossed>>
-----------------------------------------------------------------------------
(* A request with a secret.                                                *)

\* What was withdrawn: ended, replaced, revoked, expired, or its user
\* disabled.
Void(s) == s \notin rows \/ s.expires <= clock \/ s.holder \in Users \ active

Request(t, s) ==
    /\ Begin(t, [Idle EXCEPT !.step = "who", !.who = s, !.void = Void(s)])
    /\ UNCHANGED <<clock, active, role, issued, rows, attempts, tried, crossed>>

\* session, agent, runtime_key and shared.  (Mutant: a session is looked up
\* without its user.)
HasRow(s) == s \in rows /\ s.expires > clock
Found(s) == HasRow(s) /\ (s.kind = "session" => s.holder \in active)

\* What agents, scripts and readers of a link do is not followed.
Authenticate(t) ==
    /\ call[t].step = "who"
    /\ IF Found(call[t].who)
       THEN Go(t, IF call[t].who.kind = "session" THEN "may" ELSE "look")
       ELSE End(t)
    /\ UNCHANGED <<clock, active, role, issued, rows, attempts, tried, requests,
                   crossed>>

\* What the endpoints require of the server's role, or of an administrator.
Needs == [look |-> "viewer", annotate |-> "operator", share |-> "manager",
          unshare |-> "manager", key |-> "manager", unkey |-> "manager"]
ForAdmins == {"grant", "disable", "rotate"}
ForAll == {"logout"}

May(u, what) ==
    \/ what \in ForAll \/ u \in Admins
    \/ what \in DOMAIN Needs /\ Level[role[u]] >= Level[Needs[what]]

Require(t) ==
    /\ call[t].step = "may"
    /\ \/ \E what \in ForAll \cup ForAdmins \cup DOMAIN Needs :
            May(call[t].who.holder, what) /\ Go(t, what)
       \/ End(t)
    /\ UNCHANGED <<clock, active, role, issued, rows, attempts, tried, requests,
                   crossed>>

\* Reads, and notes that nothing here depends on.
Look(t) ==
    /\ call[t].step \in {"look", "annotate"}
    /\ End(t)
    /\ UNCHANGED <<active, role, issued, rows, crossed>>

Logout(t) ==
    /\ call[t].step = "logout"
    /\ rows' = rows \ {call[t].who}
    /\ End(t) /\ UNCHANGED <<active, role, issued, crossed>>

\* share, create_runtime_key and rotate_server.
New(t) ==
    /\ \/ /\ call[t].step = "share"
          /\ Issue(Secret("share", None, clock + Life), rows)
       \/ /\ call[t].step = "key"
          /\ Issue(Secret("runtime", None, Never), rows)
       \/ /\ call[t].step = "rotate"
          /\ Issue(Secret("agent", None, Never), rows \ Kind("agent"))
    /\ End(t) /\ UNCHANGED <<active, role, crossed>>

\* revoke_shares and revoke_runtime_key.
Revoke(t) ==
    /\ \/ call[t].step = "unshare" /\ rows' = rows \ Kind("share")
       \/ /\ call[t].step = "unkey"
          /\ \E k \in Kind("runtime") : rows' = rows \ {k}
    /\ End(t) /\ UNCHANGED <<active, role, issued, crossed>>

\* A grant to an administrator changes nothing.
Grant(t) ==
    /\ call[t].step = "grant"
    /\ \E u \in Users \ Admins, r \in Roles : role' = [role EXCEPT ![u] = r]
    /\ End(t) /\ UNCHANGED <<active, issued, rows, crossed>>

\* (Mutant: one's own account too.)
Anyone(u) == Users
Others(u) == Users \ {u}

Disable(t) ==
    LET actor == call[t].who.holder IN
    /\ call[t].step = "disable"
    /\ \E u \in Others(actor) :
        /\ active' = active \ {u}
        /\ rows' = rows \ {s \in Kind("session") : s.holder = u}
        /\ crossed' = (crossed \/ actor \notin active)
    /\ End(t) /\ UNCHANGED <<role, issued>>

Act(t) ==
    /\ Look(t) \/ Logout(t) \/ New(t) \/ Revoke(t) \/ Grant(t) \/ Disable(t)
    /\ UNCHANGED <<clock, attempts, tried, requests>>
-----------------------------------------------------------------------------
\* The administrator's command line.
ResetPassword(u) ==
    /\ \E s \in Kind("session") : s.holder = u
    /\ rows' = rows \ {s \in Kind("session") : s.holder = u}
    /\ UNCHANGED <<clock, active, role, issued, attempts, tried, call, requests,
                   crossed>>

\* The report of the links is deleted: it is one of many.
RetireReport ==
    /\ Kind("share") # {}
    /\ rows' = rows \ Kind("share")
    /\ UNCHANGED <<clock, active, role, issued, attempts, tried, call, requests,
                   crossed>>

\* The database answers within its timeout.
Tick ==
    /\ clock < MaxTime
    /\ \A t \in Threads :
        call[t].step = "attempt" => clock < call[t].at + Patience
    /\ clock' = clock + 1
    /\ UNCHANGED <<active, role, issued, rows, attempts, tried, call, requests,
                   crossed>>

Next ==
    \/ Tick \/ RetireReport
    \/ \E u \in Users : ResetPassword(u)
    \/ \E t \in Threads :
        \/ \E u \in Users : Login(t, u)
        \/ \E s \in issued : Request(t, s)
        \/ Attempt(t) \/ WrongPassword(t) \/ OpenSession(t)
        \/ Authenticate(t) \/ Require(t) \/ Act(t)

Spec == Init /\ [][Next]_vars
-----------------------------------------------------------------------------
(* A request that begins after its secret was withdrawn is not served: not *)
(* after logout, rotation, revocation or expiry, and not for a disabled    *)
(* user, even if a login that was under way opens a session for him        *)
(* afterwards (login, session, disable_user).                              *)
WithdrawnStays ==
    \A t \in Threads : call[t].void => call[t].step \in {"idle", "who"}

(* However many sign in at once and wait for the database, within a window *)
(* (but for the time one may wait) no more passwords are verified than the *)
(* limits of the address and of the account (login).                       *)
AttemptsBounded ==
    \A first \in tried :
        LET within == {a \in tried : /\ a.when >= first.when
                                     /\ a.when <= first.when + Window - Patience}
        IN
        /\ Cardinality(within) <= AddressLimit
        /\ \A u \in Users :
            Cardinality({a \in within : a.user = u}) <= AccountLimit

(* The dashboard always has an administrator who can sign in, unless two   *)
(* have disabled each other at the same time (disable_user).               *)
AdminRemains == Admins \cap active # {} \/ crossed
=============================================================================
