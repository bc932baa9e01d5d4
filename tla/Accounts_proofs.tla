--------------------------- MODULE Accounts_proofs ---------------------------
(***************************************************************************)
(* WithdrawnStays, AdminRemains and AttemptsBounded for every value of the *)
(* constants: what was withdrawn never comes back, because no secret is    *)
(* issued twice, no user is enabled again and time does not run backwards. *)
(***************************************************************************)
EXTENDS Accounts, FiniteSetTheorems, TLAPS

Kinds == {"session", "share", "runtime", "agent"}
Steps == {"idle", "attempt", "verify", "who", "may"}
            \cup ForAll \cup ForAdmins \cup DOMAIN Needs
Secrets == [kind : Kinds, holder : Users \cup {None}, id : Nat, expires : Nat]
Calls == [step : Steps, who : Users \cup {None} \cup Secrets, at : Nat,
          void : BOOLEAN]

SecretInv ==
    /\ clock \in Nat
    /\ IsFiniteSet(issued) /\ issued \subseteq Secrets /\ rows \subseteq issued
    /\ \A s \in issued : /\ s.id < Cardinality(issued)
                         /\ s.kind = "session" \/ s.holder = None

CallOK(c) ==
    /\ c \in Calls
    /\ c.step \in {"attempt", "verify"} => c.who \in Users
    /\ c.step = "who" => c.who \in issued /\ (c.void => Void(c.who))
    /\ c.void => c.step \in {"idle", "who"}
    /\ c.step = "disable" => c.who.holder \in Admins

CallInv == DOMAIN call = Threads /\ call = [t \in Threads |-> call[t]]
           /\ \A t \in Threads : CallOK(call[t])

AdminInv == active \subseteq Users /\ AdminRemains

Inv == SecretInv /\ CallInv /\ AdminInv

LEMMA Constants ==
    /\ MaxTime \in Nat /\ Life \in Nat /\ Never \in Nat
    /\ Admins \subseteq Users /\ Admins # {} /\ None \notin Users
BY AccountsAssumption DEF AccountsAssumption, Never

\* A secret that is withdrawn stays withdrawn.
Onward ==
    /\ clock' \in Nat /\ clock <= clock' /\ active' \subseteq active
    /\ issued \subseteq issued'
    /\ \A s \in rows' : s \in rows \/ s \notin issued

LEMMA VoidStays ==
    ASSUME SecretInv, Onward, NEW s \in issued, Void(s)
    PROVE  Void(s)'
<1>1. s.expires \in Nat BY DEF SecretInv, Secrets
<1> QED BY <1>1 DEF Void, Onward, SecretInv

LEMMA OthersKept ==
    ASSUME SecretInv, CallInv, Onward, NEW t \in Threads, call'[t] = call[t]
    PROVE  CallOK(call[t])'
<1>1. CallOK(call[t]) BY DEF CallInv
<1>2. call[t].step = "who" /\ call[t].void => Void(call[t].who)'
  BY <1>1, VoidStays DEF CallOK
<1> QED BY <1>1, <1>2 DEF CallOK, Onward, Void

LEMMA CallsKept ==
    ASSUME SecretInv, CallInv, Onward, UNCHANGED call
    PROVE  CallInv'
BY OthersKept DEF CallInv

\* One thread takes a step.
LEMMA ThreadStep ==
    ASSUME SecretInv, CallInv, Onward, NEW t \in Threads, NEW c,
           call' = [call EXCEPT ![t] = c], CallOK(call[t])'
    PROVE  CallInv'
<1>1. \A u \in Threads : u # t => call'[u] = call[u] BY DEF CallInv
<1>2. \A u \in Threads : CallOK(call[u])' BY <1>1, OthersKept
<1>3. DOMAIN call' = Threads /\ call' = [u \in Threads |-> call'[u]]
  BY DEF CallInv
<1> QED BY <1>2, <1>3 DEF CallInv

LEMMA EndStep ==
    ASSUME SecretInv, CallInv, Onward, NEW t \in Threads, End(t)
    PROVE  CallInv'
<1>1. call'[t] = Idle BY DEF End, CallInv
<1>2. CallOK(call[t])' BY <1>1 DEF CallOK, Idle, Calls, Steps
<1> QED BY <1>2, ThreadStep DEF End

\* A step forward of a call that was found to be good.
LEMMA GoStep ==
    ASSUME SecretInv, CallInv, Onward, NEW t \in Threads, NEW step \in Steps,
           Go(t, step), step # "who", ~call[t].void,
           step \in {"attempt", "verify"} => call[t].who \in Users,
           step = "disable" => call[t].who.holder \in Admins
    PROVE  CallInv'
<1>1. CallOK(call[t]) BY DEF CallInv
<1>2. call'[t] = [call[t] EXCEPT !.step = step] BY DEF Go, CallInv
<1>3. /\ call'[t] \in Calls /\ call'[t].step = step
      /\ call'[t].void = call[t].void /\ call'[t].who = call[t].who
  BY <1>1, <1>2 DEF CallOK, Calls
<1>4. CallOK(call[t])' BY <1>3 DEF CallOK
<1> QED BY <1>4, ThreadStep DEF Go

LEMMA IssueStep ==
    ASSUME SecretInv, NEW kind \in Kinds, NEW holder \in Users \cup {None},
           NEW expires \in Nat, NEW left \in SUBSET rows,
           kind = "session" \/ holder = None,
           Issue(Secret(kind, holder, expires), left),
           UNCHANGED <<clock, active>>
    PROVE  SecretInv' /\ Onward
<1> DEFINE new == Secret(kind, holder, expires)
<1>1. Cardinality(issued) \in Nat BY FS_CardinalityType DEF SecretInv
<1>2. /\ new \in Secrets /\ new.id = Cardinality(issued)
      /\ new.kind = "session" \/ new.holder = None
  BY <1>1 DEF Secret, Secrets
<1>3. new \notin issued BY <1>1, <1>2 DEF SecretInv
<1>4. issued' = issued \cup {new} /\ rows' = left \cup {new} BY DEF Issue
<1> HIDE DEF new
<1>5. IsFiniteSet(issued') /\ Cardinality(issued') = Cardinality(issued) + 1
  BY <1>3, <1>4, FS_AddElement DEF SecretInv
<1>6. SecretInv'
  BY <1>1, <1>2, <1>4, <1>5 DEF SecretInv, Secrets
<1>7. clock \in Nat /\ clock <= clock BY DEF SecretInv
<1> QED BY <1>3, <1>4, <1>6, <1>7 DEF Onward

\* Rows that are deleted, and users that are disabled.
LEMMA WithdrawStep ==
    ASSUME SecretInv, rows' \subseteq rows, active' \subseteq active,
           UNCHANGED <<clock, issued>>
    PROVE  SecretInv' /\ Onward
BY DEF SecretInv, Onward

LEMMA AdminKept ==
    ASSUME AdminInv, UNCHANGED <<active, crossed>>
    PROVE  AdminInv'
BY DEF AdminInv, AdminRemains

LEMMA TickStep ==
    ASSUME Inv, Tick
    PROVE  Inv'
<1>1. SecretInv' /\ Onward BY DEF Inv, Tick, SecretInv, Onward
<1> QED BY <1>1, CallsKept, AdminKept DEF Inv, Tick

LEMMA LoginStep ==
    ASSUME Inv, NEW t \in Threads, NEW u \in Users, Login(t, u)
    PROVE  Inv'
<1> USE DEF Inv
<1>1. SecretInv' /\ Onward BY WithdrawStep DEF Login
<1>2. call'[t] = [step |-> "attempt", who |-> u, at |-> clock, void |-> FALSE]
  BY DEF Login, Begin, Idle, CallInv
<1>3. CallOK(call[t])' BY <1>2 DEF CallOK, Calls, Steps, SecretInv
<1> QED BY <1>1, <1>3, ThreadStep, AdminKept DEF Login, Begin

LEMMA RequestStep ==
    ASSUME Inv, NEW t \in Threads, NEW s \in issued, Request(t, s)
    PROVE  Inv'
<1> USE DEF Inv
<1>1. SecretInv' /\ Onward BY WithdrawStep DEF Request
<1>2. call'[t] = [step |-> "who", who |-> s, at |-> 0, void |-> Void(s)]
  BY DEF Request, Begin, Idle, CallInv
<1>3. s \in Secrets /\ Void(s) \in BOOLEAN BY DEF SecretInv, Void
<1>4. Void(s) => Void(s)' BY <1>1, VoidStays
<1>5. s \in issued' BY <1>1 DEF Onward
<1>6. CallOK(call[t])'
  BY <1>2, <1>3, <1>4, <1>5 DEF CallOK, Calls, Steps
<1> QED BY <1>1, <1>6, ThreadStep, AdminKept DEF Request, Begin

LEMMA SignInStep ==
    ASSUME Inv, NEW t \in Threads,
           Attempt(t) \/ WrongPassword(t) \/ OpenSession(t)
    PROVE  Inv'
<1> USE DEF Inv
<1>1. CallOK(call[t]) BY DEF CallInv
<1>2. CASE Attempt(t)
  <2>1. SecretInv' /\ Onward BY <1>2, WithdrawStep DEF Attempt
  <2>2. CASE End(t) BY <1>2, <2>1, <2>2, EndStep, AdminKept DEF Attempt
  <2>3. CASE Go(t, "verify")
    <3>1. ~call[t].void /\ call[t].who \in Users
      BY <1>1, <1>2 DEF Attempt, CallOK
    <3>2. CallInv' BY <2>1, <2>3, <3>1, GoStep DEF Steps
    <3> QED BY <1>2, <2>1, <3>2, AdminKept DEF Attempt
  <2> QED BY <1>2, <2>2, <2>3 DEF Attempt
<1>3. CASE WrongPassword(t)
  <2>1. SecretInv' /\ Onward BY <1>3, WithdrawStep DEF WrongPassword
  <2> QED BY <1>3, <2>1, EndStep, AdminKept DEF WrongPassword
<1>4. CASE OpenSession(t)
  <2>1. call[t].who \in Users /\ call[t].at \in Nat
    BY <1>1, <1>4 DEF OpenSession, CallOK, Calls
  <2>2. call[t].at + Life \in Nat BY <2>1, Constants
  <2>3. PICK left \in SUBSET rows :
            Issue(Secret("session", call[t].who, call[t].at + Life), left)
    BY <1>4 DEF OpenSession
  <2>4. SecretInv' /\ Onward
    BY <1>4, <2>1, <2>2, <2>3, IssueStep DEF OpenSession, Kinds
  <2> QED BY <1>4, <2>4, EndStep, AdminKept DEF OpenSession
<1> QED BY <1>2, <1>3, <1>4

\* A secret that is found was not withdrawn.
LEMMA AuthenticateStep ==
    ASSUME Inv, NEW t \in Threads, Authenticate(t) \/ Require(t)
    PROVE  Inv'
<1> USE DEF Inv
<1>1. CallOK(call[t]) BY DEF CallInv
<1>2. SecretInv' /\ Onward /\ AdminInv'
  BY WithdrawStep, AdminKept DEF Authenticate, Require
<1>3. CASE End(t) BY <1>2, <1>3, EndStep
<1>4. CASE Authenticate(t) /\ ~End(t)
  <2>1. Found(call[t].who) /\ (Go(t, "may") \/ Go(t, "look"))
    BY <1>4 DEF Authenticate
  <2>2. ~Void(call[t].who)
    <3>1. call[t].who \in issued BY <1>1, <1>4 DEF Authenticate, CallOK
    <3>2. call[t].who.expires \in Nat BY <3>1 DEF SecretInv, Secrets
    <3> QED BY <2>1, <3>1, <3>2, Constants
            DEF Found, HasRow, Void, SecretInv
  <2>3. ~call[t].void
    BY <1>1, <1>4, <2>2 DEF Authenticate, CallOK, Calls
  <2>4. "may" \in Steps /\ "look" \in Steps BY DEF Steps, Needs
  <2> QED BY <1>2, <2>1, <2>3, <2>4, GoStep
<1>5. CASE Require(t) /\ ~End(t)
  <2>1. PICK what \in ForAll \cup ForAdmins \cup DOMAIN Needs :
            May(call[t].who.holder, what) /\ Go(t, what)
    BY <1>5 DEF Require
  <2>2. ~call[t].void BY <1>1, <1>5 DEF Require, CallOK
  <2>3. what \in Steps /\ what \notin {"who", "attempt", "verify"}
    BY DEF Steps, ForAll, ForAdmins, Needs
  <2>4. what = "disable" => call[t].who.holder \in Admins
    BY <2>1 DEF May, ForAll, Needs
  <2> QED BY <1>2, <2>1, <2>2, <2>3, <2>4, GoStep
<1> QED BY <1>3, <1>4, <1>5

\* One who disables others is an administrator, and does not disable himself.
LEMMA DisableStep ==
    ASSUME Inv, NEW t \in Threads, Disable(t), UNCHANGED clock
    PROVE  Inv'
<1> USE DEF Inv
<1> DEFINE actor == call[t].who.holder
<1>1. actor \in Admins BY DEF Disable, CallInv, CallOK
<1>2. PICK u \in Users \ {actor} :
        /\ active' = active \ {u}
        /\ rows' = rows \ {s \in Kind("session") : s.holder = u}
        /\ crossed' = (crossed \/ actor \notin active)
  BY DEF Disable, Others
<1>3. SecretInv' /\ Onward BY <1>2, WithdrawStep DEF Disable
<1>4. AdminInv'
  <2>1. CASE actor \in active
    BY <1>1, <1>2, <2>1 DEF AdminInv, AdminRemains
  <2>2. CASE actor \notin active
    BY <1>2, <2>2 DEF AdminInv, AdminRemains
  <2> QED BY <2>1, <2>2
<1> QED BY <1>3, <1>4, EndStep DEF Disable

LEMMA ActStep ==
    ASSUME Inv, NEW t \in Threads, Act(t)
    PROVE  Inv'
<1> USE DEF Inv
<1>1. UNCHANGED clock BY DEF Act
<1>2. CASE Disable(t) BY <1>1, <1>2, DisableStep
<1>3. CASE Look(t) \/ Logout(t) \/ Revoke(t) \/ Grant(t)
  <2>1. rows' \subseteq rows /\ UNCHANGED <<active, issued, crossed>> /\ End(t)
    BY <1>3 DEF Look, Logout, Revoke, Grant
  <2>2. SecretInv' /\ Onward BY <1>1, <2>1, WithdrawStep
  <2> QED BY <2>1, <2>2, EndStep, AdminKept
<1>4. CASE New(t)
  <2>1. UNCHANGED <<active, crossed>> /\ End(t) BY <1>4 DEF New
  <2>2. clock + Life \in Nat BY Constants DEF SecretInv
  <2>3. PICK kind \in Kinds, expires \in Nat, left \in SUBSET rows :
            kind # "session" /\ Issue(Secret(kind, None, expires), left)
    BY <1>4, <2>2, Constants DEF New, Kinds
  <2>4. SecretInv' /\ Onward BY <1>1, <2>1, <2>3, IssueStep
  <2> QED BY <2>1, <2>4, EndStep, AdminKept
<1> QED BY <1>2, <1>3, <1>4 DEF Act

LEMMA OutsideStep ==
    ASSUME Inv, RetireReport \/ (\E u \in Users : ResetPassword(u))
                \/ UNCHANGED vars
    PROVE  Inv'
<1> USE DEF Inv
<1>1. rows' \subseteq rows /\ UNCHANGED <<clock, active, issued, call, crossed>>
  BY DEF RetireReport, ResetPassword, vars
<1>2. SecretInv' /\ Onward BY <1>1, WithdrawStep
<1> QED BY <1>1, <1>2, CallsKept, AdminKept

LEMMA InvCorrect == Spec => []Inv
<1>1. ASSUME Init PROVE Inv
  <2> USE <1>1 DEF Init
  <2>1. Agent \in Secrets /\ Agent.id = 0 /\ Agent.holder = None
    BY Constants DEF Agent, Secrets, Kinds
  <2>2. IsFiniteSet(issued) /\ Cardinality(issued) = 1
    BY FS_Singleton
  <2>3. SecretInv BY <2>1, <2>2 DEF SecretInv
  <2>4. CallInv BY DEF CallInv, CallOK, Idle, Calls, Steps
  <2>5. AdminInv BY Constants DEF AdminInv, AdminRemains
  <2> QED BY <2>3, <2>4, <2>5 DEF Inv
<1>2. Inv /\ [Next]_vars => Inv'
  <2> SUFFICES ASSUME Inv, [Next]_vars PROVE Inv'
    OBVIOUS
  <2>1. ASSUME NEW t \in Threads,
               \/ \E u \in Users : Login(t, u)
               \/ \E s \in issued : Request(t, s)
               \/ Attempt(t) \/ WrongPassword(t) \/ OpenSession(t)
               \/ Authenticate(t) \/ Require(t) \/ Act(t)
        PROVE  Inv'
    BY <2>1, LoginStep, RequestStep, SignInStep, AuthenticateStep, ActStep
  <2> QED BY <2>1, TickStep, OutsideStep DEF Next
<1> QED BY <1>1, <1>2, PTL DEF Spec

(* Whoever presents a secret that was withdrawn before his request began   *)
(* is not served (WithdrawnStays), whatever logins, rotations and          *)
(* revocations are under way at the same time.                             *)
THEOREM WithdrawnStaysCorrect == Spec => []WithdrawnStays
<1>1. Inv => WithdrawnStays BY DEF Inv, CallInv, CallOK, WithdrawnStays
<1> QED BY <1>1, InvCorrect, PTL

(* There is always an administrator who can sign in, unless one who was    *)
(* disabled meanwhile disabled another (AdminRemains).                     *)
THEOREM AdminRemainsCorrect == Spec => []AdminRemains
<1>1. Inv => AdminRemains BY DEF Inv, AdminInv
<1> QED BY <1>1, InvCorrect, PTL
-----------------------------------------------------------------------------
(* The limits of the sign-in.                                              *)

\* The time a sign-in has read is not older than the patience, so whatever
\* was attempted in the window before the clock is still in the table.
Waiting ==
    \A t \in Threads :
        call[t].step = "attempt" => /\ call[t].at <= clock
                                    /\ clock <= call[t].at + Patience

Attempted ==
    /\ IsFiniteSet(attempts) /\ IsFiniteSet(tried)
    /\ \A a \in tried :
        /\ a.at \in Nat /\ a.when \in Nat
        /\ a.when <= clock /\ a.when <= a.at + Patience
        /\ a \in attempts \/ a.at + Window < clock

AttemptInv == Waiting /\ Attempted /\ AttemptsBounded

LEMMA Limits ==
    /\ AddressLimit \in Nat /\ AccountLimit \in Nat /\ Window \in Nat
    /\ Patience \in Nat /\ Patience <= Window
BY AccountsAssumption DEF AccountsAssumption

\* No attempt comes in; the clock may advance.
LEMMA NoAttempt ==
    ASSUME Inv, AttemptInv, UNCHANGED <<attempts, tried>>,
           clock' \in {clock, clock + 1}, Waiting'
    PROVE  AttemptInv'
<1>1. Attempted'
  <2>1. clock \in Nat /\ Window \in Nat BY Limits DEF Inv, SecretInv
  <2> QED BY <2>1 DEF AttemptInv, Attempted
<1>2. AttemptsBounded' BY DEF AttemptInv, AttemptsBounded
<1> QED BY <1>1, <1>2 DEF AttemptInv

\* Nobody begins to sign in and no time passes.
LEMMA WaitingKept ==
    ASSUME Waiting, UNCHANGED clock,
           \A t \in Threads :
              call'[t].step = "attempt" => call'[t] = call[t]
    PROVE  Waiting'
BY DEF Waiting

LEMMA OneGoesOn ==
    ASSUME Inv, NEW t \in Threads,
           End(t) \/ \E step : step # "attempt" /\ Go(t, step)
    PROVE  \A u \in Threads :
              call'[u].step = "attempt" => call'[u] = call[u]
<1>1. /\ call[t] = [step |-> call[t].step, who |-> call[t].who,
                    at |-> call[t].at, void |-> call[t].void]
      /\ DOMAIN call = Threads
  BY DEF Inv, CallInv, CallOK, Calls
<1>2. CASE End(t) BY <1>1, <1>2 DEF End, Idle
<1>3. ASSUME NEW step, step # "attempt", Go(t, step)
      PROVE  call'[t].step = step
             /\ \A u \in Threads : u # t => call'[u] = call[u]
  BY <1>1, <1>3 DEF Go
<1> QED BY <1>2, <1>3

\* A set with one element more.
LEMMA OneMore ==
    ASSUME NEW S, NEW K, IsFiniteSet(K), NEW x, S \subseteq K \cup {x},
           NEW limit \in Nat, ~Full(K, limit)
    PROVE  Cardinality(S) <= limit
<1>1. Cardinality(K) \in Nat /\ Cardinality(K) < limit
  BY FS_CardinalityType DEF Full
<1>2. /\ IsFiniteSet(K \cup {x})
      /\ Cardinality(K \cup {x}) <= Cardinality(K) + 1
  <2>1. /\ IsFiniteSet(K \cup {x})
        /\ \/ Cardinality(K \cup {x}) = Cardinality(K)
           \/ Cardinality(K \cup {x}) = Cardinality(K) + 1
    BY FS_AddElement
  <2> QED BY <1>1, <2>1
<1>3. /\ Cardinality(S) \in Nat /\ Cardinality(K \cup {x}) \in Nat
      /\ Cardinality(S) <= Cardinality(K \cup {x})
  BY <1>2, FS_Subset, FS_CardinalityType
<1> QED BY <1>1, <1>2, <1>3

\* The rows that are counted hold everything of the window before the clock.
LEMMA AttemptCounts ==
    ASSUME Inv, AttemptInv, NEW t \in Threads, Attempt(t)
    PROVE  AttemptInv'
<1> DEFINE c == call[t]
           kept == Recent(c.at)
           n == CHOOSE k \in 1..(Cardinality(attempts \cup tried) + 1) :
                   \A a \in attempts \cup tried : a.n # k
           new == [n |-> n, user |-> c.who, at |-> c.at, when |-> clock]
           lately == {a \in tried : a.when + Window - Patience >= clock}
<1>1. /\ c.step = "attempt" /\ clock' = clock
      /\ clock \in Nat /\ c.at \in Nat
      /\ c.at <= clock /\ clock <= c.at + Patience
  BY DEF Attempt, Inv, SecretInv, CallInv, CallOK, Calls, AttemptInv, Waiting
<1>2. Waiting'
  <2>1. End(t) \/ \E step : step # "attempt" /\ Go(t, step) BY DEF Attempt
  <2> QED BY <1>1, <2>1, OneGoesOn, WaitingKept DEF AttemptInv
<1>3. CASE UNCHANGED <<attempts, tried>> BY <1>1, <1>2, <1>3, NoAttempt
<1>4. CASE /\ ~Full(kept, AddressLimit)
           /\ ~Full({a \in kept : a.user = c.who}, AccountLimit)
           /\ attempts' = kept \cup {new} /\ tried' = lately \cup {new}
  <2> HIDE DEF n
  <2>1. new.user = c.who /\ new.at = c.at /\ new.when = clock OBVIOUS
  <2>2. \A a \in tried :
            /\ a.at \in Nat /\ a.when \in Nat
            /\ a.when <= clock /\ a.when <= a.at + Patience
            /\ a \in attempts \/ a.at + Window < clock
    BY DEF AttemptInv, Attempted
  <2>3. kept \subseteq attempts
        /\ \A a \in attempts : a \notin kept => ~ (a.at + Window >= c.at)
    BY DEF Recent
  <2> HIDE DEF c, kept, new
  <2>4. lately \subseteq kept
    <3> SUFFICES ASSUME NEW a \in tried,
                        a.when + Window - Patience >= clock
                 PROVE  a \in kept
      OBVIOUS
    <3>1. a.at \in Nat /\ a.when \in Nat /\ a.when <= a.at + Patience BY <2>2
    <3>2. a.at + Window >= clock BY <1>1, <3>1, Limits
    <3>3. a \in attempts BY <1>1, <2>2, <3>1, <3>2, Limits
    <3>4. a.at + Window >= c.at BY <1>1, <3>1, <3>2, Limits
    <3> QED BY <2>3, <3>3, <3>4
  <2>5. IsFiniteSet(kept) /\ IsFiniteSet(lately)
    BY <2>3, FS_Subset DEF AttemptInv, Attempted
  <2>6. Attempted'
    <3>1. IsFiniteSet(attempts') /\ IsFiniteSet(tried')
      BY <1>4, <2>5, FS_AddElement
    <3>2. ASSUME NEW a \in tried'
          PROVE  /\ a.at \in Nat /\ a.when \in Nat
                 /\ a.when <= clock' /\ a.when <= a.at + Patience
                 /\ a \in attempts' \/ a.at + Window < clock'
      <4>1. CASE a = new BY <1>1, <1>4, <2>1, <4>1
      <4>2. CASE a \in lately BY <1>1, <1>4, <2>2, <2>4, <4>2
      <4> QED BY <1>4, <4>1, <4>2
    <3> QED BY <3>1, <3>2 DEF Attempted
  <2>7. ASSUME NEW first \in tried'
        PROVE  LET within == {a \in tried' :
                      /\ a.when >= first.when
                      /\ a.when <= first.when + Window - Patience}
               IN
               /\ Cardinality(within) <= AddressLimit
               /\ \A u \in Users :
                   Cardinality({a \in within : a.user = u}) <= AccountLimit
    <3> DEFINE Within(f, S) == {a \in S :
                   /\ a.when >= f.when
                   /\ a.when <= f.when + Window - Patience}
               Of(S, u) == {a \in S : a.user = u}
    <3>1. Within(first, tried') \subseteq kept \cup {new} BY <1>4, <2>4
    <3>2. Cardinality(Within(first, tried')) <= AddressLimit
      BY <1>4, <2>5, <3>1, Limits, OneMore
    <3>3. ASSUME NEW u \in Users
          PROVE  Cardinality(Of(Within(first, tried'), u)) <= AccountLimit
      <4>1. CASE u = c.who
        <5>1. Of(Within(first, tried'), u) \subseteq Of(kept, u) \cup {new}
          BY <3>1
        <5>2. IsFiniteSet(Of(kept, u)) BY <2>5, FS_Subset
        <5>3. ~Full(Of(kept, u), AccountLimit) BY <1>4, <4>1
        <5> QED BY <5>1, <5>2, <5>3, Limits, OneMore
      <4>2. ASSUME u # c.who, NEW f \in tried,
                   Of(Within(first, tried'), u) \subseteq Within(f, tried)
            PROVE  Cardinality(Of(Within(first, tried'), u)) <= AccountLimit
        <5>1. Of(Within(first, tried'), u) \subseteq Of(Within(f, tried), u)
          BY <4>2
        <5>2. IsFiniteSet(Of(Within(f, tried), u))
          BY FS_Subset DEF AttemptInv, Attempted
        <5>3. Cardinality(Of(Within(f, tried), u)) <= AccountLimit
          BY DEF AttemptInv, AttemptsBounded
        <5>4. Cardinality(Of(Within(first, tried'), u))
                  <= Cardinality(Of(Within(f, tried), u))
          BY <5>1, <5>2, FS_Subset
        <5>5. /\ Cardinality(Of(Within(first, tried'), u)) \in Nat
              /\ Cardinality(Of(Within(f, tried), u)) \in Nat
          BY <5>1, <5>2, FS_Subset, FS_CardinalityType
        <5> QED BY <5>3, <5>4, <5>5, Limits
      <4>3. CASE u # c.who /\ first \in tried
        <5>1. Of(Within(first, tried'), u) \subseteq Within(first, tried)
          BY <1>4, <2>1, <4>3
        <5> QED BY <4>2, <4>3, <5>1
      <4>4. CASE u # c.who /\ first = new
        <5>1. CASE Of(Within(first, tried'), u) = {}
          BY <5>1, FS_EmptySet, Limits
        <5>2. ASSUME NEW f \in Of(Within(first, tried'), u)
              PROVE  /\ f \in tried
                     /\ Of(Within(first, tried'), u) \subseteq Within(f, tried)
          <6>1. f \in tried /\ f.when = clock
            BY <1>1, <1>4, <2>1, <2>2, <4>4, <5>2
          <6>2. ASSUME NEW a \in Of(Within(first, tried'), u)
                PROVE  a \in Within(f, tried)
            <7>1. a \in tried /\ a.when = clock
              BY <1>1, <1>4, <2>1, <2>2, <4>4, <6>2
            <7> QED BY <1>1, <6>1, <7>1, Limits
          <6> QED BY <6>1, <6>2
        <5> QED BY <4>2, <4>4, <5>1, <5>2
      <4> QED BY <1>4, <4>1, <4>3, <4>4
    <3> QED BY <3>2, <3>3
  <2>8. AttemptsBounded' BY <2>7 DEF AttemptsBounded
  <2> QED BY <1>2, <2>6, <2>8 DEF AttemptInv
<1> QED BY <1>3, <1>4 DEF Attempt

LEMMA AttemptInvStep ==
    ASSUME Inv, AttemptInv, [Next]_vars
    PROVE  AttemptInv'
<1>1. clock \in Nat /\ Patience \in Nat /\ Waiting
  BY Limits DEF Inv, SecretInv, AttemptInv
<1>2. ASSUME UNCHANGED <<clock, attempts, tried>>,
             \A t \in Threads :
                call'[t].step = "attempt" => call'[t] = call[t]
      PROVE  AttemptInv'
  BY <1>1, <1>2, WaitingKept, NoAttempt
<1>3. CASE Tick
  <2>1. Waiting' BY <1>1, <1>3 DEF Tick, Waiting, Inv, CallInv, CallOK, Calls
  <2> QED BY <1>3, <2>1, NoAttempt DEF Tick
<1>4. ASSUME NEW t \in Threads, NEW u \in Users, Login(t, u)
      PROVE  AttemptInv'
  <2>1. /\ call'[t].at = clock /\ clock' = clock
        /\ \A v \in Threads : v # t => call'[v] = call[v]
    BY <1>4 DEF Login, Begin, Idle, Inv, CallInv
  <2>2. Waiting' BY <1>1, <2>1 DEF Waiting
  <2> QED BY <1>4, <2>2, NoAttempt DEF Login
<1>5. ASSUME NEW t \in Threads, NEW s \in issued, Request(t, s)
      PROVE  AttemptInv'
  <2>1. /\ call'[t].step = "who"
        /\ \A v \in Threads : v # t => call'[v] = call[v]
    BY <1>5 DEF Request, Begin, Idle, Inv, CallInv
  <2> QED BY <1>2, <1>5, <2>1 DEF Request
<1>6. ASSUME NEW t \in Threads,
             WrongPassword(t) \/ OpenSession(t) \/ Authenticate(t)
                \/ Require(t) \/ Act(t)
      PROVE  AttemptInv'
  <2>1. "attempt" \notin ForAll \cup ForAdmins \cup DOMAIN Needs
    BY DEF ForAll, ForAdmins, Needs
  <2>2. End(t) \/ \E step : step # "attempt" /\ Go(t, step)
    <3>1. CASE WrongPassword(t) \/ OpenSession(t)
      BY <3>1 DEF WrongPassword, OpenSession
    <3>2. CASE Authenticate(t) \/ Require(t)
      BY <2>1, <3>2 DEF Authenticate, Require
    <3>3. CASE Act(t)
      BY <3>3 DEF Act, Look, Logout, New, Revoke, Grant, Disable
    <3> QED BY <1>6, <3>1, <3>2, <3>3
  <2>3. UNCHANGED <<clock, attempts, tried>>
    BY <1>6 DEF WrongPassword, OpenSession, Authenticate, Require, Act
  <2> QED BY <1>2, <2>2, <2>3, OneGoesOn
<1>7. CASE RetireReport \/ (\E u \in Users : ResetPassword(u))
              \/ UNCHANGED vars
  BY <1>2, <1>7 DEF RetireReport, ResetPassword, vars
<1> QED
  BY <1>3, <1>4, <1>5, <1>6, <1>7, AttemptCounts DEF Next

(* Within a window, but for the time one may wait, no more passwords are   *)
(* verified than the limits allow (AttemptsBounded, login): for any number *)
(* of threads, users and limits, because a sign-in that waited counts the  *)
(* others by the time it had read before.                                  *)
THEOREM AttemptsBoundedCorrect == Spec => []AttemptsBounded
<1>1. Init => AttemptInv
  BY FS_EmptySet DEF Init, Idle, AttemptInv, Waiting, Attempted,
                     AttemptsBounded
<1>2. Inv /\ AttemptInv /\ [Next]_vars => AttemptInv' BY AttemptInvStep
<1>3. AttemptInv => AttemptsBounded BY DEF AttemptInv
<1> QED BY <1>1, <1>2, <1>3, InvCorrect, PTL DEF Spec
=============================================================================
