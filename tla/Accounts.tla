----------------------------- MODULE Accounts -----------------------------
(***************************************************************************)
(* Accounts, the lock after repeated wrong passwords, and the tokens of    *)
(* REST clients (core/service/UserStore.cpp and the authentication         *)
(* handlers of network/RestGateway.cpp), composed with the audit log the   *)
(* handlers write to (AuditChain).  Handlers run one at a time; all state  *)
(* but lastError_ is in the database.                                      *)
(*                                                                         *)
(* Abstracted: names and passwords (an attempt is right or wrong), digests *)
(* and the checks of form; times to ticks.  Calls that answer without      *)
(* changing anything are left out.  A token is known by its number and     *)
(* belongs to the login it stems from through refreshes.                   *)
(***************************************************************************)
EXTENDS AuditChain, FiniteSets

CONSTANTS
    Names, Seeds,      \* account names, and those of the built-in accounts
    MaxLoginFailures,  \* kMaxLoginFailures
    LockDuration,      \* kLockDurationMs
    TokenTtl,          \* options_.tokenTtlMs
    MaxTokens,         \* bound on the tokens issued
    MaxFaults          \* bound on failing statements and restarts

ASSUME AccountsAssumption ==
    /\ Seeds \subseteq Names /\ "none" \notin Names
    /\ MaxLoginFailures \in Nat \ {0} /\ MaxFaults \in Nat \ {0}
    /\ LockDuration \in Nat /\ TokenTtl \in Nat /\ MaxTokens \in Nat

VARIABLES
    users,       \* the names in the table users
    failed,      \* failed_attempts, up to MaxLoginFailures
    lockLeft,    \* time to locked_until_ms, 0 when it has passed
    tokens,      \* auth_tokens: owner, time to expires_at_ms, revoked
    storeError,  \* UserStore::lastError_ is not empty
    wrongs,      \* history: wrong passwords judged since the last right one, up to the limit
    sinceWrong,  \* history: time since the last of them, up to LockDuration
    family,      \* history: the login a token stems from
    over,        \* history: the logins that were logged out
    astray,      \* history: names and logins a failed statement concerned
    faults       \* faults so far

vars == <<users, failed, lockLeft, tokens, storeError, wrongs, sinceWrong, family, over,
          astray, faults, log, logError, blind>>

TokenIds == 1 .. MaxTokens
NoToken == [owner |-> "none", left |-> 0, revoked |-> TRUE]

Unissued == {t \in TokenIds : tokens[t] = NoToken}
Capped(n, limit) == IF n < limit THEN n ELSE limit

\* verifyToken
Valid(t) == ~tokens[t].revoked /\ tokens[t].left > 0

\* The statements of one call that fail: none, one of them, or all.
Faults(S) ==
    {{}} \union (IF faults < MaxFaults THEN {{x} : x \in S} \union {S} ELSE {})
Count(F) == faults' = IF F = {} THEN faults ELSE faults + 1
AuditFault(F) ==
    IF F \intersect RecordFaults = {} THEN "none" ELSE CHOOSE x \in F \intersect RecordFaults : TRUE

\* ensureSeedAccount, in an empty table; an account that cannot be written is missing
\* from then on.
Init ==
    /\ users \in SUBSET Seeds
    /\ failed = [u \in Names |-> 0]
    /\ lockLeft = [u \in Names |-> 0]
    /\ tokens = [t \in TokenIds |-> NoToken]
    /\ storeError = (users # Seeds)
    /\ wrongs = [u \in Names |-> 0]
    /\ sinceWrong = [u \in Names |-> LockDuration]
    /\ family = [t \in TokenIds |-> 0]
    /\ over = {}
    /\ astray = {}
    /\ faults = IF users = Seeds THEN 0 ELSE 1
    /\ AuditInit

-----------------------------------------------------------------------------
(***************************************************************************)
(* Accounts and passwords.                                                 *)
(***************************************************************************)

\* registerUser cannot read the name, registered or not, or cannot write the account.
RegisterFails(u, F) ==
    "userQuery" \in F \/ (u \notin users /\ ~storeError /\ "insertUser" \in F)

\* handleRegister.  Any earlier error of the store refuses a name that is free.
Register(u) ==
    /\ \E F \in Faults({"userQuery", "insertUser"} \union RecordFaults) :
           /\ \/ /\ RegisterFails(u, F)
                 /\ storeError' = TRUE
                 /\ UNCHANGED <<users, auditVars>>
              \/ /\ u \notin users /\ ~storeError /\ ~RegisterFails(u, F)
                 /\ users' = users \union {u}
                 /\ Record(AuditFault(F))
                 /\ UNCHANGED storeError
           /\ Count(F)
    /\ UNCHANGED <<failed, lockLeft, tokens, wrongs, sinceWrong, family, over, astray>>

\* Mutant of Locks: one more failure than allowed.
LocksLate(u) == failed[u] + 1 > MaxLoginFailures

\* noteLoginFailure: the limit is reached.  The counter is not reset when the lock runs
\* out, so that the next failure locks again.
Locks(u) == failed[u] + 1 >= MaxLoginFailures

\* verifyLogin gets as far as the password: the account is not locked, or the lock
\* cannot be read.
Judged(u, F) == u \in users /\ (lockLeft[u] = 0 \/ "lockQuery" \in F) /\ "userQuery" \notin F

\* A wrong password.
LoginWrong(u) ==
    \E F \in Faults({"lockQuery", "userQuery", "bump"} \union RecordFaults) :
        /\ Judged(u, F)
        /\ wrongs' = [wrongs EXCEPT ![u] = Capped(@ + 1, MaxLoginFailures)]
        /\ sinceWrong' = [sinceWrong EXCEPT ![u] = 0]
        /\ IF "bump" \in F
           THEN /\ storeError' = TRUE
                /\ astray' = astray \union {u}
                /\ UNCHANGED <<failed, lockLeft>>
           ELSE /\ failed' = [failed EXCEPT ![u] = Capped(@ + 1, MaxLoginFailures)]
                /\ lockLeft' = IF Locks(u) THEN [lockLeft EXCEPT ![u] = LockDuration] ELSE lockLeft
                /\ UNCHANGED <<storeError, astray>>
        /\ Record(AuditFault(F))
        /\ Count(F)
        /\ UNCHANGED <<users, tokens, family, over>>

\* An unknown name, or one that cannot be read.
LoginUnknown(u) ==
    \E F \in Faults({"lockQuery", "userQuery"} \union RecordFaults) :
        /\ lockLeft[u] = 0 \/ "lockQuery" \in F
        /\ u \notin users \/ "userQuery" \in F
        /\ Record(AuditFault(F))
        /\ Count(F)
        /\ UNCHANGED <<users, failed, lockLeft, tokens, storeError, wrongs, sinceWrong, family,
                       over, astray>>

\* clearLoginFailures
Cleared(u) ==
    /\ failed' = [failed EXCEPT ![u] = 0]
    /\ lockLeft' = [lockLeft EXCEPT ![u] = 0]

\* issueToken, for a login or in exchange for the token old.
Issue(t, u, origin) ==
    /\ t \in Unissued
    /\ \A x \in Unissued : t <= x
    /\ tokens' = [tokens EXCEPT ![t] = [owner |-> u, left |-> TokenTtl, revoked |-> FALSE]]
    /\ family' = [family EXCEPT ![t] = origin]

\* touchLastLogin fails: the login is refused although the failures are cleared.
TouchFails(F) == "touch" \in F

\* A right password: the failures are cleared, the time of the login is written and a
\* token issued (handleLogin).
LoginRight(u) ==
    \E F \in Faults({"lockQuery", "clear", "touch", "issue"} \union RecordFaults) :
        /\ Judged(u, F)
        /\ wrongs' = [wrongs EXCEPT ![u] = 0]
        /\ IF "clear" \in F
           THEN astray' = astray \union {u} /\ UNCHANGED <<failed, lockLeft>>
           ELSE Cleared(u) /\ UNCHANGED astray
        /\ storeError' = (storeError \/ F \intersect {"clear", "touch", "issue"} # {})
        /\ CASE TouchFails(F) -> UNCHANGED <<tokens, family>> /\ Record(AuditFault(F))
             [] ~TouchFails(F) /\ "issue" \in F -> UNCHANGED <<tokens, family, auditVars>>
             [] OTHER -> /\ \E t \in Unissued : Issue(t, u, t)
                         /\ Record(AuditFault(F))
        /\ Count(F)
        /\ UNCHANGED <<users, sinceWrong, over>>

-----------------------------------------------------------------------------
(***************************************************************************)
(* Tokens.                                                                 *)
(***************************************************************************)
Revoked(S) == [t \in TokenIds |-> IF t \in S THEN [tokens[t] EXCEPT !.revoked = TRUE] ELSE tokens[t]]

\* Mutant of RefreshFails: the old token is revoked before the new one is issued.
RefreshFailsRevoked(t) == tokens' = Revoked({t})

\* handleRefresh cannot issue a new token and leaves the old one alone.
RefreshFails(t) == UNCHANGED tokens

\* Mutant of Superseded: the old token stays valid.
SupersededNot(t, fresh, lost) ==
    [tokens EXCEPT ![fresh] = [owner |-> tokens[t].owner, left |-> TokenTtl, revoked |-> FALSE]]

\* The new token is issued, then the old one revoked, if that can be written.
Superseded(t, fresh, lost) ==
    [Revoked(IF lost THEN {} ELSE {t}) EXCEPT
        ![fresh] = [owner |-> tokens[t].owner, left |-> TokenTtl, revoked |-> FALSE]]

\* handleRefresh
Refresh(t) ==
    /\ Valid(t)
    /\ \E F \in Faults({"issue", "revoke"}) :
           /\ IF "issue" \in F
              THEN RefreshFails(t) /\ UNCHANGED <<family, astray>>
              ELSE \E fresh \in Unissued :
                       /\ \A x \in Unissued : fresh <= x
                       /\ tokens' = Superseded(t, fresh, "revoke" \in F)
                       /\ family' = [family EXCEPT ![fresh] = family[t]]
                       /\ astray' = IF "revoke" \in F THEN astray \union {family[t]} ELSE astray
           /\ storeError' = (storeError \/ F # {})
           /\ Count(F)
    /\ UNCHANGED <<users, failed, lockLeft, wrongs, sinceWrong, over, auditVars>>

\* handleLogout: a token that is no longer valid is revoked all the same.
Logout(t) ==
    /\ t \notin Unissued
    /\ \E F \in Faults({"revoke"} \union RecordFaults) :
           /\ IF Valid(t)
              THEN /\ Record(AuditFault(F))
                   /\ over' = IF "revoke" \in F THEN over ELSE over \union {family[t]}
              ELSE UNCHANGED <<auditVars, over>>
           /\ tokens' = IF "revoke" \in F THEN tokens ELSE Revoked({t})
           /\ storeError' = (storeError \/ "revoke" \in F)
           /\ Count(F)
    /\ UNCHANGED <<users, failed, lockLeft, wrongs, sinceWrong, family, astray>>

-----------------------------------------------------------------------------
Aged(n) == IF n > 0 THEN n - 1 ELSE n

Tick ==
    /\ lockLeft' = [u \in Names |-> Aged(lockLeft[u])]
    /\ sinceWrong' = [u \in Names |-> Capped(sinceWrong[u] + 1, LockDuration)]
    /\ tokens' = [t \in TokenIds |-> [tokens[t] EXCEPT !.left = Aged(@)]]
    /\ UNCHANGED <<users, failed, storeError, wrongs, family, over, astray, faults, auditVars>>

\* The program stops and starts again; accounts are seeded only if there are none.
Restart ==
    /\ faults < MaxFaults
    /\ faults' = faults + 1
    /\ storeError' = FALSE
    /\ users' = IF users = {} THEN Seeds ELSE users
    /\ AuditRestart
    /\ UNCHANGED <<failed, lockLeft, tokens, wrongs, sinceWrong, family, over, astray>>

Next ==
    \/ \E u \in Names : Register(u) \/ LoginWrong(u) \/ LoginUnknown(u) \/ LoginRight(u)
    \/ \E t \in TokenIds : Refresh(t) \/ Logout(t)
    \/ Tick \/ Restart

Spec == Init /\ [][Next]_vars

-----------------------------------------------------------------------------
(***************************************************************************)
(* Properties.                                                             *)
(***************************************************************************)

\* Every variable stays in its type, and nobody is locked without having failed as
\* often as it takes.
TypeOK ==
    /\ users \subseteq Names
    /\ failed \in [Names -> 0 .. MaxLoginFailures]
    /\ lockLeft \in [Names -> 0 .. LockDuration]
    /\ \A u \in Names : lockLeft[u] > 0 => failed[u] = MaxLoginFailures
    /\ \A t \in TokenIds : tokens[t].left \in 0 .. TokenTtl
    /\ storeError \in BOOLEAN
    /\ family \in [TokenIds -> 0 .. MaxTokens]
    /\ over \subseteq TokenIds
    /\ faults \in 0 .. MaxFaults
    /\ AuditTypeOK

\* From the last of as many wrong passwords as allowed, with no right one among them
\* however far apart they are, the account is locked for the whole time; later wrong
\* passwords lock it again one by one, and trying while it lasts does not extend it
\* (verifyLogin, noteLoginFailure).
LockHolds ==
    /\ TypeOK
    /\ \A u \in Names \ astray :
           wrongs[u] = MaxLoginFailures =>
               /\ failed[u] = MaxLoginFailures
               /\ lockLeft[u] = LockDuration - sinceWrong[u]

\* Refreshing does not multiply tokens: a login has at most one valid token, and none
\* once it was logged out, unless a revocation could not be written.
OneTokenPerLogin ==
    \A g \in TokenIds \ astray :
        Cardinality({t \in TokenIds : family[t] = g /\ Valid(t)}) <= IF g \in over THEN 0 ELSE 1

\* A refresh never leaves its client without a valid token that stems from the same login,
\* whichever of its two statements fails (the order of handleRefresh); another login of
\* the account does not make up for it.
RefreshKeepsClient ==
    [][\A t \in TokenIds : Valid(t) /\ Refresh(t) =>
           \E x \in TokenIds : Valid(x)' /\ family'[x] = family[t]]_vars
=============================================================================
