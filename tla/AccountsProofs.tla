--------------------------- MODULE AccountsProofs ---------------------------
(***************************************************************************)
(* Proofs about Accounts and AuditChain, for any accounts, limits and      *)
(* numbers of tokens, rows and faults.                                     *)
(*                                                                         *)
(* The invariant has a part for the passwords, one for the tokens and one  *)
(* for the audit log, which the actions touch one by one: the counter of   *)
(* failures is the number of wrong passwords judged; a token belongs to a  *)
(* login whose token was issued; a row carries the hash of the row before  *)
(* it as that row was when the row was written, and it does not change.    *)
(***************************************************************************)
EXTENDS Accounts, FiniteSetTheorems, SequenceTheorems, TLAPS

TokenType == [owner : Names \cup {"none"}, left : 0 .. TokenTtl, revoked : BOOLEAN]

\* The counter and the lock of an account, whose writes did not fail, tell what happened.
Passwords ==
    /\ users \subseteq Names
    /\ failed \in [Names -> 0 .. MaxLoginFailures]
    /\ wrongs \in [Names -> 0 .. MaxLoginFailures]
    /\ lockLeft \in [Names -> 0 .. LockDuration]
    /\ sinceWrong \in [Names -> 0 .. LockDuration]
    /\ \A u \in Names : lockLeft[u] > 0 => failed[u] = MaxLoginFailures
    /\ \A u \in Names \ astray :
          /\ failed[u] = wrongs[u]
          /\ wrongs[u] = MaxLoginFailures => lockLeft[u] = LockDuration - sinceWrong[u]

Issued == TokenIds \ Unissued

\* Tokens of one login, unless a revocation failed: one at most is valid, none after its end.
Tokens ==
    /\ tokens \in [TokenIds -> TokenType]
    /\ family \in [TokenIds -> 0 .. MaxTokens]
    /\ over \subseteq Issued
    /\ \A t \in Unissued : family[t] = 0
    /\ \A t \in Issued : tokens[t].owner \in Names /\ family[t] \in Issued
    /\ \A x, y \in TokenIds :
          Valid(x) /\ Valid(y) /\ family[x] = family[y] /\ family[x] \notin astray =>
              x = y /\ family[x] \notin over

\* A row is chained to the row before it, if that could be read.
Chain ==
    /\ AuditTypeOK
    /\ blind \subseteq 2 .. Len(log)
    /\ \A i \in 1 .. Len(log) :
          log[i].prev = IF i = 1 \/ i \in blind THEN Genesis ELSE HashOf(i - 1)

Errors == storeError \in BOOLEAN /\ faults \in 0 .. MaxFaults

AInv == Passwords /\ Tokens /\ Chain /\ Errors

-----------------------------------------------------------------------------
(***************************************************************************)
(* The audit log.                                                          *)
(***************************************************************************)

\* A call of record keeps the chain, whatever fails in it.
LEMMA RecordKeepsChain ==
  ASSUME Chain, NEW fault, Record(fault)
  PROVE  Chain'
<1> DEFINE seen == log # <<>> /\ fault # "lookup"
           row == [prev |-> PrevHash(seen), hashed |-> fault # "update"]
           Row == [prev : Genesis .. MaxRows, hashed : BOOLEAN]
<1>1. /\ log \in Seq(Row) /\ Len(log) \in Nat /\ Len(log) <= MaxRows
      /\ \A i \in 1 .. Len(log) : log[i] \in Row
  BY LenProperties, ElementOfSeq DEF Chain, AuditTypeOK
<1>2. CASE UNCHANGED auditVars
  BY <1>2 DEF auditVars, Chain, AuditTypeOK, HashOf
<1>3. CASE logError' = TRUE /\ UNCHANGED <<log, blind>>
  BY <1>3 DEF Chain, AuditTypeOK, HashOf
<1>4. CASE /\ Len(log) # MaxRows
           /\ log' = Append(log, row)
           /\ logError' = (logError \/ fault = "update")
           /\ blind' = IF log # <<>> /\ ~seen THEN blind \union {Len(log) + 1} ELSE blind
  <2>1. PrevHash(seen) = IF seen THEN HashOf(Len(log)) ELSE Genesis
    BY DEF PrevHash
  <2>2. log # <<>> => Len(log) \in 1 .. Len(log)
    BY <1>1, EmptySeq
  <2>3. PrevHash(seen) \in Genesis .. MaxRows
    BY <1>1, <2>1, <2>2, AuditAssumption DEF HashOf, Genesis, Empty
  <2>4. row \in Row
    BY <2>3
  <2>5. row.prev = IF seen THEN HashOf(Len(log)) ELSE Genesis
    BY <2>1
  <2> DEFINE n == Len(log)
  <2> HIDE DEF row, Row, seen
  <2>6. /\ log' \in Seq(Row) /\ Len(log') = n + 1
        /\ \A i \in 1 .. n : log'[i] = log[i]
        /\ log'[n + 1] = row
    BY <1>1, <1>4, <2>4, AppendProperties
  <2>7. n = 0 <=> log = <<>>
    BY <1>1, EmptySeq
  <2>8. seen => log # <<>>
    BY DEF seen
  <2>9. Len(log') <= MaxRows
    BY <1>1, <1>4, <2>6, AuditAssumption
  <2>10. blind' \subseteq 2 .. Len(log')
    <3>1. blind \subseteq 2 .. n
      BY DEF Chain
    <3>2. blind' = blind \/ (blind' = blind \union {n + 1} /\ n # 0)
      BY <1>4, <2>7
    <3>3. n \in Nat /\ Len(log') = n + 1
      BY <1>1, <2>6
    <3> HIDE DEF n
    <3>4. 2 .. n \subseteq 2 .. n + 1 /\ (n # 0 => n + 1 \in 2 .. n + 1)
      BY <3>3
    <3>5. blind' \subseteq 2 .. n + 1
      BY <3>1, <3>2, <3>4
    <3>6. QED
      BY <3>3, <3>5
  <2>11. \A i \in 1 .. n + 1 : HashOf(i - 1)' = HashOf(i - 1) \/ i = 1
    BY <1>1, <2>6 DEF HashOf
  <2>12. \A i \in 1 .. Len(log') :
            log'[i].prev = IF i = 1 \/ i \in blind' THEN Genesis ELSE HashOf(i - 1)'
    <3> SUFFICES ASSUME NEW i \in 1 .. n + 1
                 PROVE  log'[i].prev = IF i = 1 \/ i \in blind' THEN Genesis ELSE HashOf(i - 1)'
      BY <2>6
    <3>1. CASE i \in 1 .. n
      <4>1. i \in blind' <=> i \in blind
        BY <1>1, <1>4, <3>1
      <4>2. QED
        BY <2>6, <2>11, <3>1, <4>1 DEF Chain
    <3>2. CASE i = n + 1 /\ n = 0
      BY <2>5, <2>6, <2>7, <2>8, <3>2
    <3>3. CASE i = n + 1 /\ n # 0
      <4>1. i \in blind' <=> ~seen
        BY <1>1, <1>4, <2>7, <3>3 DEF Chain
      <4>2. i # 1 /\ i - 1 = n
        BY <1>1, <3>3
      <4>3. HashOf(i - 1)' = HashOf(n)
        BY <2>11, <4>2
      <4>4. QED
        BY <2>5, <2>6, <3>3, <4>1, <4>2, <4>3
    <3>4. QED
      BY <1>1, <3>1, <3>2, <3>3
  <2>13. logError' \in BOOLEAN
    BY <1>4
  <2>14. blind' \subseteq 2 .. MaxRows
    BY <1>1, <2>9, <2>10, AuditAssumption, <2>6
  <2>15. AuditTypeOK'
    BY <2>6, <2>9, <2>13, <2>14 DEF AuditTypeOK, Row
  <2>16. QED
    BY <2>10, <2>12, <2>15 DEF Chain
<1>5. QED
  BY <1>2, <1>3, <1>4 DEF Record

LEMMA ChainKept ==
  ASSUME Chain, UNCHANGED auditVars
  PROVE  Chain'
BY DEF auditVars, Chain, AuditTypeOK, HashOf

\* The rows verifyChain objects to are those a fault spoiled.
LEMMA ChainVerified ==
  ASSUME Chain
  PROVE  VerifyFindsFault
<1> DEFINE bad == {i \in 1 .. Len(log) : Objectionable(i)}
           spoiled == {i \in 1 .. Len(log) : ~log[i].hashed} \union blind
<1>1. Len(log) \in Nat
  BY LenProperties DEF Chain, AuditTypeOK
<1>2. \A i \in 2 .. Len(log) : HashOf(i - 1) # Genesis
  BY <1>1 DEF HashOf, Genesis, Empty
<1>3. \A i \in blind : i \in 2 .. Len(log) /\ log[i].prev = Genesis
  BY <1>1 DEF Chain
<1>4. \A i \in 1 .. Len(log) : log[i].prev = IF i = 1 \/ i \in blind THEN Genesis ELSE HashOf(i - 1)
  BY DEF Chain
<1>5. ASSUME NEW i \in 1 .. Len(log)
      PROVE  Objectionable(i) <=> ~log[i].hashed \/ i \in blind
  <2>1. CASE i = 1
    BY <1>1, <1>3, <1>4, <2>1 DEF Objectionable
  <2>2. CASE i # 1
    BY <1>1, <1>2, <1>4, <2>2 DEF Objectionable
  <2>3. QED
    BY <2>1, <2>2
<1>6. bad = spoiled
  BY <1>1, <1>3, <1>5
<1>7. BrokenAt = IF bad = {} THEN 0 ELSE Smallest(bad)
  BY DEF BrokenAt
<1>8. \A i \in 2 .. Len(log) : log[i].prev = HashOf(i - 1) \/ i \in blind
  BY <1>1, <1>4
<1> HIDE DEF bad
<1>9. BrokenAt = IF spoiled = {} THEN 0 ELSE Smallest(spoiled)
  BY <1>6, <1>7
<1>10. QED
  BY <1>8, <1>9 DEF VerifyFindsFault

-----------------------------------------------------------------------------
(***************************************************************************)
(* Accounts and passwords.                                                 *)
(***************************************************************************)

LEMMA CappedType ==
  ASSUME NEW n \in Nat, NEW limit \in Nat
  PROVE  /\ Capped(n, limit) \in 0 .. limit
         /\ n <= limit => Capped(n, limit) = n
         /\ n >= limit => Capped(n, limit) = limit
BY DEF Capped

LEMMA FaultsCounted ==
  ASSUME Errors, NEW S, NEW F \in Faults(S), Count(F)
  PROVE  faults' \in 0 .. MaxFaults
<1>1. F = {} \/ faults < MaxFaults
  BY DEF Faults
<1>2. faults' = faults \/ (faults < MaxFaults /\ faults' = faults + 1)
  BY <1>1 DEF Count
<1>3. QED
  BY <1>2, AccountsAssumption DEF Errors

\* What a step that does not touch the tokens owes them: more logins may be astray.
LEMMA TokensKept ==
  ASSUME Tokens, UNCHANGED <<tokens, family, over>>, astray \subseteq astray'
  PROVE  Tokens'
<1>1. Unissued' = Unissued /\ Issued' = Issued
  BY DEF Unissued, Issued
<1>2. \A t \in TokenIds : Valid(t)' <=> Valid(t)
  BY DEF Valid
<1>3. QED
  BY <1>1, <1>2 DEF Tokens

LEMMA PasswordsKept ==
  ASSUME Passwords, UNCHANGED <<failed, lockLeft, wrongs, sinceWrong>>,
         users' \subseteq Names, astray \subseteq astray'
  PROVE  Passwords'
BY DEF Passwords

\* A wrong password: counter and lock follow, or the account is astray.
LEMMA WrongSound ==
  ASSUME AInv, NEW u \in Names, LoginWrong(u)
  PROVE  AInv'
<1>1. PICK F \in Faults({"lockQuery", "userQuery", "bump"} \union RecordFaults) :
        /\ wrongs' = [wrongs EXCEPT ![u] = Capped(@ + 1, MaxLoginFailures)]
        /\ sinceWrong' = [sinceWrong EXCEPT ![u] = 0]
        /\ IF "bump" \in F
           THEN /\ storeError' = TRUE
                /\ astray' = astray \union {u}
                /\ UNCHANGED <<failed, lockLeft>>
           ELSE /\ failed' = [failed EXCEPT ![u] = Capped(@ + 1, MaxLoginFailures)]
                /\ lockLeft' = IF Locks(u) THEN [lockLeft EXCEPT ![u] = LockDuration] ELSE lockLeft
                /\ UNCHANGED <<storeError, astray>>
        /\ Record(AuditFault(F))
        /\ Count(F)
        /\ UNCHANGED <<users, tokens, family, over>>
  BY DEF LoginWrong
<1>2. Tokens'
  BY <1>1, TokensKept DEF AInv
<1>3. Chain'
  BY <1>1, RecordKeepsChain DEF AInv
<1>4. Errors'
  BY <1>1, FaultsCounted DEF AInv, Errors
<1> DEFINE more(n) == Capped(n + 1, MaxLoginFailures)
<1>5. \A n \in 0 .. MaxLoginFailures :
        /\ more(n) \in 0 .. MaxLoginFailures
        /\ more(n) = MaxLoginFailures <=> n + 1 >= MaxLoginFailures
        /\ n = MaxLoginFailures => more(n) = MaxLoginFailures
  BY CappedType, AccountsAssumption DEF Capped
<1>6. /\ wrongs' = [wrongs EXCEPT ![u] = more(wrongs[u])]
      /\ "bump" \notin F => failed' = [failed EXCEPT ![u] = more(failed[u])]
      /\ Locks(u) <=> failed[u] + 1 >= MaxLoginFailures
  BY <1>1 DEF Locks
<1> HIDE DEF more
<1>7. Passwords'
  <2>1. /\ wrongs' \in [Names -> 0 .. MaxLoginFailures]
        /\ sinceWrong' \in [Names -> 0 .. LockDuration]
        /\ sinceWrong'[u] = 0 /\ wrongs'[u] = more(wrongs[u])
        /\ \A x \in Names \ {u} : wrongs'[x] = wrongs[x] /\ sinceWrong'[x] = sinceWrong[x]
    BY <1>1, <1>5, <1>6, AccountsAssumption DEF AInv, Passwords
  <2>2. CASE "bump" \in F
    <3>1. /\ astray' = astray \union {u} /\ users' = users
          /\ failed' = failed /\ lockLeft' = lockLeft
      BY <1>1, <2>2
    <3>2. QED
      BY <2>1, <3>1 DEF AInv, Passwords
  <2>3. CASE "bump" \notin F
    <3>1. /\ failed' \in [Names -> 0 .. MaxLoginFailures] /\ failed'[u] = more(failed[u])
          /\ \A x \in Names \ {u} : failed'[x] = failed[x]
      BY <1>5, <1>6, <2>3 DEF AInv, Passwords
    <3>2. /\ lockLeft' \in [Names -> 0 .. LockDuration]
          /\ lockLeft'[u] = IF Locks(u) THEN LockDuration ELSE lockLeft[u]
          /\ \A x \in Names \ {u} : lockLeft'[x] = lockLeft[x]
      <4>1. lockLeft' = IF Locks(u) THEN [lockLeft EXCEPT ![u] = LockDuration] ELSE lockLeft
        BY <1>1, <2>3
      <4>2. QED
        BY <4>1, AccountsAssumption DEF AInv, Passwords
    <3>3. users' = users /\ astray' = astray
      BY <1>1, <2>3
    <3>4. lockLeft'[u] > 0 => failed'[u] = MaxLoginFailures
      BY <1>5, <1>6, <3>1, <3>2, AccountsAssumption DEF AInv, Passwords
    <3>5. u \notin astray =>
            /\ failed'[u] = wrongs'[u]
            /\ wrongs'[u] = MaxLoginFailures => lockLeft'[u] = LockDuration - sinceWrong'[u]
      BY <1>5, <1>6, <2>1, <3>1, <3>2, AccountsAssumption DEF AInv, Passwords
    <3>6. QED
      BY <2>1, <3>1, <3>2, <3>3, <3>4, <3>5 DEF AInv, Passwords
  <2>4. QED
    BY <2>2, <2>3
<1>8. QED
  BY <1>2, <1>3, <1>4, <1>7 DEF AInv

\* A token for a new login.
LEMMA IssueSound ==
  ASSUME Tokens, NEW u \in Names, NEW t \in Unissued, Issue(t, u, t), over' = over,
         astray \subseteq astray'
  PROVE  Tokens'
<1> DEFINE row == [owner |-> u, left |-> TokenTtl, revoked |-> FALSE]
<1>1. row \in TokenType /\ row.owner = u
  BY AccountsAssumption DEF TokenType
<1>2. t \in TokenIds /\ t \in 0 .. MaxTokens /\ t \notin Issued /\ tokens[t] = NoToken
  BY AccountsAssumption DEF Unissued, TokenIds, Issued
<1>3. tokens' = [tokens EXCEPT ![t] = row] /\ family' = [family EXCEPT ![t] = t]
  BY DEF Issue
<1> HIDE DEF row
<1>4. /\ tokens' \in [TokenIds -> TokenType] /\ tokens'[t] = row
      /\ family' \in [TokenIds -> 0 .. MaxTokens] /\ family'[t] = t
      /\ \A x \in TokenIds \ {t} : tokens'[x] = tokens[x] /\ family'[x] = family[x]
  BY <1>1, <1>2, <1>3 DEF Tokens
<1>5. row # NoToken
  BY <1>1, AccountsAssumption DEF NoToken
<1>6. Unissued' = Unissued \ {t} /\ Issued' = Issued \union {t}
  BY <1>2, <1>4, <1>5 DEF Unissued, Issued
<1>7. \A x \in TokenIds \ {t} : (Valid(x)' <=> Valid(x)) /\ family[x] # t
  <2>1. \A x \in TokenIds : family[x] = 0 \/ family[x] \in Issued
    BY DEF Tokens, Issued
  <2>2. t # 0
    BY <1>2 DEF TokenIds
  <2>3. QED
    BY <1>2, <1>4, <2>1, <2>2 DEF Valid
<1>8. t \notin over
  BY <1>2 DEF Tokens
<1>9. \A x, y \in TokenIds :
         Valid(x)' /\ Valid(y)' /\ family'[x] = family'[y] /\ family'[x] \notin astray' =>
             x = y /\ family'[x] \notin over'
  BY <1>4, <1>7, <1>8 DEF Tokens
<1>10. over' \subseteq Issued'
  BY <1>6 DEF Tokens
<1>11. /\ \A x \in Unissued' : family'[x] = 0
       /\ \A x \in Issued' : tokens'[x].owner \in Names /\ family'[x] \in Issued'
  BY <1>1, <1>2, <1>4, <1>6 DEF Tokens, Unissued, Issued
<1>12. QED
  BY <1>4, <1>9, <1>10, <1>11 DEF Tokens

\* A right password: the failures are cleared, and a token may be issued.
LEMMA RightSound ==
  ASSUME AInv, NEW u \in Names, LoginRight(u)
  PROVE  AInv'
<1>1. PICK F \in Faults({"lockQuery", "clear", "touch", "issue"} \union RecordFaults) :
        /\ wrongs' = [wrongs EXCEPT ![u] = 0]
        /\ IF "clear" \in F
           THEN astray' = astray \union {u} /\ UNCHANGED <<failed, lockLeft>>
           ELSE Cleared(u) /\ UNCHANGED astray
        /\ storeError' = (storeError \/ F \intersect {"clear", "touch", "issue"} # {})
        /\ CASE TouchFails(F) -> UNCHANGED <<tokens, family>> /\ Record(AuditFault(F))
             [] ~TouchFails(F) /\ "issue" \in F -> UNCHANGED <<tokens, family, auditVars>>
             [] OTHER -> /\ \E t \in Unissued : Issue(t, u, t)
                         /\ Record(AuditFault(F))
        /\ Count(F)
        /\ UNCHANGED <<users, sinceWrong, over>>
  BY DEF LoginRight
<1>2. /\ UNCHANGED <<tokens, family>> \/ \E t \in Unissued : Issue(t, u, t)
      /\ Record(AuditFault(F)) \/ UNCHANGED auditVars
  BY <1>1
<1>3. astray \subseteq astray' /\ over' = over
  BY <1>1
<1>4. Tokens'
  BY <1>2, <1>3, TokensKept, IssueSound DEF AInv
<1>5. Chain'
  BY <1>2, RecordKeepsChain, ChainKept DEF AInv
<1>6. Errors'
  BY <1>1, FaultsCounted DEF AInv, Errors
<1>7. Passwords'
  <2>1. 0 \in 0 .. MaxLoginFailures /\ 0 \in 0 .. LockDuration /\ MaxLoginFailures # 0
    BY AccountsAssumption
  <2>2. /\ wrongs' \in [Names -> 0 .. MaxLoginFailures] /\ wrongs'[u] = 0
        /\ \A x \in Names \ {u} : wrongs'[x] = wrongs[x]
        /\ users' = users /\ sinceWrong' = sinceWrong
    BY <1>1, <2>1 DEF AInv, Passwords
  <2>3. CASE "clear" \in F
    <3>1. astray' = astray \union {u} /\ failed' = failed /\ lockLeft' = lockLeft
      BY <1>1, <2>3
    <3>2. QED
      BY <2>2, <3>1 DEF AInv, Passwords
  <2>4. CASE "clear" \notin F
    <3>1. /\ astray' = astray
          /\ failed' = [failed EXCEPT ![u] = 0] /\ lockLeft' = [lockLeft EXCEPT ![u] = 0]
      BY <1>1, <2>4 DEF Cleared
    <3>2. /\ failed' \in [Names -> 0 .. MaxLoginFailures] /\ failed'[u] = 0
          /\ lockLeft' \in [Names -> 0 .. LockDuration] /\ lockLeft'[u] = 0
          /\ \A x \in Names \ {u} : failed'[x] = failed[x] /\ lockLeft'[x] = lockLeft[x]
      BY <2>1, <3>1 DEF AInv, Passwords
    <3>3. QED
      BY <2>1, <2>2, <3>1, <3>2 DEF AInv, Passwords
  <2>5. QED
    BY <2>3, <2>4
<1>8. QED
  BY <1>4, <1>5, <1>6, <1>7 DEF AInv

-----------------------------------------------------------------------------
(***************************************************************************)
(* Tokens.                                                                 *)
(***************************************************************************)

LEMMA RevokedType ==
  ASSUME Tokens, NEW S
  PROVE  /\ Revoked(S) \in [TokenIds -> TokenType]
         /\ \A x \in TokenIds : /\ Revoked(S)[x].owner = tokens[x].owner
                                /\ Revoked(S)[x].left = tokens[x].left
                                /\ x \in S => Revoked(S)[x].revoked
                                /\ x \notin S => Revoked(S)[x] = tokens[x]
<1>1. \A x \in TokenIds : tokens[x] \in TokenType
  BY DEF Tokens
<1>2. \A x \in TokenIds :
        /\ [tokens[x] EXCEPT !.revoked = TRUE] \in TokenType
        /\ [tokens[x] EXCEPT !.revoked = TRUE].owner = tokens[x].owner
        /\ [tokens[x] EXCEPT !.revoked = TRUE].left = tokens[x].left
        /\ [tokens[x] EXCEPT !.revoked = TRUE].revoked
  BY <1>1 DEF TokenType
<1>3. QED
  BY <1>1, <1>2 DEF Revoked

\* A token that is valid was issued.
LEMMA ValidIssued ==
  ASSUME Tokens, NEW t \in TokenIds, Valid(t)
  PROVE  t \in Issued /\ family[t] \in Issued /\ 0 < TokenTtl
<1>1. ~(NoToken.left > 0)
  BY DEF NoToken
<1>2. t \in Issued
  BY <1>1 DEF Valid, Issued, Unissued
<1>3. tokens[t].left \in 0 .. TokenTtl
  BY DEF Tokens, TokenType
<1>4. QED
  BY <1>2, <1>3, AccountsAssumption DEF Tokens, Valid

\* A step that neither issues tokens nor makes invalid ones valid, and leaves to each its
\* owner, keeps the rest.
LEMMA TokensAge ==
  ASSUME Tokens, tokens' \in [TokenIds -> TokenType],
         \A x \in TokenIds : /\ tokens'[x].owner = tokens[x].owner
                             /\ Valid(x)' => Valid(x)
                             /\ x \in Unissued => tokens'[x] = NoToken,
         family' = family, astray \subseteq astray', over' \subseteq Issued,
         \A x \in TokenIds :
             family[x] \in over' /\ family[x] \notin over /\ family[x] \notin astray => ~Valid(x)'
  PROVE  Tokens'
<1>1. NoToken.owner \notin Names
  BY AccountsAssumption DEF NoToken
<1>2. Unissued' = Unissued /\ Issued' = Issued
  BY <1>1 DEF Tokens, Unissued, Issued
<1>3. \A x, y \in TokenIds :
         Valid(x)' /\ Valid(y)' /\ family'[x] = family'[y] /\ family'[x] \notin astray' =>
             x = y /\ family'[x] \notin over'
  BY DEF Tokens
<1>4. \A x \in Issued : x \in TokenIds
  BY DEF Issued
<1>5. /\ \A x \in Unissued : family'[x] = 0
      /\ \A x \in Issued : tokens'[x].owner \in Names /\ family'[x] \in Issued
      /\ family' \in [TokenIds -> 0 .. MaxTokens]
  BY <1>4 DEF Tokens
<1>6. QED
  BY <1>2, <1>3, <1>5 DEF Tokens

LEMMA TickSound ==
  ASSUME AInv, Tick
  PROVE  AInv'
<1>1. \A n \in Nat : /\ Aged(n) \in Nat /\ Aged(n) <= n /\ (Aged(n) > 0 => n > 0)
                     /\ Aged(n) = IF n = 0 THEN 0 ELSE n - 1
  BY DEF Aged
<1>2. Chain' /\ Errors'
  BY ChainKept DEF Tick, AInv, Errors
<1>3. Tokens'
  <2>1. /\ tokens' = [t \in TokenIds |-> [tokens[t] EXCEPT !.left = Aged(tokens[t].left)]]
        /\ family' = family /\ over' = over /\ astray' = astray
    BY DEF Tick
  <2>2. \A x \in TokenIds : tokens[x] \in TokenType
    BY DEF AInv, Tokens
  <2>3. \A n \in 0 .. TokenTtl : Aged(n) \in 0 .. TokenTtl /\ (Aged(n) > 0 => n > 0)
    BY <1>1, AccountsAssumption
  <2>4. \A x \in TokenIds : /\ tokens'[x] \in TokenType
                            /\ tokens'[x].owner = tokens[x].owner
                            /\ tokens'[x].left = Aged(tokens[x].left)
                            /\ tokens'[x].revoked = tokens[x].revoked
    BY <2>1, <2>2, <2>3 DEF TokenType
  <2>5. \A x \in TokenIds : Valid(x)' => Valid(x)
    BY <2>2, <2>3, <2>4 DEF Valid, TokenType
  <2>6. \A x \in Unissued : tokens'[x] = NoToken
    BY <2>1, <1>1 DEF Unissued, NoToken
  <2>7. tokens' \in [TokenIds -> TokenType]
    BY <2>1, <2>4
  <2>8. QED
    BY <2>1, <2>4, <2>5, <2>6, <2>7, TokensAge DEF AInv, Tokens
<1>4. Passwords'
  <2>1. /\ lockLeft' = [u \in Names |-> Aged(lockLeft[u])]
        /\ sinceWrong' = [u \in Names |-> Capped(sinceWrong[u] + 1, LockDuration)]
        /\ users' = users /\ failed' = failed /\ wrongs' = wrongs /\ astray' = astray
    BY DEF Tick
  <2>2. \A n \in 0 .. LockDuration :
           /\ Aged(n) \in 0 .. LockDuration
           /\ Capped(n + 1, LockDuration) \in 0 .. LockDuration
           /\ \A m \in 0 .. LockDuration :
                 m = LockDuration - n => Aged(m) = LockDuration - Capped(n + 1, LockDuration)
    BY AccountsAssumption DEF Aged, Capped
  <2>3. /\ lockLeft' \in [Names -> 0 .. LockDuration]
        /\ sinceWrong' \in [Names -> 0 .. LockDuration]
    BY <2>1, <2>2 DEF AInv, Passwords
  <2>4. ASSUME NEW u \in Names, lockLeft'[u] > 0
        PROVE  failed'[u] = MaxLoginFailures
    <3>1. lockLeft[u] \in Nat /\ lockLeft'[u] = Aged(lockLeft[u])
      BY <2>1, AccountsAssumption DEF AInv, Passwords
    <3>2. lockLeft[u] > 0
      BY <1>1, <2>4, <3>1
    <3>3. QED
      BY <2>1, <3>2 DEF AInv, Passwords
  <2>5. ASSUME NEW u \in Names \ astray', wrongs'[u] = MaxLoginFailures
        PROVE  lockLeft'[u] = LockDuration - sinceWrong'[u]
    <3>1. /\ lockLeft[u] \in 0 .. LockDuration /\ sinceWrong[u] \in 0 .. LockDuration
          /\ lockLeft[u] = LockDuration - sinceWrong[u]
      BY <2>1, <2>5 DEF AInv, Passwords
    <3>2. QED
      BY <2>1, <2>2, <3>1
  <2>6. QED
    BY <2>1, <2>3, <2>4, <2>5 DEF AInv, Passwords
<1>5. QED
  BY <1>2, <1>3, <1>4 DEF AInv

\* The new token takes the place of the old one in its login.
LEMMA SupersededSound ==
  ASSUME Tokens, NEW t \in TokenIds, Valid(t), NEW fresh \in Unissued, NEW lost \in BOOLEAN,
         tokens' = Superseded(t, fresh, lost),
         family' = [family EXCEPT ![fresh] = family[t]], over' = over,
         astray \subseteq astray', lost => family[t] \in astray'
  PROVE  Tokens' /\ Valid(fresh)'
<1> DEFINE row == [owner |-> tokens[t].owner, left |-> TokenTtl, revoked |-> FALSE]
           S == IF lost THEN {} ELSE {t}
<1>1. t \in Issued /\ family[t] \in Issued /\ 0 < TokenTtl
  BY ValidIssued
<1>2. row \in TokenType /\ row.owner \in Names /\ row.owner = tokens[t].owner
      /\ row.left = TokenTtl /\ ~row.revoked
  BY <1>1, AccountsAssumption DEF TokenType, Tokens
<1>3. /\ fresh \in TokenIds /\ fresh # t /\ fresh \notin Issued /\ fresh # 0
      /\ family[t] \in 0 .. MaxTokens
  BY <1>1, AccountsAssumption DEF Unissued, TokenIds, Issued
<1>4. tokens' = [Revoked(S) EXCEPT ![fresh] = row]
  BY DEF Superseded
<1> HIDE DEF row, S
<1>5. /\ tokens' \in [TokenIds -> TokenType] /\ tokens'[fresh] = row
      /\ family' \in [TokenIds -> 0 .. MaxTokens] /\ family'[fresh] = family[t]
      /\ \A x \in TokenIds \ {fresh} : tokens'[x] = Revoked(S)[x] /\ family'[x] = family[x]
  BY <1>2, <1>3, <1>4, RevokedType DEF Tokens
<1>6. NoToken.owner \notin Names /\ row # NoToken
  BY <1>2, AccountsAssumption DEF NoToken
<1>7. \A x \in TokenIds \ {fresh} :
         /\ tokens'[x].owner = tokens[x].owner /\ tokens'[x].left = tokens[x].left
         /\ x \in S => tokens'[x].revoked
         /\ x \notin S => tokens'[x] = tokens[x]
  BY <1>5, RevokedType
<1>8. S \subseteq {t}
  BY DEF S
<1>9. \A x \in TokenIds \ {fresh} : tokens'[x] = NoToken <=> tokens[x] = NoToken
  BY <1>1, <1>6, <1>7, <1>8 DEF Tokens, Issued
<1>10. Unissued' = Unissued \ {fresh} /\ Issued' = Issued \union {fresh}
  BY <1>3, <1>5, <1>6, <1>9 DEF Unissued, Issued
<1>11. Valid(fresh)'
  BY <1>1, <1>2, <1>5, AccountsAssumption DEF Valid
<1>12. \A x \in TokenIds \ {fresh} : Valid(x)' => Valid(x) /\ (x = t => lost)
  BY <1>7 DEF Valid, S
<1>13. \A x, y \in TokenIds :
          Valid(x)' /\ Valid(y)' /\ family'[x] = family'[y] /\ family'[x] \notin astray' =>
              x = y /\ family'[x] \notin over'
  <2> SUFFICES ASSUME NEW x \in TokenIds, NEW y \in TokenIds, Valid(x)', Valid(y)',
                      family'[x] = family'[y], family'[x] \notin astray'
               PROVE  x = y /\ family'[x] \notin over'
    OBVIOUS
  <2>1. CASE x = fresh /\ y = fresh
    BY <1>5, <2>1 DEF Tokens
  <2>2. CASE x = fresh /\ y # fresh
    BY <1>5, <1>12, <2>2 DEF Tokens
  <2>3. CASE x # fresh /\ y = fresh
    BY <1>5, <1>12, <2>3 DEF Tokens
  <2>4. CASE x # fresh /\ y # fresh
    BY <1>5, <1>12, <2>4 DEF Tokens
  <2>5. QED
    BY <2>1, <2>2, <2>3, <2>4
<1>14. over' \subseteq Issued'
  BY <1>10 DEF Tokens
<1>15. /\ \A x \in Unissued' : family'[x] = 0
       /\ \A x \in Issued' : tokens'[x].owner \in Names /\ family'[x] \in Issued'
  BY <1>1, <1>2, <1>3, <1>5, <1>7, <1>10 DEF Tokens, Unissued, Issued
<1>16. QED
  BY <1>2, <1>5, <1>11, <1>13, <1>14, <1>15 DEF Tokens

\* A refresh, and what it leaves the client.
LEMMA RefreshSound ==
  ASSUME AInv, NEW t \in TokenIds, Refresh(t)
  PROVE  /\ AInv'
         /\ \E x \in TokenIds : Valid(x)' /\ family'[x] = family[t]
<1>1. PICK F \in Faults({"issue", "revoke"}) :
        /\ IF "issue" \in F
           THEN RefreshFails(t) /\ UNCHANGED <<family, astray>>
           ELSE \E fresh \in Unissued :
                    /\ tokens' = Superseded(t, fresh, "revoke" \in F)
                    /\ family' = [family EXCEPT ![fresh] = family[t]]
                    /\ astray' = IF "revoke" \in F THEN astray \union {family[t]} ELSE astray
        /\ storeError' = (storeError \/ F # {})
        /\ Count(F)
  BY DEF Refresh
<1>2. /\ Valid(t) /\ over' = over
      /\ UNCHANGED <<users, failed, lockLeft, wrongs, sinceWrong, auditVars>>
  BY DEF Refresh
<1>3. astray \subseteq astray'
  BY <1>1
<1>4. Chain' /\ Passwords' /\ Errors'
  <2>1. Chain'
    BY <1>2, ChainKept DEF AInv
  <2>2. Passwords'
    BY <1>2, <1>3, PasswordsKept DEF AInv, Passwords
  <2>3. Errors'
    BY <1>1, FaultsCounted DEF AInv, Errors
  <2>4. QED
    BY <2>1, <2>2, <2>3
<1>5. CASE "issue" \in F
  <2>1. tokens' = tokens /\ family' = family
    BY <1>1, <1>5 DEF RefreshFails
  <2>2. Tokens'
    BY <1>2, <1>3, <2>1, TokensKept DEF AInv
  <2>3. Valid(t)'
    BY <1>2, <2>1 DEF Valid
  <2>4. QED
    BY <1>4, <2>1, <2>2, <2>3 DEF AInv
<1>6. CASE "issue" \notin F
  <2> DEFINE lost == "revoke" \in F
  <2>1. PICK fresh \in Unissued :
          /\ tokens' = Superseded(t, fresh, lost)
          /\ family' = [family EXCEPT ![fresh] = family[t]]
          /\ astray' = IF lost THEN astray \union {family[t]} ELSE astray
    BY <1>1, <1>6
  <2>2. lost \in BOOLEAN /\ (lost => family[t] \in astray')
    BY <2>1
  <2> HIDE DEF lost
  <2>3. Tokens' /\ Valid(fresh)'
    BY <1>2, <1>3, <2>1, <2>2, SupersededSound DEF AInv
  <2>4. fresh \in TokenIds /\ family'[fresh] = family[t]
    BY <2>1 DEF AInv, Tokens, Unissued
  <2>5. QED
    BY <1>4, <2>3, <2>4 DEF AInv
<1>7. QED
  BY <1>5, <1>6

LEMMA LogoutSound ==
  ASSUME AInv, NEW t \in TokenIds, Logout(t)
  PROVE  AInv'
<1>1. PICK F \in Faults({"revoke"} \union RecordFaults) :
        /\ IF Valid(t)
           THEN /\ Record(AuditFault(F))
                /\ over' = IF "revoke" \in F THEN over ELSE over \union {family[t]}
           ELSE UNCHANGED <<auditVars, over>>
        /\ tokens' = IF "revoke" \in F THEN tokens ELSE Revoked({t})
        /\ storeError' = (storeError \/ "revoke" \in F)
        /\ Count(F)
  BY DEF Logout
<1>2. /\ t \notin Unissued
      /\ UNCHANGED <<users, failed, lockLeft, wrongs, sinceWrong, family, astray>>
  BY DEF Logout
<1>3. Passwords'
  BY <1>2, PasswordsKept DEF AInv, Passwords
<1>4. Chain'
  <2>1. Record(AuditFault(F)) \/ UNCHANGED auditVars
    BY <1>1
  <2>2. QED
    BY <2>1, RecordKeepsChain, ChainKept DEF AInv
<1>5. Errors'
  BY <1>1, FaultsCounted DEF AInv, Errors
<1>6. Tokens'
  <2>1. CASE tokens' = tokens /\ over' = over
    BY <1>2, <2>1, TokensKept DEF AInv
  <2>2. CASE /\ tokens' = Revoked({t})
             /\ over' = IF Valid(t) THEN over \union {family[t]} ELSE over
    <3>1. /\ tokens' \in [TokenIds -> TokenType]
          /\ \A x \in TokenIds : /\ tokens'[x].owner = tokens[x].owner
                                 /\ tokens'[x].left = tokens[x].left
                                 /\ x = t => tokens'[x].revoked
                                 /\ x # t => tokens'[x] = tokens[x]
      BY <2>2, RevokedType DEF AInv
    <3>2. \A x \in TokenIds : Valid(x)' => Valid(x) /\ x # t
      BY <3>1 DEF Valid
    <3>3. \A x \in Unissued : tokens'[x] = NoToken
      BY <1>2, <3>1 DEF Unissued
    <3>4. over' \subseteq Issued
      <4>1. Valid(t) => family[t] \in Issued
        BY ValidIssued DEF AInv
      <4>2. QED
        BY <2>2, <4>1 DEF AInv, Tokens
    <3>5. ASSUME NEW x \in TokenIds, family[x] \in over', family[x] \notin over,
                 family[x] \notin astray, Valid(x)'
          PROVE  FALSE
      <4>1. Valid(t) /\ family[x] = family[t] /\ Valid(x) /\ x # t
        BY <2>2, <3>2, <3>5
      <4>2. QED
        BY <3>5, <4>1 DEF AInv, Tokens
    <3>6. QED
      BY <1>2, <3>1, <3>2, <3>3, <3>4, <3>5, TokensAge DEF AInv
  <2>3. QED
    BY <1>1, <2>1, <2>2
<1>7. QED
  BY <1>3, <1>4, <1>5, <1>6 DEF AInv

-----------------------------------------------------------------------------
(***************************************************************************)
(* Every step.                                                             *)
(***************************************************************************)

LEMMA RegisterSound ==
  ASSUME AInv, NEW u \in Names, Register(u)
  PROVE  AInv'
<1>1. PICK F \in Faults({"userQuery", "insertUser"} \union RecordFaults) :
        /\ \/ RegisterFails(u, F) /\ storeError' = TRUE /\ UNCHANGED <<users, auditVars>>
           \/ /\ u \notin users /\ ~storeError /\ ~RegisterFails(u, F)
              /\ users' = users \union {u}
              /\ Record(AuditFault(F))
              /\ UNCHANGED storeError
        /\ Count(F)
  BY DEF Register
<1>2. UNCHANGED <<failed, lockLeft, tokens, wrongs, sinceWrong, family, over, astray>>
  BY DEF Register
<1>3. /\ users' \subseteq users \union {u}
      /\ storeError' \in {TRUE, storeError}
      /\ Record(AuditFault(F)) \/ UNCHANGED auditVars
  BY <1>1
<1>4. Chain'
  BY <1>3, RecordKeepsChain, ChainKept DEF AInv
<1>5. Passwords'
  BY <1>2, <1>3, PasswordsKept DEF AInv, Passwords
<1>6. Tokens'
  BY <1>2, TokensKept DEF AInv
<1>7. Errors'
  BY <1>1, <1>3, FaultsCounted DEF AInv, Errors
<1>8. QED
  BY <1>4, <1>5, <1>6, <1>7 DEF AInv

LEMMA UnknownSound ==
  ASSUME AInv, NEW u \in Names, LoginUnknown(u)
  PROVE  AInv'
<1>1. PICK F \in Faults({"lockQuery", "userQuery"} \union RecordFaults) :
        Record(AuditFault(F)) /\ Count(F)
  BY DEF LoginUnknown
<1>2. UNCHANGED <<users, failed, lockLeft, tokens, storeError, wrongs, sinceWrong, family,
                  over, astray>>
  BY DEF LoginUnknown
<1>3. Chain'
  BY <1>1, RecordKeepsChain DEF AInv
<1>4. Passwords' /\ Tokens'
  BY <1>2, PasswordsKept, TokensKept DEF AInv, Passwords
<1>5. Errors'
  BY <1>1, <1>2, FaultsCounted DEF AInv, Errors
<1>6. QED
  BY <1>3, <1>4, <1>5 DEF AInv

LEMMA RestartSound ==
  ASSUME AInv, Restart
  PROVE  AInv'
<1>1. /\ faults' = faults + 1 /\ faults < MaxFaults /\ storeError' = FALSE
      /\ users' = (IF users = {} THEN Seeds ELSE users)
      /\ logError' = FALSE /\ UNCHANGED <<log, blind>>
      /\ UNCHANGED <<failed, lockLeft, tokens, wrongs, sinceWrong, family, over, astray>>
  BY DEF Restart, AuditRestart
<1>2. Chain'
  BY <1>1 DEF AInv, Chain, AuditTypeOK, HashOf
<1>3. users' \subseteq Names
  BY <1>1, AccountsAssumption DEF AInv, Passwords
<1>4. Passwords' /\ Tokens'
  BY <1>1, <1>3, PasswordsKept, TokensKept DEF AInv
<1>5. Errors'
  <2>1. storeError' \in BOOLEAN
    BY <1>1
  <2>2. faults' \in 0 .. MaxFaults
    <3>1. faults \in 0 .. MaxFaults /\ MaxFaults \in Nat
      BY AccountsAssumption DEF AInv, Errors
    <3>2. QED
      BY <1>1, <3>1
  <2>3. QED
    BY <2>1, <2>2 DEF Errors
<1>6. QED
  BY <1>2, <1>4, <1>5 DEF AInv

LEMMA InitSound ==
  ASSUME Init
  PROVE  AInv
<1>1. Chain
  <2>1. log = <<>> /\ logError = FALSE /\ blind = {}
    BY DEF Init, AuditInit
  <2> DEFINE Row == [prev : Genesis .. MaxRows, hashed : BOOLEAN]
  <2> HIDE DEF Row
  <2>2. Len(log) = 0 /\ log \in Seq(Row)
    BY <2>1
  <2>3. AuditTypeOK
    <3>1. Len(log) <= MaxRows
      BY <2>2, AuditAssumption
    <3>2. logError \in BOOLEAN /\ blind \subseteq 2 .. MaxRows
      BY <2>1, Zenon
    <3>3. log \in Seq([prev : Genesis .. MaxRows, hashed : BOOLEAN])
      BY <2>2 DEF Row
    <3>4. QED
      BY <3>1, <3>2, <3>3, Zenon DEF AuditTypeOK
  <2>4. 1 .. Len(log) = {}
    BY <2>2
  <2>5. QED
    BY <2>1, <2>3, <2>4 DEF Chain
<1>2. Passwords
  BY AccountsAssumption DEF Init, Passwords
<1>3. Errors
  <2>1. storeError = (users # Seeds) /\ faults = IF users = Seeds THEN 0 ELSE 1
    BY DEF Init
  <2>2. storeError \in BOOLEAN
    BY <2>1
  <2>3. faults \in 0 .. MaxFaults
    BY <2>1, AccountsAssumption
  <2>4. QED
    BY <2>2, <2>3 DEF Errors
<1>4. Tokens
  <2>1. /\ tokens = [t \in TokenIds |-> NoToken] /\ family = [t \in TokenIds |-> 0] /\ over = {}
    BY DEF Init
  <2>2. NoToken \in TokenType /\ NoToken.revoked
    BY AccountsAssumption DEF NoToken, TokenType
  <2>3. 0 \in 0 .. MaxTokens
    BY AccountsAssumption
  <2>4. /\ tokens \in [TokenIds -> TokenType]
        /\ family \in [TokenIds -> 0 .. MaxTokens] /\ \A t \in TokenIds : family[t] = 0
    BY <2>1, <2>2, <2>3
  <2>5. Unissued = TokenIds /\ Issued = {} /\ \A t \in TokenIds : ~Valid(t)
    BY <2>1, <2>2 DEF Unissued, Issued, Valid
  <2>6. QED
    BY <2>1, <2>4, <2>5 DEF Tokens
<1>5. QED
  BY <1>1, <1>2, <1>3, <1>4 DEF AInv

LEMMA StepSound ==
  ASSUME AInv, [Next]_vars
  PROVE  AInv'
<1>1. ASSUME NEW u \in Names, Register(u) \/ LoginWrong(u) \/ LoginUnknown(u) \/ LoginRight(u)
      PROVE  AInv'
  BY <1>1, RegisterSound, WrongSound, UnknownSound, RightSound
<1>2. ASSUME NEW t \in TokenIds, Refresh(t) \/ Logout(t)
      PROVE  AInv'
  BY <1>2, RefreshSound, LogoutSound
<1>3. CASE Tick \/ Restart
  BY <1>3, TickSound, RestartSound
<1>4. CASE UNCHANGED vars
  <2>1. /\ UNCHANGED <<tokens, family, over, astray>>
        /\ UNCHANGED <<failed, lockLeft, wrongs, sinceWrong, users>>
        /\ UNCHANGED <<storeError, faults>> /\ UNCHANGED auditVars
    BY <1>4 DEF vars, auditVars
  <2>2. Tokens' /\ Passwords'
    BY <2>1, TokensKept, PasswordsKept DEF AInv, Passwords
  <2>3. Chain'
    BY <2>1, ChainKept DEF AInv
  <2>4. Errors'
    BY <2>1 DEF AInv, Errors
  <2>5. QED
    BY <2>2, <2>3, <2>4 DEF AInv
<1>5. QED
  BY <1>1, <1>2, <1>3, <1>4 DEF Next

-----------------------------------------------------------------------------
(***************************************************************************)
(* The theorems.                                                           *)
(***************************************************************************)

THEOREM AccountsInductive == Spec => []AInv
<1>1. Init => AInv
  BY InitSound
<1>2. AInv /\ [Next]_vars => AInv'
  BY StepSound
<1>3. QED
  BY <1>1, <1>2, PTL DEF Spec

\* After the last of the wrong passwords allowed the account is locked for the whole time,
\* for any limit and any duration, unless a write of the counter failed (noteLoginFailure,
\* clearLoginFailures, verifyLogin).
THEOREM LockIsKept == Spec => []LockHolds
<1>1. AInv => LockHolds
  <2> SUFFICES ASSUME AInv
               PROVE  LockHolds
    OBVIOUS
  <2>1. over \subseteq TokenIds
    BY DEF AInv, Tokens, Issued
  <2>2. \A t \in TokenIds : tokens[t].left \in 0 .. TokenTtl
    BY DEF AInv, Tokens, TokenType
  <2>3. TypeOK
    BY <2>1, <2>2 DEF AInv, Passwords, Tokens, Chain, Errors, TypeOK
  <2>4. QED
    BY <2>3 DEF AInv, Passwords, LockHolds
<1>2. QED
  BY <1>1, AccountsInductive, PTL

\* Any number of refreshes leaves one valid token to a login, and a log-out none, unless a
\* revocation could not be written (handleRefresh, handleLogout).
THEOREM TokensDoNotMultiply == Spec => []OneTokenPerLogin
<1>1. AInv => OneTokenPerLogin
  <2> SUFFICES ASSUME AInv, NEW g \in TokenIds \ astray
               PROVE  Cardinality({t \in TokenIds : family[t] = g /\ Valid(t)})
                        <= IF g \in over THEN 0 ELSE 1
    BY DEF OneTokenPerLogin
  <2> DEFINE S == {t \in TokenIds : family[t] = g /\ Valid(t)}
  <2>1. \A x, y \in S : x = y /\ g \notin over
    BY DEF AInv, Tokens
  <2>2. CASE S = {}
    <3>1. Cardinality(S) = 0
      BY <2>2, FS_EmptySet
    <3>2. QED
      BY <3>1
  <2>3. CASE S # {}
    <3>1. PICK x \in S : TRUE
      BY <2>3
    <3>2. S = {x} /\ g \notin over
      BY <2>1, <3>1
    <3>3. Cardinality({x}) = 1
      BY FS_Singleton
    <3> HIDE DEF S
    <3>4. Cardinality(S) = 1
      BY <3>2, <3>3
    <3>5. QED
      BY <3>2, <3>4 DEF S
  <2>4. QED
    BY <2>2, <2>3
<1>2. QED
  BY <1>1, AccountsInductive, PTL

\* A refresh leaves its client a valid token that stems from the same login, whichever
\* statement fails.
THEOREM ClientKeepsToken == Spec => RefreshKeepsClient
<1>1. AInv /\ [Next]_vars =>
        [\A t \in TokenIds : Valid(t) /\ Refresh(t) =>
            \E x \in TokenIds : Valid(x)' /\ family'[x] = family[t]]_vars
  BY RefreshSound
<1>2. QED
  BY <1>1, AccountsInductive, PTL DEF Spec, RefreshKeepsClient

\* verifyChain finds the first row a fault spoiled, in a log of any length.
THEOREM ChainIsVerified == Spec => []VerifyFindsFault
<1>1. AInv => VerifyFindsFault
  BY ChainVerified DEF AInv
<1>2. QED
  BY <1>1, AccountsInductive, PTL
=============================================================================
