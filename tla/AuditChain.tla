---------------------------- MODULE AuditChain ----------------------------
(***************************************************************************)
(* The hash chain of the audit log (core/service/AuditLogService.cpp).  A  *)
(* row is inserted without its hash, because the hash covers the id the    *)
(* insertion yields, and completed by a second statement; it carries the   *)
(* hash of the row before it.  Either statement, or the query for the last *)
(* row, may fail, and the program may stop between the two.                *)
(*                                                                         *)
(* Abstracted: the hash of a complete row is its id, which no other row    *)
(* has; actors, actions and times are left out.                            *)
(***************************************************************************)
EXTENDS Integers, Sequences

CONSTANT MaxRows  \* the log is followed up to this length

ASSUME AuditAssumption == MaxRows \in Nat

VARIABLES
    log,       \* audit_logs in the order of their ids
    logError,  \* lastError_ is not empty; it is never cleared
    blind      \* history: rows written after the row before them could not be read

auditVars == <<log, logError, blind>>

Empty == 0      \* the hash of a row that was not completed
Genesis == -1   \* kGenesisHash

\* What may go wrong in one call of record.
RecordFaults == {"lookup", "insert", "update"}

HashOf(i) == IF log[i].hashed THEN i ELSE Empty

AuditInit == log = <<>> /\ logError = FALSE /\ blind = {}

\* Mutant of PrevHash: the row after an incomplete one starts a new chain.
PrevHashOrGenesis(seen) ==
    IF seen /\ HashOf(Len(log)) # Empty THEN HashOf(Len(log)) ELSE Genesis

\* The hash of the last row, if lastEntry sees one.
PrevHash(seen) == IF seen THEN HashOf(Len(log)) ELSE Genesis

\* record, where fault is what fails in it, if anything.  An error of an earlier call
\* makes it give up when there is no last row.
Record(fault) ==
    LET seen == log # <<>> /\ fault # "lookup" IN
    CASE Len(log) = MaxRows \/ (~seen /\ logError) -> UNCHANGED auditVars
      [] OTHER ->
           IF fault = "insert"
           THEN logError' = TRUE /\ UNCHANGED <<log, blind>>
           ELSE /\ log' = Append(log, [prev |-> PrevHash(seen), hashed |-> fault # "update"])
                /\ logError' = (logError \/ fault = "update")
                /\ blind' = IF log # <<>> /\ ~seen THEN blind \union {Len(log) + 1} ELSE blind

\* The program starts again.
AuditRestart == logError' = FALSE /\ UNCHANGED <<log, blind>>

\* A row verifyChain objects to, those before it being in order.
Objectionable(i) == ~log[i].hashed \/ log[i].prev # (IF i = 1 THEN Genesis ELSE HashOf(i - 1))

Smallest(S) == CHOOSE x \in S : \A y \in S : x <= y

\* verifyChain: brokenAtId, or 0 when the chain is whole.
BrokenAt ==
    LET bad == {i \in 1 .. Len(log) : Objectionable(i)} IN
    IF bad = {} THEN 0 ELSE Smallest(bad)

AuditTypeOK ==
    /\ log \in Seq([prev : Genesis .. MaxRows, hashed : BOOLEAN])
    /\ Len(log) <= MaxRows
    /\ logError \in BOOLEAN
    /\ blind \subseteq 2 .. MaxRows

\* verifyChain points at the first row that a fault spoiled, and finds the chain whole
\* when there is none: no order of records, failures and restarts breaks a link by itself,
\* and a row written after an incomplete one is chained to it.
VerifyFindsFault ==
    LET spoiled == {i \in 1 .. Len(log) : ~log[i].hashed} \union blind IN
    /\ BrokenAt = IF spoiled = {} THEN 0 ELSE Smallest(spoiled)
    /\ \A i \in 2 .. Len(log) : log[i].prev = HashOf(i - 1) \/ i \in blind
=============================================================================
