---------------------------- MODULE Idempotency -----------------------------
(***************************************************************************)
(* Idempotent command processing at core: executeMutation and the two      *)
(* stores behind it (services/core/internal/idempotency).  The in-memory   *)
(* store shares the entry of a running request with its duplicates; the    *)
(* PostgreSQL store takes an advisory lock on the scope and writes the     *)
(* answer in a transaction of its own, after the business transaction has  *)
(* committed.  The two transactions have a connection each, so that either *)
(* may be lost without the other.  Requests run concurrently, clients      *)
(* disconnect and retry, handlers panic, and a commit may take effect      *)
(* after whoever asked for it has given up.                                *)
(*                                                                         *)
(* What an operation does to the business tables is an element of applied; *)
(* the tables themselves are the subject of the other modules.             *)
(***************************************************************************)
EXTENDS Access, Sequences, FiniteSets

CONSTANTS
  Calls,         \* what clients may send
  MaxRequests, MaxFaults   \* bounds: requests, and panics, losses and expiries together

VARIABLES
  backend,       \* the configured store, "memory" or "postgres"
  pc,            \* where each request is
  call,          \* the call it carries
  scope,         \* the scope executeMutation computed for it
  rows,          \* scope -> entry or idempotency_records row, None when absent
  lock,          \* scope -> request holding the advisory lock (PostgreSQL)
  severed,       \* requests whose transaction in the store was lost, and the lock with it
  inFlight,      \* requests whose operation's commit is sent and not confirmed
  waits,         \* request -> owner of the entry it waits for (memory)
  result,        \* request -> status its operation returned
  answer,        \* request -> [status, replayed] sent to the client
  applied,       \* operations committed to the business tables, in order
  audited,       \* operation ids of audit_events
  faults         \* panics, losses and expiries so far

idemVars == <<backend, pc, call, scope, rows, lock, severed, inFlight, waits, result, answer,
              applied, audited, faults>>
\* HTTP requests in the order they arrive; a retry is another request with
\* the same call.
Requests == 1..MaxRequests

sessionVars == <<severed, inFlight>>

Aborted == 0     \* the result of an entry whose owner panicked

PrincipalOf(r) == Authenticate(call[r])
PrintOf(r)     == fingerprint(call[r])
AllScopes == {scopeOf(Authenticate(c), c) : c \in {d \in Calls : Authenticate(d) # None}}

\* What a store keeps of a scope; the status is None while its owner runs.
Entries ==
  [print : {fingerprint(c) : c \in Calls}, owner : Requests, status : Nat \cup {None}]

\* None stands for what is absent, so it is nothing that can be present.
ASSUME IdemAssumption ==
  /\ MaxRequests \in Nat
  /\ None \notin Nat /\ None \notin Calls /\ None \notin AllScopes /\ None \notin Entries

Answered(r, status, replayed) ==
  /\ pc' = [pc EXCEPT ![r] = "answered"]
  /\ answer' = [answer EXCEPT ![r] = [status |-> status, replayed |-> replayed]]
-----------------------------------------------------------------------------
(* Arrival *)

\* A request passes the checks of ServeHTTP and executeMutation, or is refused.
\* An authorized batch of a device has a handler of its own (CoreSync).
executeMutation(r, c) ==
  /\ pc[r] = "idle" /\ \A q \in 1..(r - 1) : pc[q] # "idle"
  /\ c.route.path = "sync" => ServeHTTP(c) # None
  /\ call' = [call EXCEPT ![r] = c]
  /\ LET refusal == IF ServeHTTP(c) # None THEN ServeHTTP(c)
                    ELSE ingressStatus(Authenticate(c), c)
     IN IF refusal = None
        THEN /\ pc' = [pc EXCEPT ![r] = "arrived"]
             /\ scope' = [scope EXCEPT ![r] = scopeOf(Authenticate(c), c)]
             /\ UNCHANGED answer
        ELSE Answered(r, refusal, FALSE) /\ UNCHANGED scope
  /\ UNCHANGED <<backend, sessionVars, rows, lock, waits, result, applied, audited, faults>>
-----------------------------------------------------------------------------
(* The in-memory store *)

\* Faulty: an entry is replayed whatever request made it.
MemoryDoIgnoresFingerprint(r) ==
  /\ backend = "memory" /\ pc[r] = "arrived"
  /\ LET s == scope[r] IN
     IF rows[s] = None
     THEN /\ rows' = [rows EXCEPT ![s] = [print |-> PrintOf(r), owner |-> r, status |-> None]]
          /\ pc' = [pc EXCEPT ![r] = "running"]
          /\ UNCHANGED <<waits, answer>>
     ELSE /\ pc' = [pc EXCEPT ![r] = "waiting"]
          /\ waits' = [waits EXCEPT ![r] = rows[s].owner]
          /\ UNCHANGED <<rows, answer>>
  /\ UNCHANGED <<backend, sessionVars, call, scope, lock, result, applied, audited, faults>>

\* Under the mutex: own a new entry, wait for the existing one, or conflict.
MemoryDo(r) ==
  /\ backend = "memory" /\ pc[r] = "arrived"
  /\ LET s == scope[r] IN
     IF rows[s] = None
     THEN /\ rows' = [rows EXCEPT ![s] = [print |-> PrintOf(r), owner |-> r, status |-> None]]
          /\ pc' = [pc EXCEPT ![r] = "running"]
          /\ UNCHANGED <<waits, answer>>
     ELSE IF rows[s].print # PrintOf(r)
     THEN Answered(r, 409, FALSE) /\ UNCHANGED <<rows, waits>>
     ELSE /\ pc' = [pc EXCEPT ![r] = "waiting"]
          /\ waits' = [waits EXCEPT ![r] = rows[s].owner]
          /\ UNCHANGED <<rows, answer>>
  /\ UNCHANGED <<backend, sessionVars, call, scope, lock, result, applied, audited, faults>>

\* The entry's channel is closed: replay its result, or start over when its
\* owner panicked.
MemoryWake(r) ==
  LET owner == waits[r] IN
  /\ pc[r] = "waiting"
  /\ waits' = [waits EXCEPT ![r] = None]
  /\ \/ pc[owner] = "answered" /\ result[owner] \notin {None, Aborted}
        /\ Answered(r, result[owner], TRUE)
     \/ result[owner] = Aborted /\ pc' = [pc EXCEPT ![r] = "arrived"] /\ UNCHANGED answer
  /\ UNCHANGED <<backend, sessionVars, call, scope, rows, lock, result, applied, audited, faults>>

\* The waiting request's own context ends first.
MemoryCancel(r) ==
  /\ pc[r] = "waiting" /\ faults < MaxFaults
  /\ faults' = faults + 1
  /\ waits' = [waits EXCEPT ![r] = None]
  /\ Answered(r, 503, FALSE)
  /\ UNCHANGED <<backend, sessionVars, call, scope, rows, lock, result, applied, audited>>

\* The owner publishes its result and closes the channel.
executeOwned(r) ==
  /\ backend = "memory" /\ pc[r] = "ran"
  /\ rows' = [rows EXCEPT ![scope[r]].status = result[r]]
  /\ Answered(r, result[r], FALSE)
  /\ UNCHANGED <<backend, sessionVars, call, scope, lock, waits, result, applied, audited, faults>>

\* Faulty: a panic leaves the entry and its waiters behind.
executeOwnedAbortKeepsEntry(r) ==
  /\ backend = "memory" /\ pc[r] = "running" /\ faults < MaxFaults
  /\ faults' = faults + 1
  /\ Answered(r, 500, FALSE)
  /\ UNCHANGED <<backend, sessionVars, call, scope, lock, waits, result, rows, applied, audited>>

\* The operation panics: the entry is removed, its channel closed as aborted,
\* and ServeHTTP recovers.
executeOwnedAbort(r) ==
  /\ backend = "memory" /\ pc[r] = "running" /\ faults < MaxFaults
  /\ faults' = faults + 1
  /\ result' = [result EXCEPT ![r] = Aborted]
  /\ rows' = [rows EXCEPT ![scope[r]] = None]
  /\ Answered(r, 500, FALSE)
  /\ UNCHANGED <<backend, sessionVars, call, scope, lock, waits, applied, audited>>
-----------------------------------------------------------------------------
(* The PostgreSQL store *)

\* Faulty: the record is read without the scope's lock.
PostgresLockNone(r) ==
  /\ backend = "postgres" /\ pc[r] = "arrived"
  /\ pc' = [pc EXCEPT ![r] = "locked"]
  /\ UNCHANGED <<backend, sessionVars, call, scope, rows, lock, waits, result, answer, applied, audited, faults>>

\* Begin the transaction and take the advisory lock on the scope.
PostgresLock(r) ==
  /\ backend = "postgres" /\ pc[r] = "arrived" /\ r \notin severed
  /\ lock[scope[r]] = None
  /\ lock' = [lock EXCEPT ![scope[r]] = r]
  /\ pc' = [pc EXCEPT ![r] = "locked"]
  /\ UNCHANGED <<backend, sessionVars, call, scope, rows, waits, result, answer, applied, audited, faults>>

\* Look the record up: replay it, conflict with it, or run the operation.
PostgresDo(r) ==
  /\ pc[r] = "locked" /\ r \notin severed
  /\ LET s == scope[r] IN
     IF rows[s] = None
     THEN pc' = [pc EXCEPT ![r] = "running"] /\ UNCHANGED <<lock, answer>>
     ELSE /\ lock' = [lock EXCEPT ![s] = None]
          /\ IF rows[s].print # PrintOf(r) THEN Answered(r, 409, FALSE)
             ELSE Answered(r, rows[s].status, TRUE)
  /\ UNCHANGED <<backend, sessionVars, call, scope, rows, waits, result, applied, audited, faults>>

\* Insert the completed record.
SaveRecord(r) ==
  rows' = [rows EXCEPT ![scope[r]] = [print |-> PrintOf(r), owner |-> r, status |-> result[r]]]

ReleaseLock(r) ==
  lock' = IF lock[scope[r]] = r THEN [lock EXCEPT ![scope[r]] = None] ELSE lock

\* Insert, commit and answer.
PostgresRecord(r) ==
  /\ backend = "postgres" /\ pc[r] = "ran" /\ r \notin severed
  /\ SaveRecord(r) /\ ReleaseLock(r)
  /\ Answered(r, result[r], FALSE)
  /\ UNCHANGED <<backend, sessionVars, call, scope, waits, result, applied, audited, faults>>

\* What becomes of a record when the transaction ends early: it is there only if
\* its commit had been sent.
RecordLost(r) == UNCHANGED rows \/ (pc[r] = "ran" /\ r \notin severed /\ SaveRecord(r))

\* The store's connection is lost and PostgreSQL frees the lock.  The request
\* goes on, and so does its operation, which has a connection of its own.
PostgresSever(r) ==
  /\ backend = "postgres" /\ pc[r] \in {"arrived", "locked", "running", "ran"} /\ r \notin severed
  /\ faults < MaxFaults
  /\ faults' = faults + 1
  /\ severed' = severed \cup {r}
  /\ ReleaseLock(r) /\ RecordLost(r)
  /\ UNCHANGED <<backend, inFlight, pc, call, scope, waits, result, answer, applied, audited>>

\* The next statement on the lost connection fails.
PostgresFail(r) ==
  /\ pc[r] \in {"arrived", "locked", "ran"} /\ r \in severed
  /\ Answered(r, 503, FALSE)
  /\ UNCHANGED <<backend, sessionVars, call, scope, rows, lock, waits, result, applied, audited, faults>>

\* The client disconnects or the process dies: the store's transaction ends.  An
\* operation still running is left to the database, which may commit it.
PostgresLose(r) ==
  /\ backend = "postgres" /\ pc[r] \in {"arrived", "locked", "running", "ran"}
  /\ faults < MaxFaults
  /\ faults' = faults + 1
  /\ ReleaseLock(r) /\ RecordLost(r)
  /\ inFlight' = IF pc[r] = "running" THEN inFlight \cup {r} ELSE inFlight
  /\ pc' = [pc EXCEPT ![r] = "gone"]
  /\ UNCHANGED <<backend, severed, call, scope, waits, result, answer, applied, audited>>

\* The operation panics: the deferred rollback frees the lock.
PostgresPanic(r) ==
  /\ backend = "postgres" /\ pc[r] = "running" /\ faults < MaxFaults
  /\ faults' = faults + 1
  /\ ReleaseLock(r)
  /\ Answered(r, 500, FALSE)
  /\ UNCHANGED <<backend, sessionVars, call, scope, rows, waits, result, applied, audited>>
-----------------------------------------------------------------------------
(* The operation, in a transaction of its own *)

\* Faulty: audit_events has no unique operation id.
insertAuditAlways(op) == TRUE

\* Every business transaction ends by inserting its operation id.
insertAudit(op) == op \notin audited

Ran(r, status) ==
  /\ result' = [result EXCEPT ![r] = status]
  /\ pc' = [pc EXCEPT ![r] = "ran"]
  /\ UNCHANGED <<backend, severed, call, scope, rows, lock, waits, answer>>

TakesEffect(r) ==
  /\ insertAudit(call[r].op)
  /\ applied' = Append(applied, call[r].op)
  /\ audited' = audited \cup {call[r].op}

\* The transaction commits with its audit row.
OperationCommits(r) ==
  pc[r] = "running" /\ TakesEffect(r) /\ Ran(r, 201) /\ UNCHANGED <<inFlight, faults>>

\* repositoryError: the operation id is taken, or a rule of the business
\* refuses; everything is rolled back.
OperationFails(r) ==
  /\ pc[r] = "running"
  /\ (~insertAudit(call[r].op) /\ Ran(r, 409)) \/ Ran(r, 422)
  /\ UNCHANGED <<inFlight, applied, audited, faults>>

\* The database fails, possibly after withTenant's commit was sent.
OperationCommitUnknown(r) ==
  /\ backend = "postgres" /\ pc[r] = "running" /\ faults < MaxFaults
  /\ faults' = faults + 1
  /\ inFlight' = inFlight \cup {r}
  /\ Ran(r, 500) /\ UNCHANGED <<applied, audited>>

\* The database commits what nobody waits for; or it never does, and rolls back.
OperationCommitsLate(r) ==
  /\ r \in inFlight /\ TakesEffect(r)
  /\ inFlight' = inFlight \ {r}
  /\ UNCHANGED <<backend, severed, pc, call, scope, rows, lock, waits, result, answer, faults>>

\* A completed row outlives its retention and is deleted.
removeExpired(s) ==
  /\ faults < MaxFaults
  /\ rows[s] # None /\ rows[s].status # None
  /\ faults' = faults + 1
  /\ rows' = [rows EXCEPT ![s] = None]
  /\ UNCHANGED <<backend, sessionVars, pc, call, scope, lock, waits, result, answer, applied, audited>>
-----------------------------------------------------------------------------
Proceed(r) ==
  \/ MemoryDo(r) \/ MemoryWake(r) \/ executeOwned(r)
  \/ PostgresLock(r) \/ PostgresDo(r) \/ PostgresRecord(r) \/ PostgresFail(r)
  \/ OperationCommits(r) \/ OperationFails(r)

Fault(r) ==
  \/ MemoryCancel(r) \/ executeOwnedAbort(r)
  \/ PostgresSever(r) \/ PostgresLose(r) \/ PostgresPanic(r)
  \/ OperationCommitUnknown(r) \/ OperationCommitsLate(r)

IdemInit ==
  /\ backend \in {"memory", "postgres"}
  /\ pc = [r \in Requests |-> "idle"]
  /\ call = [r \in Requests |-> None] /\ scope = [r \in Requests |-> None]
  /\ rows = [s \in AllScopes |-> None]
  /\ lock = [s \in AllScopes |-> None]
  /\ severed = {} /\ inFlight = {}
  /\ waits = [r \in Requests |-> None]
  /\ result = [r \in Requests |-> None]
  /\ answer = [r \in Requests |-> None]
  /\ applied = <<>> /\ audited = {}
  /\ faults = 0

IdemNext ==
  \/ \E r \in Requests, c \in Calls : executeMutation(r, c)
  \/ \E r \in Requests : Proceed(r) \/ Fault(r)
  \/ \E s \in AllScopes : removeExpired(s)

\* Go runs every handler to its end and wakes every waiter.
IdemSpec == IdemInit /\ [][IdemNext]_idemVars /\ WF_idemVars(\E r \in Requests : Proceed(r))
-----------------------------------------------------------------------------
(* Properties *)

\* An operation takes effect at most once, although its record may be lost
\* after the effect, expire, or belong to another idempotency key: the audit
\* row of the same transaction decides (postgres_repository.go insertAudit).
OperationOnce ==
  \A i, j \in DOMAIN applied : i # j => applied[i] # applied[j]

\* Two requests of one scope never run their operations at the same time, also
\* after an owner panicked and its waiters started over; except that the lock
\* does not outlive its connection: a request whose store connection was lost
\* may be running beside one that took the lock after it, and the commit of one
\* that has ended may still be on its way (postgres.go Do).
OneExecutionPerScope ==
  \A r, q \in Requests \ severed :
    /\ r # q /\ pc[r] \in {"running", "ran"} /\ pc[q] \in {"running", "ran"}
    => scope[r] # scope[q]

\* A replayed answer is the answer that an identical request of the same
\* tenant's same actor computed, never that of another body or of another
\* actor (the roles in the actor's token may have changed in between).
ReplayIsOriginal ==
  \A r \in Requests : answer[r] # None /\ answer[r].replayed =>
    \E q \in Requests \ {r} :
      /\ call[q] # None /\ PrincipalOf(q) # None
      /\ PrincipalOf(q).tenant = PrincipalOf(r).tenant
      /\ PrincipalOf(q).actor = PrincipalOf(r).actor
      /\ PrintOf(q) = PrintOf(r) /\ result[q] = answer[r].status

\* Whatever took effect, or still may after its request has ended, was asked for
\* by an authenticated principal in its own tenant and under its own name, in
\* an outlet assigned to it.
EffectsInScope ==
  \A r \in Requests : result[r] = 201 \/ r \in inFlight =>
    LET p == PrincipalOf(r) IN
    /\ p # None /\ p.kind = "user" /\ p.actor = call[r].actor
    /\ IsPlatformAdmin(p) \/ (p.tenant = call[r].tenant /\ AllowsOutlet(p, call[r].outlet))

\* Every request that reaches the store is answered, unless its client is
\* gone: waiters of a panicked owner elect a new one (memory.go Do).  As
\* requests are finitely many, none is left inside again and again.
EveryRequestAnswered ==
  []<>(\A r \in Requests : pc[r] \in {"idle", "answered", "gone"})

=============================================================================
