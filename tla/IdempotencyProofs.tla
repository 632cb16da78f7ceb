------------------------- MODULE IdempotencyProofs --------------------------
(***************************************************************************)
(* Proofs about Idempotency, for any number of requests and any set of     *)
(* calls: an operation takes effect once, one request of a scope runs at a *)
(* time unless the store lost a connection, a replay is the original       *)
(* answer, and effects stay in the scope of the principal that asked for   *)
(* them.                                                                   *)
(***************************************************************************)
EXTENDS Idempotency, SequenceTheorems, TLAPS

States == {"idle", "arrived", "waiting", "locked", "running", "ran", "answered", "gone"}
Active == {"arrived", "waiting", "locked", "running", "ran"}

IdemTypeOK ==
  /\ backend \in {"memory", "postgres"}
  /\ pc \in [Requests -> States]
  /\ call \in [Requests -> Calls \cup {None}]
  /\ scope \in [Requests -> AllScopes \cup {None}]
  /\ rows \in [AllScopes -> Entries \cup {None}]
  /\ lock \in [AllScopes -> Requests \cup {None}]
  /\ severed \in SUBSET Requests /\ inFlight \in SUBSET Requests
  /\ waits \in [Requests -> Requests \cup {None}]
  /\ result \in [Requests -> Nat \cup {None}]
  /\ answer \in [Requests -> [status : Nat \cup {None}, replayed : BOOLEAN] \cup {None}]
  /\ applied \in Seq({c.op : c \in Calls})
  /\ audited \in SUBSET {c.op : c \in Calls}

\* The checks of ServeHTTP and executeMutation that a call has passed.
Admitted(c) ==
  /\ c \in Calls /\ Authenticate(c) # None /\ c.route.path # "sync"
  /\ ServeHTTP(c) = None /\ ingressStatus(Authenticate(c), c) = None

\* A request has a scope exactly when it was admitted, and only requests with
\* a scope are in a store, have a result or have a commit on its way.
ScopesOK ==
  \A r \in Requests :
    /\ scope[r] # None => Admitted(call[r]) /\ scope[r] = scopeOf(PrincipalOf(r), call[r])
    /\ pc[r] \in Active \/ result[r] # None \/ r \in inFlight => scope[r] # None
    /\ pc[r] = "idle" => scope[r] = None
    /\ result[r] # None => pc[r] \in {"ran", "answered", "gone"}
    /\ pc[r] = "ran" => result[r] # None

\* An entry belongs to a request of its scope, which is still running, or has
\* computed the entry's status; in memory it has answered then, while a record's
\* commit may be all that a lost connection or process left of its request.
RowsOK ==
  \A s \in AllScopes : rows[s] # None =>
    LET o == rows[s].owner IN
    /\ scope[o] = s /\ rows[s].print = PrintOf(o)
    /\ rows[s].status = None => backend = "memory" /\ pc[o] \in {"running", "ran"}
    /\ rows[s].status # None =>
         /\ rows[s].status = result[o]
         /\ pc[o] = "answered" \/ (backend = "postgres" /\ pc[o] \in {"ran", "gone"})

\* In memory there is no connection to lose, a running request owns the
\* unfinished entry of its scope, and a waiting one waits for an identical
\* request that has started.
MemoryOK ==
  backend = "memory" => \A r \in Requests :
    /\ pc[r] # "locked" /\ r \notin severed
    /\ pc[r] \in {"running", "ran"} =>
         rows[scope[r]] # None /\ rows[scope[r]].owner = r /\ rows[scope[r]].status = None
    /\ pc[r] = "waiting" =>
         /\ waits[r] \in Requests /\ pc[waits[r]] \in {"running", "ran", "answered"}
         /\ scope[waits[r]] = scope[r] /\ PrintOf(waits[r]) = PrintOf(r)

\* In PostgreSQL, a request past the lock holds the lock of its scope, or has
\* lost it with the connection that held it.
PostgresOK ==
  backend = "postgres" => \A r \in Requests :
    /\ pc[r] # "waiting"
    /\ pc[r] \in {"locked", "running", "ran"} => lock[scope[r]] = r \/ r \in severed

\* A replayed answer was computed by another identical request of the scope.
ReplaysOK ==
  \A r \in Requests : answer[r] # None /\ answer[r].replayed =>
    /\ scope[r] # None
    /\ \E q \in Requests \ {r} :
         /\ scope[q] = scope[r] /\ PrintOf(q) = PrintOf(r)
         /\ result[q] # None /\ result[q] = answer[r].status

\* Every effect has its audit row, and no effect is there twice.
AuditsOK ==
  /\ \A i \in DOMAIN applied : applied[i] \in audited
  /\ OperationOnce

\* The inductive invariant.
IdemInv ==
  IdemTypeOK /\ ScopesOK /\ RowsOK /\ MemoryOK /\ PostgresOK /\ ReplaysOK /\ AuditsOK

USE IdemAssumption DEF sessionVars

\* The requests' numbers are not None.
LEMMA RequestsFact == Requests \subseteq Nat /\ None \notin Requests
BY DEF Requests

\* An admitted call has a scope, which tells its principal's tenant and actor.
LEMMA ScopeFacts ==
  ASSUME NEW c, Admitted(c)
  PROVE  LET p == Authenticate(c)
             s == scopeOf(p, c)
         IN  /\ s \in AllScopes /\ s.tenant = p.tenant /\ s.actor = p.actor
             /\ p.kind = "user" /\ p.actor = c.actor
             /\ IsPlatformAdmin(p) \/ (p.tenant = c.tenant /\ AllowsOutlet(p, c.outlet))
<1> DEFINE p == Authenticate(c)
<1>1. scopeOf(p, c) \in AllScopes
  BY DEF Admitted, AllScopes
<1>2. p.kind = "user"
  BY DEF Admitted, Authenticate, OIDCAuthenticate
<1>3. /\ p.actor = c.actor
      /\ IsPlatformAdmin(p) \/ (p.tenant = c.tenant /\ AllowsOutlet(p, c.outlet))
  BY DEF Admitted, ingressStatus
<1>4. scopeOf(p, c).tenant = p.tenant /\ scopeOf(p, c).actor = p.actor
  BY <1>3 DEF scopeOf
<1> QED
  BY <1>1, <1>2, <1>3, <1>4

\* Initially nothing has arrived.
LEMMA IdemInitially == IdemInit => IdemInv
<1> SUFFICES ASSUME IdemInit PROVE IdemInv
  OBVIOUS
<1>1. IdemTypeOK
  BY DEF IdemInit, IdemTypeOK, States
<1>2. ScopesOK /\ RowsOK /\ MemoryOK /\ PostgresOK /\ ReplaysOK
  BY RequestsFact DEF IdemInit, ScopesOK, RowsOK, MemoryOK, PostgresOK, ReplaysOK, Active
<1>3. AuditsOK
  BY DEF IdemInit, AuditsOK, OperationOnce
<1> QED
  BY <1>1, <1>2, <1>3 DEF IdemInv

\* executeMutation: a request gets a scope when every check admits it.
LEMMA ArrivalStep ==
  ASSUME IdemInv, NEW r \in Requests, NEW c \in Calls, executeMutation(r, c)
  PROVE  IdemInv'
<1> DEFINE refusal == IF ServeHTTP(c) # None THEN ServeHTTP(c)
                      ELSE ingressStatus(Authenticate(c), c)
           s == scopeOf(Authenticate(c), c)
<1>1. refusal \in Nat \cup {None}
  BY DEF ServeHTTP, ingressStatus
<1>2. /\ pc[r] = "idle" /\ call' = [call EXCEPT ![r] = c]
      /\ UNCHANGED <<backend, severed, inFlight, rows, lock, waits, result, applied, audited>>
  BY DEF executeMutation
<1>3. CASE refusal = None /\ Admitted(c) /\ s \in AllScopes
           /\ pc' = [pc EXCEPT ![r] = "arrived"] /\ scope' = [scope EXCEPT ![r] = s]
           /\ UNCHANGED answer
  <2> HIDE DEF refusal
  <2> USE <1>2, <1>3, RequestsFact DEF IdemInv, IdemTypeOK
  <2>1. IdemTypeOK'
    BY DEF States
  <2>2. ScopesOK'
    BY DEF ScopesOK, Active, PrincipalOf
  <2>3. RowsOK'
    BY DEF RowsOK, ScopesOK, PrintOf, Entries
  <2>4. MemoryOK' /\ PostgresOK'
    BY DEF MemoryOK, PostgresOK, ScopesOK, PrintOf, Active
  <2>5. ReplaysOK'
    <3> SUFFICES ASSUME NEW x \in Requests, answer[x] # None, answer[x].replayed
                 PROVE  /\ scope'[x] # None
                        /\ \E q \in Requests \ {x} :
                             /\ scope'[q] = scope'[x] /\ PrintOf(q)' = PrintOf(x)'
                             /\ result[q] # None /\ result[q] = answer[x].status
      BY DEF ReplaysOK
    <3>1. PICK q \in Requests \ {x} :
            /\ scope[x] # None /\ scope[q] = scope[x] /\ PrintOf(q) = PrintOf(x)
            /\ result[q] # None /\ result[q] = answer[x].status
      BY DEF ReplaysOK
    <3>2. x # r /\ q # r
      BY <3>1 DEF ScopesOK
    <3> QED
      BY <3>1, <3>2 DEF PrintOf
  <2>6. AuditsOK'
    BY DEF AuditsOK, OperationOnce
  <2> QED
    BY <2>1, <2>2, <2>3, <2>4, <2>5, <2>6 DEF IdemInv
<1>4. CASE refusal \in Nat /\ Answered(r, refusal, FALSE) /\ UNCHANGED scope
  <2> HIDE DEF refusal
  <2> USE <1>2, <1>4, RequestsFact DEF IdemInv, IdemTypeOK, Answered
  <2>1. IdemTypeOK'
    BY DEF States
  <2>2. ScopesOK'
    BY DEF ScopesOK, Active, PrincipalOf
  <2>3. RowsOK'
    BY DEF RowsOK, ScopesOK, PrintOf, Entries
  <2>4. MemoryOK' /\ PostgresOK'
    BY DEF MemoryOK, PostgresOK, ScopesOK, PrintOf, Active
  <2>5. ReplaysOK'
    BY DEF ReplaysOK, ScopesOK, PrintOf
  <2>6. AuditsOK'
    BY DEF AuditsOK, OperationOnce
  <2> QED
    BY <2>1, <2>2, <2>3, <2>4, <2>5, <2>6 DEF IdemInv
<1>5. (Admitted(c) /\ s \in AllScopes) \/ refusal # None
  BY ScopeFacts DEF Admitted, ServeHTTP, executeMutation
<1> QED
  BY <1>1, <1>3, <1>4, <1>5 DEF executeMutation

\* Replays stay true when results are kept and the request that moves gets no
\* answer, an answer of its own, or one that an identical request computed.
LEMMA ReplaysKept ==
  ASSUME IdemTypeOK, ReplaysOK, UNCHANGED <<call, scope>>,
         \A q \in Requests : result[q] # None => result'[q] = result[q],
         NEW r \in Requests,
         \A q \in Requests \ {r} : answer'[q] = answer[q],
         \/ answer'[r] = answer[r]
         \/ answer'[r].replayed = FALSE
         \/ /\ scope[r] # None
            /\ \E q \in Requests \ {r} :
                 /\ scope[q] = scope[r] /\ PrintOf(q) = PrintOf(r)
                 /\ result[q] # None /\ result[q] = answer'[r].status
  PROVE  ReplaysOK'
<1> SUFFICES ASSUME NEW x \in Requests, answer'[x] # None, answer'[x].replayed
             PROVE  /\ scope[x] # None
                    /\ \E q \in Requests \ {x} :
                         /\ scope[q] = scope[x] /\ PrintOf(q) = PrintOf(x)
                         /\ result'[q] # None /\ result'[q] = answer'[x].status
  BY DEF ReplaysOK, PrintOf
<1>1. CASE answer'[x] = answer[x]
  <2>1. PICK q \in Requests \ {x} :
          /\ scope[x] # None /\ scope[q] = scope[x] /\ PrintOf(q) = PrintOf(x)
          /\ result[q] # None /\ result[q] = answer[x].status
    BY <1>1 DEF ReplaysOK
  <2> QED
    BY <1>1, <2>1
<1>2. CASE answer'[x] # answer[x]
  BY <1>2
<1> QED
  BY <1>1, <1>2

\* A request that owns nothing is answered: the stores do not change.
LEMMA LeavesQueue ==
  ASSUME IdemInv, NEW r \in Requests, pc[r] \in {"arrived", "waiting"},
         NEW status \in Nat, NEW replayed \in BOOLEAN, Answered(r, status, replayed),
         UNCHANGED <<backend, severed, inFlight, call, scope, rows, lock, result, applied, audited>>,
         waits' = waits \/ waits' = [waits EXCEPT ![r] = None],
         replayed => \E q \in Requests \ {r} :
                       /\ scope[q] = scope[r] /\ PrintOf(q) = PrintOf(r)
                       /\ result[q] # None /\ result[q] = status
  PROVE  IdemInv'
<1> USE RequestsFact DEF IdemInv, Answered
<1>1. scope[r] # None /\ result[r] = None
  BY DEF ScopesOK, Active
<1>2. IdemTypeOK'
  BY DEF IdemTypeOK, States
<1>3. ScopesOK'
  BY <1>1 DEF ScopesOK, PrincipalOf, Active, IdemTypeOK
<1>4. RowsOK'
  BY DEF RowsOK, PrintOf, IdemTypeOK, Entries
<1>5. MemoryOK' /\ PostgresOK'
  <2>1. \A x \in Requests : pc'[x] = IF x = r THEN "answered" ELSE pc[x]
    BY DEF IdemTypeOK
  <2>2. \A x \in Requests \ {r} : waits'[x] = waits[x]
    BY DEF IdemTypeOK
  <2>3. MemoryOK'
    BY <2>1, <2>2 DEF MemoryOK, PrintOf
  <2>4. PostgresOK'
    BY <2>1 DEF PostgresOK
  <2> QED
    BY <2>3, <2>4
<1>6. ReplaysOK'
  <2>1. /\ answer'[r].status = status /\ answer'[r].replayed = replayed
        /\ \A q \in Requests \ {r} : answer'[q] = answer[q]
    BY DEF IdemTypeOK
  <2>2. CASE replayed
    <3>1. \E q \in Requests \ {r} :
            /\ scope[q] = scope[r] /\ PrintOf(q) = PrintOf(r)
            /\ result[q] # None /\ result[q] = answer'[r].status
      BY <2>1, <2>2
    <3> QED
      BY <1>1, <2>1, <3>1, ReplaysKept
  <2>3. CASE ~replayed
    BY <2>1, <2>3, ReplaysKept
  <2> QED
    BY <2>2, <2>3
<1>7. AuditsOK'
  BY DEF AuditsOK, OperationOnce
<1> QED
  BY <1>2, <1>3, <1>4, <1>5, <1>6, <1>7

\* memory.go Do: a request owns a new entry, waits for it or conflicts with it.
LEMMA MemoryDoStep ==
  ASSUME IdemInv, NEW r \in Requests, MemoryDo(r)
  PROVE  IdemInv'
<1> DEFINE s == scope[r]
<1> USE RequestsFact DEF IdemInv
<1>1. /\ backend = "memory" /\ pc[r] = "arrived" /\ result[r] = None
      /\ scope[r] # None /\ s \in AllScopes /\ call[r] \in Calls
      /\ UNCHANGED <<backend, severed, inFlight, call, scope, lock, result, applied, audited>>
  BY DEF MemoryDo, IdemTypeOK, ScopesOK, Active, Admitted
<1>2. CASE rows[s] = None
  <2>1. /\ rows' = [rows EXCEPT ![s] = [print |-> PrintOf(r), owner |-> r, status |-> None]]
        /\ pc' = [pc EXCEPT ![r] = "running"] /\ UNCHANGED <<waits, answer>>
    BY <1>2 DEF MemoryDo
  <2>2. [print |-> PrintOf(r), owner |-> r, status |-> None] \in Entries
    BY <1>1 DEF Entries, PrintOf
  <2> USE <1>1, <1>2, <2>1, <2>2
  <2>3. IdemTypeOK'
    BY DEF IdemTypeOK, States
  <2>4. ScopesOK'
    BY DEF ScopesOK, PrincipalOf, Active, IdemTypeOK
  <2>5. RowsOK'
    BY DEF RowsOK, PrintOf, IdemTypeOK, Entries
  <2>6. MemoryOK' /\ PostgresOK'
    BY DEF MemoryOK, PostgresOK, PrintOf, IdemTypeOK, ScopesOK, Active
  <2>7. ReplaysOK'
    BY ReplaysKept
  <2>8. AuditsOK'
    BY DEF AuditsOK, OperationOnce
  <2> QED
    BY <2>3, <2>4, <2>5, <2>6, <2>7, <2>8
<1>3. CASE rows[s] # None /\ rows[s].print # PrintOf(r)
  <2>1. Answered(r, 409, FALSE) /\ waits' = waits /\ UNCHANGED rows
    BY <1>3 DEF MemoryDo
  <2>2. 409 \in Nat /\ FALSE \in BOOLEAN
    OBVIOUS
  <2> HIDE DEF s
  <2> QED
    BY <1>1, <2>1, <2>2, LeavesQueue, Zenon
<1>4. CASE rows[s] # None /\ rows[s].print = PrintOf(r)
  <2>1. /\ pc' = [pc EXCEPT ![r] = "waiting"] /\ waits' = [waits EXCEPT ![r] = rows[s].owner]
        /\ UNCHANGED <<rows, answer>>
    BY <1>4 DEF MemoryDo
  <2>2. /\ rows[s].owner \in Requests /\ scope[rows[s].owner] = s
        /\ pc[rows[s].owner] \in {"running", "ran", "answered"}
        /\ PrintOf(rows[s].owner) = PrintOf(r)
    BY <1>1, <1>4 DEF RowsOK, IdemTypeOK, Entries
  <2> USE <1>1, <2>1, <2>2
  <2>3. IdemTypeOK'
    BY DEF IdemTypeOK, States
  <2>4. ScopesOK'
    BY DEF ScopesOK, PrincipalOf, Active, IdemTypeOK
  <2>5. RowsOK'
    BY DEF RowsOK, PrintOf, IdemTypeOK, Entries
  <2>6. MemoryOK'
    <3> SUFFICES ASSUME NEW x \in Requests
                 PROVE  /\ pc'[x] # "locked" /\ x \notin severed
                        /\ pc'[x] \in {"running", "ran"} =>
                             /\ rows[scope[x]] # None /\ rows[scope[x]].owner = x
                             /\ rows[scope[x]].status = None
                        /\ pc'[x] = "waiting" =>
                             /\ waits'[x] \in Requests
                             /\ pc'[waits'[x]] \in {"running", "ran", "answered"}
                             /\ scope[waits'[x]] = scope[x] /\ PrintOf(waits'[x]) = PrintOf(x)
      BY DEF MemoryOK, PrintOf
    <3>1. CASE x = r
      BY <3>1 DEF IdemTypeOK, MemoryOK
    <3>2. CASE x # r
      BY <3>2 DEF MemoryOK, IdemTypeOK
    <3> QED
      BY <3>1, <3>2
  <2>9. PostgresOK'
    BY DEF PostgresOK
  <2>7. ReplaysOK'
    BY ReplaysKept
  <2>8. AuditsOK'
    BY DEF AuditsOK, OperationOnce
  <2> QED
    BY <2>3, <2>4, <2>5, <2>6, <2>7, <2>8, <2>9
<1> QED
  BY <1>2, <1>3, <1>4

\* memory.go Do: a waiter replays the finished entry, or starts over.
LEMMA MemoryWakeStep ==
  ASSUME IdemInv, NEW r \in Requests, MemoryWake(r)
  PROVE  IdemInv'
<1> DEFINE owner == waits[r]
<1> USE RequestsFact DEF IdemInv
<1>1. /\ pc[r] = "waiting" /\ scope[r] # None /\ result[r] = None
      /\ waits' = [waits EXCEPT ![r] = None]
      /\ UNCHANGED <<backend, severed, inFlight, call, scope, rows, lock, result, applied, audited>>
  BY DEF MemoryWake, ScopesOK, Active
<1>2. /\ backend = "memory" /\ owner \in Requests \ {r} /\ scope[owner] = scope[r]
      /\ PrintOf(owner) = PrintOf(r)
  BY <1>1 DEF MemoryOK, PostgresOK, IdemTypeOK
<1>3. CASE result[owner] \notin {None, Aborted} /\ Answered(r, result[owner], TRUE)
  <2>1. result[owner] \in Nat
    BY <1>2, <1>3 DEF IdemTypeOK
  <2> QED
    BY <1>1, <1>2, <1>3, <2>1, LeavesQueue
<1>4. CASE pc' = [pc EXCEPT ![r] = "arrived"] /\ UNCHANGED answer
  <2> USE <1>1, <1>2, <1>4
  <2>1. IdemTypeOK'
    BY DEF IdemTypeOK, States
  <2>2. ScopesOK'
    BY DEF ScopesOK, PrincipalOf, Active, IdemTypeOK
  <2>3. RowsOK'
    BY DEF RowsOK, PrintOf, IdemTypeOK, Entries
  <2>4. MemoryOK' /\ PostgresOK'
    BY DEF MemoryOK, PostgresOK, PrintOf, IdemTypeOK
  <2>5. ReplaysOK'
    BY ReplaysKept
  <2>6. AuditsOK'
    BY DEF AuditsOK, OperationOnce
  <2> QED
    BY <2>1, <2>2, <2>3, <2>4, <2>5, <2>6
<1> QED
  BY <1>3, <1>4 DEF MemoryWake

\* A request past the store's admission owns its scope: its entry, or its lock
\* unless that was lost.
LEMMA OwnerAlone ==
  ASSUME IdemInv, NEW r \in Requests, NEW q \in Requests, r # q,
         pc[r] \in {"running", "ran"}, pc[q] \in {"running", "ran"},
         backend = "memory" \/ (r \notin severed /\ q \notin severed)
  PROVE  scope[r] # scope[q]
<1>1. CASE backend = "memory"
  BY <1>1 DEF IdemInv, MemoryOK
<1>2. CASE backend = "postgres"
  BY <1>2 DEF IdemInv, PostgresOK
<1> QED
  BY <1>1, <1>2 DEF IdemInv, IdemTypeOK

\* memory.go executeOwned: the owner publishes its result.
LEMMA ExecuteOwnedStep ==
  ASSUME IdemInv, NEW r \in Requests, executeOwned(r)
  PROVE  IdemInv'
<1> DEFINE s == scope[r]
<1> USE RequestsFact DEF IdemInv
<1>1. /\ backend = "memory" /\ pc[r] = "ran" /\ Answered(r, result[r], FALSE)
      /\ UNCHANGED <<backend, severed, inFlight, call, scope, lock, waits, result, applied, audited>>
  BY DEF executeOwned
<1>2. s \in AllScopes /\ s # None /\ result[r] \in Nat
  BY <1>1 DEF ScopesOK, IdemTypeOK, Active
<1>9. rows[s] \in Entries /\ rows[s].owner = r /\ rows[s].status = None
  BY <1>1, <1>2 DEF MemoryOK, IdemTypeOK
<1> DEFINE entry == [rows[s] EXCEPT !.status = result[r]]
<1>10. /\ rows' = [rows EXCEPT ![s] = entry] /\ entry \in Entries /\ entry.owner = r
       /\ entry.print = rows[s].print /\ entry.status = result[r]
  BY <1>2, <1>9 DEF Entries, executeOwned
<1> HIDE DEF entry
<1> USE <1>1, <1>2, <1>9, <1>10 DEF Answered
<1>3. IdemTypeOK'
  BY DEF IdemTypeOK, States
<1>4. ScopesOK'
  BY DEF ScopesOK, PrincipalOf, Active, IdemTypeOK
<1>5. RowsOK'
  BY DEF RowsOK, PrintOf, IdemTypeOK, Entries
<1>6. MemoryOK' /\ PostgresOK'
  <2>1. \A q \in Requests \ {r} : pc[q] \in {"running", "ran"} => scope[q] # s
    BY OwnerAlone
  <2> QED
    BY <2>1 DEF MemoryOK, PostgresOK, PrintOf, IdemTypeOK, ScopesOK, Active
<1>7. ReplaysOK'
  BY ReplaysKept DEF IdemTypeOK
<1>8. AuditsOK'
  BY DEF AuditsOK, OperationOnce
<1> QED
  BY <1>3, <1>4, <1>5, <1>6, <1>7, <1>8

\* memory.go executeOwned, panicking: the entry is gone and its scope free.
LEMMA ExecuteOwnedAbortStep ==
  ASSUME IdemInv, NEW r \in Requests, executeOwnedAbort(r)
  PROVE  IdemInv'
<1> DEFINE s == scope[r]
<1> USE RequestsFact DEF IdemInv
<1>1. /\ backend = "memory" /\ pc[r] = "running" /\ s \in AllScopes /\ result[r] = None
      /\ scope[r] # None
      /\ result' = [result EXCEPT ![r] = Aborted] /\ rows' = [rows EXCEPT ![s] = None]
      /\ Answered(r, 500, FALSE)
      /\ UNCHANGED <<backend, severed, inFlight, call, scope, lock, waits, applied, audited>>
  BY DEF executeOwnedAbort, ScopesOK, IdemTypeOK, Active
<1>2. /\ rows[s] \in Entries /\ rows[s].owner = r /\ rows[s].status = None
  BY <1>1 DEF MemoryOK, IdemTypeOK
<1> USE <1>1, <1>2 DEF Answered, Aborted
<1>3. IdemTypeOK'
  BY DEF IdemTypeOK, States
<1>4. ScopesOK'
  BY DEF ScopesOK, PrincipalOf, Active, IdemTypeOK
<1>5. RowsOK'
  BY DEF RowsOK, PrintOf, IdemTypeOK, Entries
<1>6. MemoryOK' /\ PostgresOK'
  <2>1. \A q \in Requests \ {r} : pc[q] \in {"running", "ran"} => scope[q] # s
    BY OwnerAlone
  <2> QED
    BY <2>1 DEF MemoryOK, PostgresOK, PrintOf, IdemTypeOK, ScopesOK, Active
<1>7. ReplaysOK'
  <2>1. \A q \in Requests : result[q] # None => result'[q] = result[q]
    BY DEF IdemTypeOK
  <2>2. answer'[r].replayed = FALSE /\ \A q \in Requests \ {r} : answer'[q] = answer[q]
    BY DEF IdemTypeOK
  <2> QED
    BY <2>1, <2>2, ReplaysKept
<1>8. AuditsOK'
  BY DEF AuditsOK, OperationOnce
<1> QED
  BY <1>3, <1>4, <1>5, <1>6, <1>7, <1>8

\* memory.go Do, the waiter's context: it is answered without an entry.
LEMMA MemoryCancelStep ==
  ASSUME IdemInv, NEW r \in Requests, MemoryCancel(r)
  PROVE  IdemInv'
<1>1. 503 \in Nat /\ FALSE \in BOOLEAN /\ pc[r] \in {"arrived", "waiting"}
  BY DEF MemoryCancel
<1>2. /\ Answered(r, 503, FALSE) /\ waits' = [waits EXCEPT ![r] = None]
      /\ UNCHANGED <<backend, severed, inFlight, call, scope, rows, lock, result, applied, audited>>
  BY DEF MemoryCancel
<1> QED
  BY <1>1, <1>2, LeavesQueue, Zenon

\* postgres.go Do: the advisory lock is taken while it is free.
LEMMA PostgresLockStep ==
  ASSUME IdemInv, NEW r \in Requests, PostgresLock(r)
  PROVE  IdemInv'
<1> DEFINE s == scope[r]
<1> USE RequestsFact DEF IdemInv
<1>1. /\ backend = "postgres" /\ pc[r] = "arrived" /\ lock[s] = None
      /\ lock' = [lock EXCEPT ![s] = r] /\ pc' = [pc EXCEPT ![r] = "locked"]
      /\ UNCHANGED <<backend, severed, inFlight, call, scope, rows, waits, result, answer, applied, audited>>
  BY DEF PostgresLock
<1>2. s \in AllScopes /\ s # None /\ result[r] = None
  BY <1>1 DEF ScopesOK, IdemTypeOK, Active
<1> USE <1>1, <1>2
<1>3. IdemTypeOK'
  BY DEF IdemTypeOK, States
<1>4. ScopesOK'
  BY DEF ScopesOK, PrincipalOf, Active, IdemTypeOK
<1>5. RowsOK'
  BY DEF RowsOK, PrintOf, IdemTypeOK, Entries
<1>6. MemoryOK' /\ PostgresOK'
  BY DEF MemoryOK, PostgresOK, IdemTypeOK, ScopesOK, Active
<1>7. ReplaysOK'
  BY ReplaysKept
<1>8. AuditsOK'
  BY DEF AuditsOK, OperationOnce
<1> QED
  BY <1>3, <1>4, <1>5, <1>6, <1>7, <1>8

\* postgres.go Do: the record of a request that has run is saved or not, and
\* nothing else of the records changes.
LEMMA RecordFacts ==
  ASSUME IdemInv, backend = "postgres", NEW r \in Requests,
         RecordLost(r) \/ (pc[r] = "ran" /\ SaveRecord(r))
  PROVE  /\ rows' \in [AllScopes -> Entries \cup {None}]
         /\ \A s \in AllScopes : rows'[s] # rows[s] =>
              /\ s = scope[r] /\ pc[r] = "ran" /\ result[r] \in Nat
              /\ rows'[s].print = PrintOf(r) /\ rows'[s].owner = r
              /\ rows'[s].status = result[r]
<1> DEFINE entry == [print |-> PrintOf(r), owner |-> r, status |-> result[r]]
<1> USE DEF IdemInv
<1>1. CASE UNCHANGED rows
  BY <1>1 DEF IdemTypeOK
<1>2. CASE pc[r] = "ran" /\ SaveRecord(r)
  <2>1. scope[r] \in AllScopes /\ result[r] \in Nat /\ call[r] \in Calls
    BY <1>2 DEF ScopesOK, IdemTypeOK, Active, Admitted
  <2>2. /\ entry \in Entries /\ entry.owner = r /\ entry.print = PrintOf(r)
        /\ entry.status = result[r]
    BY <2>1 DEF Entries, PrintOf
  <2>3. rows' = [rows EXCEPT ![scope[r]] = entry]
    BY <1>2 DEF SaveRecord
  <2> HIDE DEF entry
  <2> QED
    BY <1>2, <2>1, <2>2, <2>3 DEF IdemTypeOK
<1> QED
  BY <1>1, <1>2 DEF RecordLost

\* ReleaseLock frees the lock that the request holds, and no other.
LEMMA ReleaseFacts ==
  ASSUME IdemTypeOK, NEW r \in Requests, scope[r] \in AllScopes, ReleaseLock(r)
  PROVE  /\ lock' \in [AllScopes -> Requests \cup {None}]
         /\ \A s \in AllScopes : lock[s] # r => lock'[s] = lock[s]
<1>1. CASE lock[scope[r]] = r
  BY <1>1 DEF ReleaseLock, IdemTypeOK
<1>2. CASE lock[scope[r]] # r
  BY <1>2 DEF ReleaseLock, IdemTypeOK
<1> QED
  BY <1>1, <1>2

\* postgres.go, the end of a request in the store: it leaves with or without an
\* answer, with or without a record; no other request's lock is freed.
LEMMA PostgresLeaves ==
  ASSUME IdemInv, backend = "postgres", NEW r \in Requests,
         pc[r] \in {"arrived", "locked", "running", "ran"},
         NEW to \in {"answered", "gone"}, pc' = [pc EXCEPT ![r] = to],
         UNCHANGED <<backend, severed, call, scope, waits, result, applied, audited>>,
         inFlight' = inFlight \/ inFlight' = inFlight \cup {r},
         RecordLost(r) \/ (pc[r] = "ran" /\ SaveRecord(r)),
         lock' \in [AllScopes -> Requests \cup {None}],
         \A s \in AllScopes : lock[s] # r => lock'[s] = lock[s],
         NEW status \in Nat, NEW replayed \in BOOLEAN,
         UNCHANGED answer
           \/ answer' = [answer EXCEPT ![r] = [status |-> status, replayed |-> replayed]],
         replayed => \E q \in Requests \ {r} :
                       /\ scope[q] = scope[r] /\ PrintOf(q) = PrintOf(r)
                       /\ result[q] # None /\ result[q] = status
  PROVE  IdemInv'
<1> USE RequestsFact DEF IdemInv
<1>1. scope[r] \in AllScopes /\ scope[r] # None
  BY DEF ScopesOK, IdemTypeOK, Active
<1>2. /\ rows' \in [AllScopes -> Entries \cup {None}]
      /\ \A s \in AllScopes : rows'[s] # rows[s] =>
           /\ s = scope[r] /\ pc[r] = "ran" /\ result[r] \in Nat
           /\ rows'[s].print = PrintOf(r) /\ rows'[s].owner = r
           /\ rows'[s].status = result[r]
  BY RecordFacts
<1>3. \A q \in Requests : pc'[q] = IF q = r THEN to ELSE pc[q]
  BY DEF IdemTypeOK
<1>4. IdemTypeOK'
  <2>1. answer' \in [Requests -> [status : Nat \cup {None}, replayed : BOOLEAN] \cup {None}]
    BY DEF IdemTypeOK
  <2>2. pc' \in [Requests -> States] /\ inFlight' \in SUBSET Requests
    BY DEF IdemTypeOK, States
  <2> QED
    BY <1>2, <2>1, <2>2 DEF IdemTypeOK
<1>5. ScopesOK'
  BY <1>1, <1>3 DEF ScopesOK, PrincipalOf, Active
<1>6. RowsOK'
  <2> SUFFICES ASSUME NEW s \in AllScopes, rows'[s] # None
               PROVE  LET o == rows'[s].owner IN
                      /\ scope[o] = s /\ rows'[s].print = PrintOf(o)
                      /\ rows'[s].status # None /\ rows'[s].status = result[o]
                      /\ pc'[o] \in {"answered", "ran", "gone"}
    BY DEF RowsOK, PrintOf
  <2>1. CASE rows'[s] # rows[s]
    BY <1>2, <1>3, <2>1
  <2>2. CASE rows'[s] = rows[s]
    <3>1. rows[s].owner \in Requests
      BY <2>2 DEF IdemTypeOK, Entries
    <3> QED
      BY <1>3, <2>2, <3>1 DEF RowsOK
  <2> QED
    BY <2>1, <2>2
<1>7. MemoryOK' /\ PostgresOK'
  BY <1>1, <1>3 DEF MemoryOK, PostgresOK, IdemTypeOK, ScopesOK, Active
<1>8. ReplaysOK'
  <2>1. CASE UNCHANGED answer
    BY <2>1, ReplaysKept
  <2>2. CASE answer' = [answer EXCEPT ![r] = [status |-> status, replayed |-> replayed]]
    <3>1. /\ answer'[r].status = status /\ answer'[r].replayed = replayed
          /\ \A q \in Requests \ {r} : answer'[q] = answer[q]
      BY <2>2 DEF IdemTypeOK
    <3>2. CASE replayed
      <4>1. \E q \in Requests \ {r} :
              /\ scope[q] = scope[r] /\ PrintOf(q) = PrintOf(r)
              /\ result[q] # None /\ result[q] = answer'[r].status
        BY <3>1, <3>2
      <4> QED
        BY <1>1, <3>1, <4>1, ReplaysKept
    <3>3. CASE ~replayed
      BY <3>1, <3>3, ReplaysKept
    <3> QED
      BY <3>2, <3>3
  <2> QED
    BY <2>1, <2>2
<1>9. AuditsOK'
  BY DEF AuditsOK, OperationOnce
<1> QED
  BY <1>4, <1>5, <1>6, <1>7, <1>8, <1>9

\* The same without a replay: the request is gone or answered on its own.
LEMMA LeavesUnreplayed ==
  ASSUME IdemInv, backend = "postgres", NEW r \in Requests,
         pc[r] \in {"arrived", "locked", "running", "ran"},
         UNCHANGED <<backend, severed, call, scope, waits, result, applied, audited>>,
         inFlight' = inFlight \/ inFlight' = inFlight \cup {r},
         RecordLost(r) \/ (pc[r] = "ran" /\ SaveRecord(r)),
         lock' \in [AllScopes -> Requests \cup {None}],
         \A s \in AllScopes : lock[s] # r => lock'[s] = lock[s],
         NEW status \in Nat,
         \/ Answered(r, status, FALSE)
         \/ pc' = [pc EXCEPT ![r] = "gone"] /\ UNCHANGED answer
  PROVE  IdemInv'
<1>1. FALSE \in BOOLEAN /\ "gone" \in {"answered", "gone"} /\ "answered" \in {"answered", "gone"}
  OBVIOUS
<1>2. CASE Answered(r, status, FALSE)
  BY <1>1, <1>2, PostgresLeaves, Zenon DEF Answered
<1>3. CASE pc' = [pc EXCEPT ![r] = "gone"] /\ UNCHANGED answer
  BY <1>1, <1>3, PostgresLeaves, Zenon
<1> QED
  BY <1>2, <1>3

\* postgres.go Do: the record is replayed or conflicts, or there is none and
\* the operation runs.
LEMMA PostgresDoStep ==
  ASSUME IdemInv, NEW r \in Requests, PostgresDo(r)
  PROVE  IdemInv'
<1> DEFINE s == scope[r]
<1> USE RequestsFact DEF IdemInv
<1>1. /\ pc[r] = "locked" /\ r \notin severed
      /\ UNCHANGED <<backend, severed, inFlight, call, scope, rows, waits, result, applied, audited>>
  BY DEF PostgresDo
<1>2. s \in AllScopes /\ s # None /\ result[r] = None /\ backend = "postgres" /\ lock[s] = r
  BY <1>1 DEF ScopesOK, IdemTypeOK, Active, MemoryOK, PostgresOK
<1>3. CASE rows[s] = None
  <2>1. pc' = [pc EXCEPT ![r] = "running"] /\ UNCHANGED <<lock, answer>>
    BY <1>3 DEF PostgresDo
  <2> USE <1>1, <1>2, <2>1
  <2>2. IdemTypeOK'
    BY DEF IdemTypeOK, States
  <2>3. ScopesOK'
    BY DEF ScopesOK, PrincipalOf, Active, IdemTypeOK
  <2>4. RowsOK'
    BY DEF RowsOK, PrintOf, IdemTypeOK, Entries
  <2>5. MemoryOK' /\ PostgresOK'
    BY DEF MemoryOK, PostgresOK, IdemTypeOK
  <2>6. ReplaysOK'
    BY ReplaysKept
  <2>7. AuditsOK'
    BY DEF AuditsOK, OperationOnce
  <2> QED
    BY <2>2, <2>3, <2>4, <2>5, <2>6, <2>7
<1>4. CASE rows[s] # None
  <2> DEFINE o == rows[s].owner
  <2>1. lock' = [lock EXCEPT ![s] = None]
    BY <1>4 DEF PostgresDo
  <2>2. /\ o \in Requests \ {r} /\ scope[o] = s /\ rows[s].print = PrintOf(o)
        /\ rows[s].status \in Nat /\ rows[s].status = result[o] /\ result[o] # None
    BY <1>1, <1>2, <1>4 DEF RowsOK, IdemTypeOK, Entries
  <2>3. /\ lock' \in [AllScopes -> Requests \cup {None}]
        /\ \A x \in AllScopes : lock[x] # r => lock'[x] = lock[x]
    BY <1>2, <2>1 DEF IdemTypeOK
  <2>4. RecordLost(r)
    BY <1>1 DEF RecordLost
  <2>5. CASE Answered(r, 409, FALSE)
    <3> DEFINE status == 409
    <3>1. status \in Nat /\ Answered(r, status, FALSE)
      BY <2>5 DEF Answered
    <3> HIDE DEF IdemInv, s, status
    <3> QED
      BY <1>1, <1>2, <2>3, <2>4, <3>1, LeavesUnreplayed, Zenon
  <2>6. CASE rows[s].print = PrintOf(r) /\ Answered(r, rows[s].status, TRUE)
    <3>1. \E q \in Requests \ {r} :
            /\ scope[q] = scope[r] /\ PrintOf(q) = PrintOf(r)
            /\ result[q] # None /\ result[q] = rows[s].status
      BY <2>2, <2>6
    <3>2. rows[s].status \in Nat /\ TRUE \in BOOLEAN
      BY <2>2
    <3> HIDE DEF IdemInv, s
    <3> QED
      BY <1>1, <1>2, <2>3, <2>4, <2>6, <3>1, <3>2, PostgresLeaves, Zenon DEF Answered
  <2> QED
    BY <1>4, <2>5, <2>6 DEF PostgresDo
<1> QED
  BY <1>3, <1>4

\* postgres.go Do: the record is written under the lock and the lock freed.
LEMMA PostgresRecordStep ==
  ASSUME IdemInv, NEW r \in Requests, PostgresRecord(r)
  PROVE  IdemInv'
<1>1. /\ backend = "postgres" /\ pc[r] = "ran" /\ SaveRecord(r) /\ ReleaseLock(r)
      /\ Answered(r, result[r], FALSE)
      /\ UNCHANGED <<backend, severed, inFlight, call, scope, waits, result, applied, audited>>
  BY DEF PostgresRecord
<1>2. scope[r] \in AllScopes /\ result[r] \in Nat /\ FALSE \in BOOLEAN
  BY <1>1 DEF IdemInv, ScopesOK, IdemTypeOK, Active
<1>3. /\ lock' \in [AllScopes -> Requests \cup {None}]
      /\ \A x \in AllScopes : lock[x] # r => lock'[x] = lock[x]
  BY <1>1, <1>2, ReleaseFacts DEF IdemInv
<1> QED
  BY <1>1, <1>2, <1>3, LeavesUnreplayed, Zenon

\* postgres.go Do, failing: a request whose client or process is gone, whose
\* operation panics or whose connection is lost leaves the store.
LEMMA PostgresFaultStep ==
  ASSUME IdemInv, NEW r \in Requests, PostgresLose(r) \/ PostgresPanic(r) \/ PostgresFail(r)
  PROVE  IdemInv'
<1>1. /\ pc[r] \in {"arrived", "locked", "running", "ran"} /\ RecordLost(r)
      /\ ReleaseLock(r) \/ UNCHANGED lock
      /\ UNCHANGED <<backend, severed, call, scope, waits, result, applied, audited>>
      /\ inFlight' = inFlight \/ inFlight' = inFlight \cup {r}
  BY DEF PostgresLose, PostgresPanic, PostgresFail, RecordLost
<1>2. scope[r] \in AllScopes 
  BY <1>1 DEF IdemInv, ScopesOK, IdemTypeOK, Active
<1>3. /\ lock' \in [AllScopes -> Requests \cup {None}]
      /\ \A x \in AllScopes : lock[x] # r => lock'[x] = lock[x]
  BY <1>1, <1>2, ReleaseFacts DEF IdemInv, IdemTypeOK
<1>4. backend = "postgres"
  BY DEF PostgresLose, PostgresPanic, PostgresFail, IdemInv, IdemTypeOK, MemoryOK
<1>5. CASE PostgresLose(r)
  <2>1. pc' = [pc EXCEPT ![r] = "gone"] /\ UNCHANGED answer /\ 0 \in Nat
    BY <1>5 DEF PostgresLose
  <2> QED
    BY <1>1, <1>2, <1>3, <1>4, <2>1, LeavesUnreplayed, Zenon
<1>6. CASE PostgresPanic(r)
  <2> DEFINE status == 500
  <2>1. status \in Nat /\ Answered(r, status, FALSE)
    BY <1>6 DEF PostgresPanic, Answered
  <2> HIDE DEF status
  <2> QED
    BY <1>1, <1>2, <1>3, <1>4, <2>1, LeavesUnreplayed, Zenon
<1>7. CASE PostgresFail(r)
  <2> DEFINE status == 503
  <2>1. status \in Nat /\ Answered(r, status, FALSE)
    BY <1>7 DEF PostgresFail, Answered
  <2> HIDE DEF status
  <2> QED
    BY <1>1, <1>2, <1>3, <1>4, <2>1, LeavesUnreplayed, Zenon
<1> QED
  BY <1>5, <1>6, <1>7

\* postgres.go Do: the connection that holds the lock is lost, and the request
\* goes on without it.
LEMMA PostgresSeverStep ==
  ASSUME IdemInv, NEW r \in Requests, PostgresSever(r)
  PROVE  IdemInv'
<1> USE RequestsFact DEF IdemInv
<1>1. /\ backend = "postgres" /\ pc[r] \in {"arrived", "locked", "running", "ran"}
      /\ severed' = severed \cup {r} /\ ReleaseLock(r) /\ RecordLost(r)
      /\ UNCHANGED <<backend, inFlight, pc, call, scope, waits, result, answer, applied,
                     audited>>
  BY DEF PostgresSever
<1>2. scope[r] \in AllScopes
  BY <1>1 DEF ScopesOK, IdemTypeOK, Active
<1>3. /\ lock' \in [AllScopes -> Requests \cup {None}]
      /\ \A x \in AllScopes : lock[x] # r => lock'[x] = lock[x]
  BY <1>1, <1>2, ReleaseFacts
<1>4. /\ rows' \in [AllScopes -> Entries \cup {None}]
      /\ \A s \in AllScopes : rows'[s] # rows[s] =>
           /\ s = scope[r] /\ pc[r] = "ran" /\ result[r] \in Nat
           /\ rows'[s].print = PrintOf(r) /\ rows'[s].owner = r
           /\ rows'[s].status = result[r]
  BY <1>1, RecordFacts
<1>5. IdemTypeOK'
  BY <1>1, <1>3, <1>4 DEF IdemTypeOK
<1>6. ScopesOK' /\ AuditsOK' /\ MemoryOK'
  BY <1>1 DEF ScopesOK, PrincipalOf, AuditsOK, OperationOnce, MemoryOK
<1>7. RowsOK'
  <2> SUFFICES ASSUME NEW s \in AllScopes, rows'[s] # None
               PROVE  LET o == rows'[s].owner IN
                      /\ scope[o] = s /\ rows'[s].print = PrintOf(o)
                      /\ rows'[s].status # None /\ rows'[s].status = result[o]
                      /\ pc[o] \in {"answered", "ran", "gone"}
    BY <1>1 DEF RowsOK, PrintOf
  <2> QED
    BY <1>1, <1>4 DEF RowsOK
<1>8. PostgresOK'
  BY <1>1, <1>2, <1>3 DEF PostgresOK, IdemTypeOK, ScopesOK, Active
<1>9. ReplaysOK'
  BY <1>1 DEF ReplaysOK, PrintOf
<1> QED
  BY <1>5, <1>6, <1>7, <1>8, <1>9

\* insertAudit: an effect that comes with its audit row is not there yet.
LEMMA EffectFacts ==
  ASSUME IdemTypeOK, AuditsOK, NEW r \in Requests, call[r] \in Calls,
         UNCHANGED <<applied, audited>> \/ TakesEffect(r)
  PROVE  /\ AuditsOK'
         /\ applied' \in Seq({c.op : c \in Calls}) /\ audited' \in SUBSET {c.op : c \in Calls}
<1> DEFINE op == call[r].op
<1>1. applied \in Seq({c.op : c \in Calls}) /\ audited \in SUBSET {c.op : c \in Calls}
  BY DEF IdemTypeOK
<1>2. op \in {c.op : c \in Calls}
  OBVIOUS
<1>3. CASE UNCHANGED <<applied, audited>>
  BY <1>1, <1>3 DEF AuditsOK, OperationOnce
<1>4. CASE /\ op \notin audited /\ applied' = Append(applied, op)
           /\ audited' = audited \cup {op}
  <2>1. /\ DOMAIN applied = 1..Len(applied) /\ DOMAIN applied' = 1..(Len(applied) + 1)
        /\ Len(applied) \in Nat
        /\ \A i \in DOMAIN applied : applied'[i] = applied[i]
        /\ applied'[Len(applied) + 1] = op
    BY <1>1, <1>4
  <2>2. \A i \in DOMAIN applied : applied[i] # op
    BY <1>4 DEF AuditsOK
  <2>3. \A i \in DOMAIN applied' : i \in DOMAIN applied \/ i = Len(applied) + 1
    BY <2>1
  <2>4. \A i \in DOMAIN applied' : applied'[i] \in audited'
    BY <1>4, <2>1, <2>3 DEF AuditsOK
  <2>5. \A i, j \in DOMAIN applied' : i # j => applied'[i] # applied'[j]
    BY <2>1, <2>2, <2>3 DEF AuditsOK, OperationOnce
  <2>6. applied' \in Seq({c.op : c \in Calls}) /\ audited' \in SUBSET {c.op : c \in Calls}
    BY <1>1, <1>2, <1>4, AppendProperties
  <2> QED
    BY <2>4, <2>5, <2>6 DEF AuditsOK, OperationOnce
<1> QED
  BY <1>3, <1>4 DEF TakesEffect, insertAudit

\* repositoryError and withTenant: the operation of a request ends, with a new
\* effect and its audit row, with none, or with a commit still on its way.
LEMMA OperationEnds ==
  ASSUME IdemInv, NEW r \in Requests, pc[r] = "running",
         NEW status \in Nat, Ran(r, status),
         inFlight' = inFlight \/ inFlight' = inFlight \cup {r},
         UNCHANGED <<applied, audited>> \/ TakesEffect(r)
  PROVE  IdemInv'
<1> USE RequestsFact DEF IdemInv
<1>1. /\ result' = [result EXCEPT ![r] = status] /\ pc' = [pc EXCEPT ![r] = "ran"]
      /\ UNCHANGED <<backend, severed, call, scope, rows, lock, waits, answer>>
  BY DEF Ran
<1>2. scope[r] \in AllScopes /\ scope[r] # None /\ result[r] = None /\ call[r] \in Calls
  BY DEF ScopesOK, IdemTypeOK, Active, Admitted
<1>3. IdemTypeOK' /\ AuditsOK'
  <2>1. /\ AuditsOK'
        /\ applied' \in Seq({c.op : c \in Calls}) /\ audited' \in SUBSET {c.op : c \in Calls}
    BY <1>2, EffectFacts
  <2> QED
    BY <1>1, <1>2, <2>1 DEF IdemTypeOK, States
<1>4. ScopesOK'
  BY <1>1, <1>2 DEF ScopesOK, PrincipalOf, Active, IdemTypeOK
<1>5. RowsOK'
  BY <1>1, <1>2 DEF RowsOK, PrintOf, IdemTypeOK, Entries
<1>6. MemoryOK' /\ PostgresOK'
  BY <1>1, <1>2 DEF MemoryOK, PostgresOK, PrintOf, IdemTypeOK, ScopesOK, Active
<1>7. ReplaysOK'
  BY <1>1, <1>2, ReplaysKept DEF IdemTypeOK
<1> QED
  BY <1>3, <1>4, <1>5, <1>6, <1>7

\* withTenant: a commit takes effect after its request has given up.
LEMMA OperationCommitsLateStep ==
  ASSUME IdemInv, NEW r \in Requests, OperationCommitsLate(r)
  PROVE  IdemInv'
<1> USE DEF IdemInv
<1>1. /\ r \in inFlight /\ inFlight' = inFlight \ {r} /\ TakesEffect(r)
      /\ UNCHANGED <<backend, severed, pc, call, scope, rows, lock, waits, result, answer>>
  BY DEF OperationCommitsLate
<1>2. call[r] \in Calls
  BY <1>1 DEF ScopesOK, Admitted
<1>3. /\ AuditsOK'
      /\ applied' \in Seq({c.op : c \in Calls}) /\ audited' \in SUBSET {c.op : c \in Calls}
  BY <1>1, <1>2, EffectFacts
<1>4. IdemTypeOK'
  BY <1>1, <1>3 DEF IdemTypeOK
<1>5. ScopesOK' /\ RowsOK' /\ MemoryOK' /\ PostgresOK' /\ ReplaysOK'
  BY <1>1 DEF ScopesOK, RowsOK, MemoryOK, PostgresOK, ReplaysOK, PrincipalOf, PrintOf
<1> QED
  BY <1>3, <1>4, <1>5

\* removeExpired: only a finished entry is deleted, so no owner loses its own.
LEMMA RemoveExpiredStep ==
  ASSUME IdemInv, NEW s \in AllScopes, removeExpired(s)
  PROVE  IdemInv'
<1> USE RequestsFact DEF IdemInv
<1>1. /\ rows[s] # None /\ rows[s].status # None /\ rows' = [rows EXCEPT ![s] = None]
      /\ UNCHANGED <<backend, severed, inFlight, pc, call, scope, lock, waits, result, answer, applied, audited>>
  BY DEF removeExpired
<1>2. IdemTypeOK' /\ ScopesOK' /\ PostgresOK' /\ AuditsOK'
  BY <1>1 DEF IdemTypeOK, ScopesOK, PrincipalOf, PostgresOK, AuditsOK, OperationOnce
<1>3. RowsOK'
  BY <1>1 DEF RowsOK, PrintOf, IdemTypeOK
<1>4. MemoryOK'
  <2>1. \A x \in Requests :
          backend = "memory" /\ pc[x] \in {"running", "ran"} => scope[x] # s
    BY <1>1 DEF MemoryOK
  <2>2. \A x \in AllScopes : x # s => rows'[x] = rows[x]
    BY <1>1 DEF IdemTypeOK
  <2>3. \A x \in Requests : pc[x] \in {"running", "ran"} => scope[x] \in AllScopes
    BY DEF ScopesOK, Active, IdemTypeOK
  <2> QED
    BY <1>1, <2>1, <2>2, <2>3 DEF MemoryOK, PrintOf
<1>5. ReplaysOK'
  BY <1>1 DEF ReplaysOK, PrintOf
<1> QED
  BY <1>2, <1>3, <1>4, <1>5

\* Every step of the specification preserves the invariant.
LEMMA IdemStep == IdemInv /\ [IdemNext]_idemVars => IdemInv'
<1> SUFFICES ASSUME IdemInv, [IdemNext]_idemVars PROVE IdemInv'
  OBVIOUS
<1>1. ASSUME NEW r \in Requests, NEW c \in Calls, executeMutation(r, c) PROVE IdemInv'
  BY <1>1, ArrivalStep
<1>2. ASSUME NEW r \in Requests, Proceed(r) PROVE IdemInv'
  <2>1. CASE OperationCommits(r)
    BY <2>1, OperationEnds DEF OperationCommits
  <2>2. CASE OperationFails(r)
    BY <2>2, OperationEnds DEF OperationFails
  <2> QED
    BY <1>2, <2>1, <2>2, MemoryDoStep, MemoryWakeStep, ExecuteOwnedStep, PostgresLockStep,
       PostgresDoStep, PostgresRecordStep, PostgresFaultStep DEF Proceed
<1>3. ASSUME NEW r \in Requests, Fault(r) PROVE IdemInv'
  <2>1. CASE OperationCommitUnknown(r)
    BY <2>1, OperationEnds DEF OperationCommitUnknown
  <2> QED
    BY <1>3, <2>1, MemoryCancelStep, ExecuteOwnedAbortStep, PostgresSeverStep,
       PostgresFaultStep, OperationCommitsLateStep DEF Fault
<1>4. ASSUME NEW s \in AllScopes, removeExpired(s) PROVE IdemInv'
  BY <1>4, RemoveExpiredStep
<1>5. CASE UNCHANGED idemVars
  BY <1>5 DEF idemVars, IdemInv, IdemTypeOK, ScopesOK, RowsOK, MemoryOK, PostgresOK, ReplaysOK,
     AuditsOK, OperationOnce, PrincipalOf, PrintOf
<1> QED
  BY <1>1, <1>2, <1>3, <1>4, <1>5 DEF IdemNext

\* The inductive invariant holds throughout.
THEOREM IdemInvariant == IdemSpec => []IdemInv
BY IdemInitially, IdemStep, PTL DEF IdemSpec

\* executeMutation with either store, its faults and its retries, applies an
\* operation id at most once, for any number of requests and any calls.
THEOREM OperationsApplyOnce == IdemSpec => []OperationOnce
<1>1. IdemInv => OperationOnce
  BY DEF IdemInv, AuditsOK
<1> QED
  BY <1>1, IdemInvariant, PTL

\* Two requests of one scope never run at the same time, however many panic,
\* lose their client or come back, unless the connection that held the lock of
\* one of them was lost.
THEOREM ScopesRunAlone == IdemSpec => []OneExecutionPerScope
<1>1. IdemInv => OneExecutionPerScope
  BY OwnerAlone DEF OneExecutionPerScope
<1> QED
  BY <1>1, IdemInvariant, PTL

\* Every replay carries the answer of an identical request of the same actor.
THEOREM ReplaysAreOriginal == IdemSpec => []ReplayIsOriginal
<1>1. IdemInv => ReplayIsOriginal
  <2> SUFFICES ASSUME IdemInv, NEW r \in Requests, answer[r] # None, answer[r].replayed
               PROVE  \E q \in Requests \ {r} :
                        /\ call[q] # None /\ PrincipalOf(q) # None
                        /\ PrincipalOf(q).tenant = PrincipalOf(r).tenant
                        /\ PrincipalOf(q).actor = PrincipalOf(r).actor
                        /\ PrintOf(q) = PrintOf(r) /\ result[q] = answer[r].status
    BY DEF ReplayIsOriginal
  <2>1. PICK q \in Requests \ {r} :
          /\ scope[r] # None /\ scope[q] = scope[r] /\ PrintOf(q) = PrintOf(r)
          /\ result[q] = answer[r].status
    BY DEF IdemInv, ReplaysOK
  <2>2. /\ Admitted(call[q]) /\ scope[q] = scopeOf(PrincipalOf(q), call[q])
        /\ Admitted(call[r]) /\ scope[r] = scopeOf(PrincipalOf(r), call[r])
    BY <2>1 DEF IdemInv, ScopesOK
  <2>3. /\ scope[q].tenant = PrincipalOf(q).tenant /\ scope[q].actor = PrincipalOf(q).actor
        /\ scope[r].tenant = PrincipalOf(r).tenant /\ scope[r].actor = PrincipalOf(r).actor
    BY <2>2, ScopeFacts DEF PrincipalOf
  <2>4. call[q] # None /\ PrincipalOf(q) # None
    BY <2>2 DEF Admitted, PrincipalOf
  <2> QED
    BY <2>1, <2>3, <2>4
<1> QED
  BY <1>1, IdemInvariant, PTL

\* Every effect, and every commit still on its way, was asked for by a user in
\* its own tenant, under its own name and in an outlet assigned to it.
THEOREM EffectsStayInScope == IdemSpec => []EffectsInScope
<1>1. IdemInv => EffectsInScope
  <2> SUFFICES ASSUME IdemInv, NEW r \in Requests, result[r] = 201 \/ r \in inFlight
               PROVE  /\ PrincipalOf(r) # None /\ PrincipalOf(r).kind = "user"
                      /\ PrincipalOf(r).actor = call[r].actor
                      /\ \/ IsPlatformAdmin(PrincipalOf(r))
                         \/ /\ PrincipalOf(r).tenant = call[r].tenant
                            /\ AllowsOutlet(PrincipalOf(r), call[r].outlet)
    BY DEF EffectsInScope
  <2>1. Admitted(call[r])
    BY DEF IdemInv, ScopesOK
  <2> QED
    BY <2>1, ScopeFacts DEF PrincipalOf, Admitted
<1> QED
  BY <1>1, IdemInvariant, PTL
=============================================================================
