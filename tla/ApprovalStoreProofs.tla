------------------------- MODULE ApprovalStoreProofs -------------------------
(***************************************************************************)
(* ApprovalStore's safety properties for every set of requests, actors,    *)
(* limits and budgets, every expiry and every bound.                       *)
(***************************************************************************)
EXTENDS ApprovalStore, TLAPS

\* A call that has loaded its request holds the write lock, and what it
\* loaded is what is stored.
LoadedIsStored ==
    \A a \in Actors :
        call[a] # NoCall /\ call[a].loaded # None =>
            /\ lock = a
            /\ call[a].loaded = request[call[a].request]

\* Every request was logged when it was made.
Logged == \A r \in Requests : Len(log[r]) >= 1

IInv == /\ TypeOK /\ LoadedIsStored /\ Logged
        /\ GrantedOnce /\ MakerIsNotChecker /\ UsedWithinConditions
        /\ LogExplainsStatus

\* What the store keeps of its requests.
stored == <<request, log, granted>>

-----------------------------------------------------------------------------

\* A created request is pending, was never used, and only its maker is logged.
LEMMA InitIInv == Init => IInv
  <1> SUFFICES ASSUME Init PROVE IInv
    OBVIOUS
  <1>1. TypeOK
    BY ApprovalAssumption
    DEF Init, TypeOK, Request, Status, OPEN, FINAL, Decision, LogEvent
  <1>2. LoadedIsStored
    BY DEF Init, LoadedIsStored
  <1>3. \A r \in Requests : log[r] = <<[type |-> "requested", actor |-> RequestedBy[r]]>>
    BY DEF Init
  <1>4. \A r \in Requests : Len(log[r]) = 1 /\ log[r][1].type = "requested"
    <2> SUFFICES ASSUME NEW r \in Requests
                 PROVE  Len(log[r]) = 1 /\ log[r][1].type = "requested"
      OBVIOUS
    <2> DEFINE e == [type |-> "requested", actor |-> RequestedBy[r]]
    <2>1. log[r] = <<e>> /\ e.type = "requested"
      BY <1>3
    <2> HIDE DEF e
    <2> QED BY <2>1
  <1>5. Logged /\ MakerIsNotChecker
    BY <1>4 DEF Logged, MakerIsNotChecker
  <1>6. GrantedOnce /\ UsedWithinConditions
    BY DEF Init, GrantedOnce, UsedWithinConditions
  <1>7. LogExplainsStatus
    <2>1. \A r \in Requests : Last(r).type = "requested" /\ request[r].status = "pending"
      BY <1>4 DEF Init, Last
    <2>2. ASSUME NEW r \in Requests, NEW i \in 1..Len(log[r]) - 1 PROVE FALSE
      <3>1. Len(log[r]) = 1
        BY <1>4
      <3> DEFINE n == Len(log[r])
      <3>2. n = 1 /\ i \in 1..n - 1
        BY <3>1
      <3> HIDE DEF n
      <3> QED BY <3>2
    <2> QED BY <2>1, <2>2 DEF LogExplainsStatus, Decision
  <1> QED BY <1>1, <1>2, <1>5, <1>6, <1>7 DEF IInv

\* A step that leaves what is stored alone keeps whatever is said of it.
LEMMA StoredUntouched ==
    ASSUME IInv, UNCHANGED stored, TypeOK', LoadedIsStored'
    PROVE  IInv'
  <1>1. Logged' /\ GrantedOnce' /\ MakerIsNotChecker' /\ UsedWithinConditions'
    BY DEF IInv, stored, Logged, GrantedOnce, MakerIsNotChecker, UsedWithinConditions
  <1>2. LogExplainsStatus'
    BY DEF IInv, stored, LogExplainsStatus, Last
  <1> QED BY <1>1, <1>2 DEF IInv

\* Starting a call loads nothing.
LEMMA BeginOK ==
    ASSUME IInv, NEW a \in Actors, NEW op \in {"decide", "consume"}, Begin(a, op)
    PROVE  IInv'
  <1>1. PICK r \in Requests :
          call' = [call EXCEPT ![a] = [op |-> op, request |-> r,
                                       instant |-> clock, loaded |-> None]]
    BY DEF Begin
  <1>2. UNCHANGED <<request, log, lock, granted, clock>>
    BY DEF Begin
  <1>3. call' \in [Actors -> Call \cup {NoCall}]
    BY <1>1, ApprovalAssumption DEF IInv, TypeOK, Call
  <1>4. TypeOK'
    BY <1>2, <1>3 DEF IInv, TypeOK
  <1>5. LoadedIsStored'
    BY <1>1, <1>2 DEF IInv, TypeOK, LoadedIsStored
  <1> QED BY <1>2, <1>4, <1>5, StoredUntouched DEF stored

\* Loading takes the lock that nobody holds.
LEMMA LoadOK == ASSUME IInv, NEW a \in Actors, Load(a) PROVE IInv'
  <1>1. call[a] \in Call /\ request[call[a].request] \in Request
    BY DEF IInv, TypeOK, Load, Call
  <1>2. call' = [call EXCEPT ![a] =
                   [op |-> call[a].op, request |-> call[a].request,
                    instant |-> call[a].instant,
                    loaded |-> request[call[a].request]]]
    <2>1. [call[a] EXCEPT !.loaded = request[call[a].request]] =
            [op |-> call[a].op, request |-> call[a].request,
             instant |-> call[a].instant,
             loaded |-> request[call[a].request]]
      BY <1>1 DEF Call
    <2> QED BY <2>1 DEF Load
  <1>3. UNCHANGED <<request, log, granted, clock>> /\ lock = None /\ lock' = a
    BY DEF Load, MayLock
  <1>4. call' \in [Actors -> Call \cup {NoCall}]
    BY <1>1, <1>2 DEF IInv, TypeOK, Call
  <1>5. TypeOK'
    BY <1>3, <1>4 DEF IInv, TypeOK
  <1>6. LoadedIsStored'
    BY <1>1, <1>2, <1>3, ApprovalAssumption DEF IInv, TypeOK, LoadedIsStored, Call
  <1> QED BY <1>3, <1>5, <1>6, StoredUntouched DEF stored

\* A crash takes the call with it, and the lock if it was the crashed call's.
LEMMA CrashOK == ASSUME IInv, NEW a \in Actors, Crash(a) PROVE IInv'
  <1>1. TypeOK'
    BY DEF IInv, TypeOK, Crash
  <1>2. LoadedIsStored'
    BY DEF IInv, TypeOK, LoadedIsStored, Crash
  <1> QED BY <1>1, <1>2, StoredUntouched DEF Crash, stored

\* Time passes.
LEMMA TickOK == ASSUME IInv, Tick PROVE IInv'
  <1>1. TypeOK'
    BY ApprovalAssumption DEF IInv, TypeOK, Tick
  <1>2. LoadedIsStored'
    BY DEF IInv, LoadedIsStored, Tick
  <1> QED BY <1>1, <1>2, StoredUntouched DEF Tick, stored

-----------------------------------------------------------------------------

\* However a transaction ends, nothing is loaded afterwards.
LEMMA CommitUnloads ==
    ASSUME IInv, NEW a \in Actors, call[a] # NoCall, call[a].loaded # None,
           NEW admitted \in BOOLEAN, NEW new, NEW type, Commit(a, admitted, new, type)
    PROVE  /\ LoadedIsStored'
           /\ call' \in [Actors -> Call \cup {NoCall}]
           /\ lock' \in Actors \cup {None}
           /\ clock' \in 0..MaxTime
  <1>1. call' = [call EXCEPT ![a] = NoCall] /\ lock' = None /\ clock' = clock
    BY DEF Commit
  <1>2. \A b \in Actors \ {a} : call[b] # NoCall => call[b].loaded = None
    BY DEF IInv, LoadedIsStored
  <1>3. LoadedIsStored'
    BY <1>1, <1>2 DEF IInv, TypeOK, LoadedIsStored
  <1> QED BY <1>1, <1>3 DEF IInv, TypeOK

\* A transaction that saves nothing.
LEMMA RefusedOK ==
    ASSUME IInv, NEW a \in Actors, call[a] # NoCall, call[a].loaded # None,
           NEW new, NEW type, Commit(a, FALSE, new, type), UNCHANGED granted
    PROVE  IInv'
  <1>1. UNCHANGED stored
    BY DEF Commit, stored
  <1>2. TypeOK'
    BY <1>1, CommitUnloads DEF IInv, TypeOK, stored
  <1> QED BY <1>1, <1>2, CommitUnloads, StoredUntouched

\* What an admitted transaction writes.
LEMMA CommitWrites ==
    ASSUME IInv, NEW a \in Actors, call[a] \in Call, call[a].loaded # None,
           NEW new \in Request, NEW type, [type |-> type, actor |-> a] \in LogEvent,
           Commit(a, TRUE, new, type)
    PROVE  /\ call[a].request \in Requests
           /\ call[a].loaded = request[call[a].request]
           /\ request' = [request EXCEPT ![call[a].request] = new]
           /\ log' = [log EXCEPT ![call[a].request] =
                        Append(log[call[a].request], [type |-> type, actor |-> a])]
           /\ request' \in [Requests -> Request]
           /\ log' \in [Requests -> Seq(LogEvent)]
  <1>1. call[a].request \in Requests /\ call[a] # NoCall
    BY DEF Call, NoCall
  <1>2. call[a].loaded = request[call[a].request]
    BY <1>1 DEF IInv, LoadedIsStored
  <1>3. log[call[a].request] \in Seq(LogEvent)
    BY <1>1 DEF IInv, TypeOK
  <1>4. request' = [request EXCEPT ![call[a].request] = new]
    BY DEF Commit
  <1>5. log' = [log EXCEPT ![call[a].request] =
                  Append(log[call[a].request], [type |-> type, actor |-> a])]
    BY DEF Commit
  <1>6. request' \in [Requests -> Request]
    BY <1>4 DEF IInv, TypeOK
  <1>7. log' \in [Requests -> Seq(LogEvent)]
    BY <1>1, <1>3, <1>5 DEF IInv, TypeOK
  <1> QED BY <1>1, <1>2, <1>4, <1>5, <1>6, <1>7

\* The effect of an admitted transaction on the rest of the invariant, given
\* what its decision checked: the request was not final, the actor was not its
\* maker, and the new request is what the event says.
LEMMA AdmittedOK ==
    ASSUME IInv, NEW a \in Actors, call[a] \in Call, call[a].loaded # None,
           NEW new \in Request, NEW type \in Decision \cup {"expired", "consumed"},
           NEW r, r = call[a].request,
           Commit(a, TRUE, new, type),
           a # RequestedBy[r],
           call[a].loaded.status \notin FINAL,
           new.decision = "approve_with_conditions" => new.conditions # None,
           type \in {"expired", "consumed"} => new.status = type,
           type \in Decision => /\ new.status = StatusAfter(type)
                                /\ new.decision = type
                                /\ new.decidedBy = a,
           granted' = IF type = "consumed" THEN [granted EXCEPT ![r] = @ + 1]
                                           ELSE granted,
           type = "consumed" /\ new.decision = "approve_with_conditions"
               => new.budget <= new.conditions /\ new.budget <= ManifestLimit
    PROVE  IInv'
  <1> DEFINE e == [type |-> type, actor |-> a]
  <1>1. e \in LogEvent /\ e.type = type /\ e.actor = a
    BY DEF LogEvent
  <1>2. /\ r \in Requests /\ r = call[a].request
        /\ call[a].loaded = request[r]
        /\ request' = [request EXCEPT ![r] = new]
        /\ log' = [log EXCEPT ![r] = Append(log[r], e)]
        /\ request' \in [Requests -> Request]
        /\ log' \in [Requests -> Seq(LogEvent)]
    <2>1. /\ call[a].request \in Requests
          /\ call[a].loaded = request[call[a].request]
          /\ request' = [request EXCEPT ![call[a].request] = new]
          /\ log' = [log EXCEPT ![call[a].request] = Append(log[call[a].request], e)]
          /\ request' \in [Requests -> Request]
          /\ log' \in [Requests -> Seq(LogEvent)]
      BY <1>1, CommitWrites
    <2> HIDE DEF e
    <2> QED BY <2>1
  <1> HIDE DEF e
  <1>3. log[r] \in Seq(LogEvent) /\ Len(log[r]) >= 1
    BY <1>2 DEF IInv, TypeOK, Logged
  <1>4. /\ Len(log'[r]) = Len(log[r]) + 1
        /\ \A i \in 1..Len(log[r]) : log'[r][i] = log[r][i]
        /\ log'[r][Len(log[r]) + 1] = e
    BY <1>1, <1>2, <1>3 DEF IInv, TypeOK
  <1>5. /\ request'[r] = new
        /\ \A q \in Requests \ {r} : request'[q] = request[q] /\ log'[q] = log[q]
    BY <1>2 DEF IInv, TypeOK
  <1>6. request[r].status \notin FINAL
    BY <1>2
  <1>7. granted' \in [Requests -> Nat]
    BY <1>2 DEF IInv, TypeOK
  <1>8. call[a] # NoCall
    BY DEF Call, NoCall
  <1>9. TypeOK' /\ LoadedIsStored'
    BY <1>2, <1>5, <1>7, <1>8, CommitUnloads DEF IInv, TypeOK
  <1>10. Logged'
    BY <1>3, <1>4, <1>5 DEF IInv, Logged
  <1>11. GrantedOnce'
    <2>1. new.status = "consumed" <=> type = "consumed"
      BY DEF StatusAfter, Decision
    <2>2. granted[r] = 0
      BY <1>2, <1>6 DEF IInv, TypeOK, GrantedOnce, FINAL
    <2>3. granted'[r] = IF type = "consumed" THEN 1 ELSE 0
      BY <1>2, <2>2 DEF IInv, TypeOK
    <2>4. \A q \in Requests \ {r} : granted'[q] = granted[q]
      BY DEF IInv, TypeOK
    <2> QED BY <1>5, <2>1, <2>3, <2>4 DEF IInv, GrantedOnce
  <1>12. MakerIsNotChecker'
    <2>1. \A i \in 2..Len(log'[r]) : log'[r][i].actor # RequestedBy[r]
      BY <1>1, <1>2, <1>3, <1>4 DEF IInv, MakerIsNotChecker
    <2> QED BY <1>5, <2>1 DEF IInv, MakerIsNotChecker
  <1>13. UsedWithinConditions'
    <2>1. new.status = "consumed" => type = "consumed"
      BY DEF StatusAfter, Decision
    <2> QED BY <1>5, <2>1 DEF IInv, UsedWithinConditions
  <1>14. LogExplainsStatus'
    <2>1. log'[r][Len(log'[r])] = e
      BY <1>3, <1>4
    <2>2. log[r][Len(log[r])].type \notin {"expired", "consumed", "deny"}
      BY <1>2, <1>6 DEF IInv, LogExplainsStatus, Last, FINAL, StatusAfter, Decision
    <2>3. \A i \in 1..Len(log'[r]) - 1 :
            log'[r][i].type \notin {"expired", "consumed", "deny"}
      <3> SUFFICES ASSUME NEW i \in 1..Len(log[r])
                   PROVE  log[r][i].type \notin {"expired", "consumed", "deny"}
        <4>1. Len(log'[r]) - 1 = Len(log[r])
          BY <1>3, <1>4
        <4> QED BY <1>4, <4>1
      <3>1. CASE i = Len(log[r])
        BY <2>2, <3>1
      <3>2. CASE i \in 1..Len(log[r]) - 1
        BY <1>2, <3>2 DEF IInv, LogExplainsStatus
      <3> QED BY <1>3, <3>1, <3>2
    <2>4. ASSUME NEW q \in Requests \ {r}
          PROVE  /\ log'[q][Len(log'[q])] = log[q][Len(log[q])]
                 /\ Len(log'[q]) = Len(log[q]) /\ log'[q] = log[q]
                 /\ request'[q] = request[q]
      BY <1>5
    <2>5. e.type # "requested"
      BY <1>1 DEF Decision
    <2> QED
      BY <1>1, <1>5, <2>1, <2>3, <2>4, <2>5 DEF IInv, LogExplainsStatus, Last
  <1> QED BY <1>9, <1>10, <1>11, <1>12, <1>13, <1>14 DEF IInv

-----------------------------------------------------------------------------

\* A request found expired is saved as such, and is otherwise what it was.
LEMMA ExpireOK ==
    ASSUME IInv, NEW a \in Actors, call[a] \in Call, call[a].loaded # None,
           a # RequestedBy[call[a].request], call[a].loaded.status \notin FINAL,
           Commit(a, TRUE, [call[a].loaded EXCEPT !.status = "expired"], "expired"),
           UNCHANGED granted
    PROVE  IInv'
  <1>1. call[a].loaded \in Request /\ call[a].request \in Requests
    BY DEF Call
  <1>2. call[a].loaded = request[call[a].request]
    BY <1>1 DEF IInv, LoadedIsStored, Call, NoCall
  <1> DEFINE new == [call[a].loaded EXCEPT !.status = "expired"]
  <1>3. new \in Request /\ new.status = "expired"
    BY <1>1 DEF Request, Status, FINAL
  <1>4. new.decision = "approve_with_conditions" => new.conditions # None
    BY <1>1, <1>2 DEF IInv, TypeOK, Request
  <1>5. Commit(a, TRUE, new, "expired")
    OBVIOUS
  <1> HIDE DEF new
  <1> QED BY <1>3, <1>4, <1>5, AdmittedOK DEF Decision

\* A decision.
LEMMA DecideOK == ASSUME IInv, NEW a \in Actors, Decide(a) PROVE IInv'
  <1>1. PICK decision \in Decision, conditions \in Limits \cup {None} :
         LET c == call[a] IN
         \/ /\ MayDecide(a, c) => ~Expired(c) /\ ~ValidDecision(decision, conditions)
            /\ Commit(a, FALSE, c.loaded, "expired")
         \/ /\ MayDecide(a, c) /\ Expired(c)
            /\ Commit(a, TRUE, [c.loaded EXCEPT !.status = "expired"], "expired")
         \/ /\ MayDecide(a, c) /\ ~Expired(c) /\ ValidDecision(decision, conditions)
            /\ Commit(a, TRUE, Decided(a, c, decision, conditions), decision)
    BY DEF Decide
  <1>2. call[a] \in Call /\ call[a] # NoCall /\ call[a].loaded # None /\ UNCHANGED granted
    BY DEF Decide, InCall, NoCall, IInv, TypeOK
  <1>3. call[a].loaded \in Request
    BY <1>2 DEF Call
  <1>4. MayDecide(a, call[a]) =>
          a # RequestedBy[call[a].request] /\ call[a].loaded.status \notin FINAL
    BY DEF MayDecide, OPEN, FINAL
  <1>5. CASE Commit(a, FALSE, call[a].loaded, "expired")
    BY <1>2, <1>5, RefusedOK
  <1>6. CASE /\ MayDecide(a, call[a])
             /\ Commit(a, TRUE, [call[a].loaded EXCEPT !.status = "expired"], "expired")
    BY <1>2, <1>4, <1>6, ExpireOK
  <1>7. CASE /\ MayDecide(a, call[a]) /\ ValidDecision(decision, conditions)
             /\ Commit(a, TRUE, Decided(a, call[a], decision, conditions), decision)
    <2> DEFINE new == Decided(a, call[a], decision, conditions)
    <2>1. new = [status |-> StatusAfter(decision), decision |-> decision,
                 decidedBy |-> a, conditions |-> conditions,
                 budget |-> call[a].loaded.budget]
      BY DEF Decided
    <2>2. StatusAfter(decision) \in Status
      BY DEF StatusAfter, Status, OPEN, FINAL
    <2>3. new \in Request
      BY <1>3, <2>1, <2>2 DEF Request
    <2>4. /\ new.status = StatusAfter(decision)
          /\ new.decision = decision /\ new.decidedBy = a
          /\ decision = "approve_with_conditions" => new.conditions # None
      BY <1>7, <2>1 DEF ValidDecision
    <2>5. Commit(a, TRUE, new, decision)
      BY <1>7
    <2>6. decision \notin {"expired", "consumed"}
      BY DEF Decision
    <2> HIDE DEF new
    <2> QED BY <1>2, <1>4, <1>7, <2>3, <2>4, <2>5, <2>6, AdmittedOK
  <1> QED BY <1>1, <1>5, <1>6, <1>7

\* A use of an approval.
LEMMA ConsumeOK == ASSUME IInv, NEW a \in Actors, Consume(a) PROVE IInv'
  <1>1. PICK exact \in BOOLEAN, budget \in Budgets \cup {None} :
       LET c == call[a]
           grant == /\ MayConsume(a, c) /\ ~Expired(c)
                    /\ exact /\ ConditionsMet(c, budget)
       IN /\ \/ /\ MayConsume(a, c) /\ Expired(c)
                /\ Commit(a, TRUE, [c.loaded EXCEPT !.status = "expired"], "expired")
             \/ /\ ~(MayConsume(a, c) /\ Expired(c))
                /\ Commit(a, grant, Consumed(c, budget), "consumed")
          /\ granted' = IF grant THEN [granted EXCEPT ![c.request] = @ + 1]
                                 ELSE granted
    BY DEF Consume
  <1> DEFINE grant == /\ MayConsume(a, call[a]) /\ ~Expired(call[a])
                      /\ exact /\ ConditionsMet(call[a], budget)
  <1>2. call[a] \in Call /\ call[a] # NoCall /\ call[a].loaded # None
    BY DEF Consume, InCall, NoCall, IInv, TypeOK
  <1>3. call[a].loaded \in Request
    BY <1>2 DEF Call
  <1>4. MayConsume(a, call[a]) =>
          a # RequestedBy[call[a].request] /\ call[a].loaded.status \notin FINAL
    BY DEF MayConsume, FINAL
  <1>5. CASE /\ MayConsume(a, call[a]) /\ Expired(call[a])
             /\ Commit(a, TRUE, [call[a].loaded EXCEPT !.status = "expired"], "expired")
    <2>1. UNCHANGED granted
      BY <1>1, <1>5
    <2> QED BY <1>2, <1>4, <1>5, <2>1, ExpireOK
  <1>6. CASE ~grant /\ Commit(a, grant, Consumed(call[a], budget), "consumed")
    <2>1. UNCHANGED granted
      BY <1>1, <1>6
    <2>2. Commit(a, FALSE, Consumed(call[a], budget), "consumed")
      BY <1>6 DEF Commit
    <2> QED BY <1>2, <2>1, <2>2, RefusedOK
  <1>7. CASE grant /\ Commit(a, grant, Consumed(call[a], budget), "consumed")
    <2> DEFINE new == Consumed(call[a], budget)
    <2>1. new = [status |-> "consumed", decision |-> call[a].loaded.decision,
                 decidedBy |-> call[a].loaded.decidedBy,
                 conditions |-> call[a].loaded.conditions, budget |-> budget]
      BY DEF Consumed
    <2>2. new \in Request /\ new.status = "consumed"
      BY <1>3, <2>1 DEF Request, Status, FINAL
    <2>3. new.decision = "approve_with_conditions" => new.conditions # None
      <3>1. call[a].loaded = request[call[a].request] /\ call[a].request \in Requests
        BY <1>2 DEF IInv, LoadedIsStored, Call
      <3> QED BY <2>1, <3>1 DEF IInv, TypeOK
    <2>4. new.decision = "approve_with_conditions"
            => new.budget <= new.conditions /\ new.budget <= ManifestLimit
      BY <1>7, <2>1 DEF ConditionsMet
    <2>5. granted' = [granted EXCEPT ![call[a].request] = @ + 1]
      BY <1>1, <1>7
    <2>6. Commit(a, TRUE, new, "consumed")
      BY <1>7 DEF Commit
    <2>7. a # RequestedBy[call[a].request] /\ call[a].loaded.status \notin FINAL
      BY <1>4, <1>7
    <2> HIDE DEF new
    <2> QED BY <1>2, <2>2, <2>3, <2>4, <2>5, <2>6, <2>7, AdmittedOK DEF Decision
  <1> QED BY <1>1, <1>5, <1>6, <1>7

\* Every step keeps the invariant.
LEMMA Inductive == IInv /\ [Next]_vars => IInv'
  <1> SUFFICES ASSUME IInv, [Next]_vars PROVE IInv'
    OBVIOUS
  <1>1. CASE Tick
    BY <1>1, TickOK
  <1>2. ASSUME NEW a \in Actors, BeginDecide(a) \/ BeginConsume(a) PROVE IInv'
    BY <1>2, BeginOK DEF BeginDecide, BeginConsume
  <1>3. ASSUME NEW a \in Actors, Load(a) PROVE IInv'
    BY <1>3, LoadOK
  <1>4. ASSUME NEW a \in Actors, Decide(a) PROVE IInv'
    BY <1>4, DecideOK
  <1>5. ASSUME NEW a \in Actors, Consume(a) PROVE IInv'
    BY <1>5, ConsumeOK
  <1>6. ASSUME NEW a \in Actors, Crash(a) PROVE IInv'
    BY <1>6, CrashOK
  <1>7. CASE UNCHANGED vars
    <2>1. TypeOK' /\ LoadedIsStored'
      BY <1>7 DEF vars, IInv, TypeOK, LoadedIsStored
    <2> QED BY <1>7, <2>1, StoredUntouched DEF vars, stored
  <1> QED BY <1>1, <1>2, <1>3, <1>4, <1>5, <1>6, <1>7 DEF Next

\* A transaction that saves a request keeps the decisions that stand.
LEMMA CommitStays ==
    ASSUME IInv, NEW a \in Actors, call[a] \in Call, call[a].loaded # None,
           NEW admitted \in BOOLEAN, NEW new, NEW type, Commit(a, admitted, new, type),
           LET old == call[a].loaded IN
             admitted /\ old.status \in FINAL \cup {"approved"} =>
               /\ new.decidedBy = old.decidedBy
               /\ new.conditions = old.conditions
               /\ old.status = "approved"
               /\ new.status \in {"expired", "consumed"}
    PROVE  DecisionKept
  <1>1. CASE ~admitted
    BY <1>1 DEF Commit, DecisionKept
  <1>2. CASE admitted
    <2>1. call[a] # NoCall /\ call[a].request \in Requests
      BY DEF Call, NoCall
    <2>2. call[a].loaded = request[call[a].request]
      BY <2>1 DEF IInv, LoadedIsStored
    <2>3. request' = [request EXCEPT ![call[a].request] = new]
      BY <1>2 DEF Commit
    <2> QED BY <1>2, <2>1, <2>2, <2>3 DEF IInv, TypeOK, DecisionKept, FINAL
  <1> QED BY <1>1, <1>2

\* Every step keeps the decisions that stand.
LEMMA StepStays == IInv /\ [Next]_vars => DecisionKept
  <1> SUFFICES ASSUME IInv, [Next]_vars PROVE DecisionKept
    OBVIOUS
  <1>1. CASE UNCHANGED request
    BY <1>1 DEF DecisionKept
  <1>2. ASSUME NEW a \in Actors, Decide(a) PROVE DecisionKept
    <2>1. call[a] \in Call /\ call[a].loaded # None /\ call[a].loaded \in Request
      BY <1>2 DEF Decide, InCall, NoCall, IInv, TypeOK, Call
    <2>2. PICK decision \in Decision, conditions \in Limits \cup {None} :
            \/ Commit(a, FALSE, call[a].loaded, "expired")
            \/ /\ MayDecide(a, call[a])
               /\ Commit(a, TRUE, [call[a].loaded EXCEPT !.status = "expired"], "expired")
            \/ /\ MayDecide(a, call[a])
               /\ Commit(a, TRUE, Decided(a, call[a], decision, conditions), decision)
      BY <1>2 DEF Decide
    <2>3. MayDecide(a, call[a]) => call[a].loaded.status \notin FINAL \cup {"approved"}
      BY DEF MayDecide, OPEN, FINAL
    <2> DEFINE expired == [call[a].loaded EXCEPT !.status = "expired"]
               decided == Decided(a, call[a], decision, conditions)
    <2>4. \/ Commit(a, FALSE, call[a].loaded, "expired")
          \/ MayDecide(a, call[a]) /\ Commit(a, TRUE, expired, "expired")
          \/ MayDecide(a, call[a]) /\ Commit(a, TRUE, decided, decision)
      BY <2>2
    <2> HIDE DEF expired, decided
    <2> QED BY <2>1, <2>3, <2>4, CommitStays
  <1>3. ASSUME NEW a \in Actors, Consume(a) PROVE DecisionKept
    <2>1. call[a] \in Call /\ call[a].loaded # None /\ call[a].loaded \in Request
      BY <1>3 DEF Consume, InCall, NoCall, IInv, TypeOK, Call
    <2>2. PICK exact \in BOOLEAN, budget \in Budgets \cup {None} :
            LET grant == /\ MayConsume(a, call[a]) /\ ~Expired(call[a])
                         /\ exact /\ ConditionsMet(call[a], budget)
            IN  \/ /\ MayConsume(a, call[a])
                   /\ Commit(a, TRUE, [call[a].loaded EXCEPT !.status = "expired"], "expired")
                \/ Commit(a, grant, Consumed(call[a], budget), "consumed")
      BY <1>3 DEF Consume
    <2> DEFINE expired == [call[a].loaded EXCEPT !.status = "expired"]
               consumed == Consumed(call[a], budget)
               grant == /\ MayConsume(a, call[a]) /\ ~Expired(call[a])
                        /\ exact /\ ConditionsMet(call[a], budget)
    <2>3. /\ expired.status = "expired"
          /\ expired.decidedBy = call[a].loaded.decidedBy
          /\ expired.conditions = call[a].loaded.conditions
      BY <2>1 DEF Request
    <2>4. /\ consumed.status = "consumed"
          /\ consumed.decidedBy = call[a].loaded.decidedBy
          /\ consumed.conditions = call[a].loaded.conditions
      BY DEF Consumed
    <2>5. \/ MayConsume(a, call[a]) /\ Commit(a, TRUE, expired, "expired")
          \/ Commit(a, grant, consumed, "consumed")
      BY <2>2
    <2>6. MayConsume(a, call[a]) => call[a].loaded.status = "approved"
      BY DEF MayConsume
    <2>7. grant \in BOOLEAN /\ (grant => MayConsume(a, call[a]))
      BY DEF MayConsume, Expired, ConditionsMet
    <2> HIDE DEF expired, consumed, grant
    <2> QED BY <2>1, <2>3, <2>4, <2>5, <2>6, <2>7, CommitStays
  <1> QED
    BY <1>1, <1>2, <1>3
    DEF Next, vars, Tick, BeginDecide, BeginConsume, Begin, Load, Crash

\* The invariant holds in every reachable state.
LEMMA Invariant == Spec => []IInv
  BY InitIInv, Inductive, PTL DEF Spec

-----------------------------------------------------------------------------

\* decide and consume leave a stored request and an event log that are well
\* formed, and an approval with conditions always carries them.
THEOREM TypeCorrect == Spec => []TypeOK
  <1>1. IInv => TypeOK
    BY DEF IInv
  <1> QED BY Invariant, <1>1, PTL

\* consume: one approval starts at most one execution, however many actors
\* race for it and wherever they die.
THEOREM OneShot == Spec => []GrantedOnce
  <1>1. IInv => GrantedOnce
    BY DEF IInv
  <1> QED BY Invariant, <1>1, PTL

\* consume with validate_approval_conditions: what happens is what was granted,
\* one execution at most and within the limit of a conditional approval.
THEOREM AsGranted == Spec => []UsedAsGranted
  <1>1. IInv => UsedAsGranted
    BY DEF IInv, UsedAsGranted
  <1> QED BY Invariant, <1>1, PTL

\* decide and consume: no event after its creation is by a request's maker.
THEOREM SeparationOfDuties == Spec => []MakerIsNotChecker
  <1>1. IInv => MakerIsNotChecker
    BY DEF IInv
  <1> QED BY Invariant, <1>1, PTL

\* validate_approval_conditions: a conditional approval is only ever used for a
\* plan that keeps within its limit.
THEOREM WithinConditions == Spec => []UsedWithinConditions
  <1>1. IInv => UsedWithinConditions
    BY DEF IInv
  <1> QED BY Invariant, <1>1, PTL

\* _save_locked and _append_event_locked: the log always explains the status.
THEOREM LogExplains == Spec => []LogExplainsStatus
  <1>1. IInv => LogExplainsStatus
    BY DEF IInv
  <1> QED BY Invariant, <1>1, PTL

\* decide: a decision that approves or denies is neither taken back nor given
\* to somebody else.
THEOREM DecisionIsFinal == Spec => DecisionStays
  <1>1. IInv /\ [Next]_vars => [DecisionKept]_vars
    BY StepStays
  <1> QED BY Invariant, <1>1, PTL DEF Spec, DecisionStays
=============================================================================
