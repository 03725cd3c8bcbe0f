------------------------ MODULE BatchTimetableSafety ------------------------
(***************************************************************************)
(* The safety theorems about BatchTimetable: what holds of every timetable,  *)
(* whatever number of administrators work on it at once.                      *)
(***************************************************************************)
EXTENDS BatchTimetable, TLAPS

-----------------------------------------------------------------------------
(* The inductive invariant. *)

Ordered(row) == row.startsAt < row.endsAt

(* What a request is to write: rows that may be inserted, changes of rows there
   are, and switches of groups there are. *)
RequestTyped(request) ==
  /\ request \in [busy: BOOLEAN, inserts: SUBSET Session, closed: SUBSET DOMAIN sessions,
                  switched: UNION {[gs -> BOOLEAN] : gs \in SUBSET GroupIds},
                  seen: SUBSET DOMAIN sessions]
  /\ \A row \in request.inserts : Ordered(row)

RequestsTyped ==
  /\ DOMAIN requests = Workers
  /\ \A w \in Workers : RequestTyped(requests[w])

IInv == TypeOK /\ RequestsTyped /\ RefusedOnlyWhenOvertaken

-----------------------------------------------------------------------------
(* The classes that requests ask for. *)

(* A class that ends before it begins ends on the next day. *)
LEMMA SessionDatetimesOrdered ==
  ASSUME NEW date \in Nat, NEW template \in Templates
  PROVE  /\ SessionDatetimes(date, template) \in Window
         /\ Ordered(SessionDatetimes(date, template))
<1>1. template.start \in 0 .. 23 /\ template.end \in 0 .. 23 /\ template.start # template.end
  BY TimetableAssumption DEF Template, DAY
<1>2. CASE template.end < template.start
  BY <1>1, <1>2 DEF SessionDatetimes, Window, Ordered, DAY
<1>3. CASE ~(template.end < template.start)
  BY <1>1, <1>3 DEF SessionDatetimes, Window, Ordered, DAY
<1> QED
  BY <1>2, <1>3

(* The classes of a generation end after they begin. *)
LEMMA ExpectedBatchSessionsOrdered ==
  ASSUME NEW from \in Dates, NEW to \in Dates, NEW weekdays,
         NEW templates \in SUBSET Templates,
         NEW expected \in ExpectedBatchSessions(from, to, weekdays, templates)
  PROVE  expected.startsAt \in Nat /\ expected.endsAt \in Nat /\ Ordered(expected)
<1>1. PICK date \in from .. to, template \in templates :
        expected = ExpectedBatchSession(date, template)
  BY DEF ExpectedBatchSessions
<1>2. date \in Nat
  BY TimetableAssumption
<1> QED
  BY <1>1, <1>2, SessionDatetimesOrdered DEF ExpectedBatchSession, Window, Ordered

(* A window that ends after it begins makes a well-formed class. *)
LEMMA NewSessionTyped ==
  ASSUME NEW g \in GroupIds, NEW window, window.startsAt \in Nat, window.endsAt \in Nat,
         Ordered(window), NEW status \in SessionStatuses
  PROVE  /\ NewSession(g, window, status) \in Session
         /\ Ordered(NewSession(g, window, status))
         /\ NewSession(g, window, status).group = g
  BY DEF NewSession, Session, Ordered

-----------------------------------------------------------------------------
(* Requests begin. *)

(* Beginning a request that fits the classes there are keeps the invariant. *)
LEMMA BeginKeeps ==
  ASSUME IInv, NEW w \in Workers, NEW kind, NEW inserts \in SUBSET Session,
         \A row \in inserts : Ordered(row),
         NEW closed \in SUBSET DOMAIN sessions,
         NEW switched \in UNION {[gs -> BOOLEAN] : gs \in SUBSET GroupIds},
         Begin(w, kind, inserts, closed, switched),
         \A a, b \in inserts :
           a # b /\ a.status # "CANCELLED" /\ b.status # "CANCELLED" => ~Overlap(a, b),
         \A a \in inserts, s \in DOMAIN sessions :
           a.status # "CANCELLED" /\ sessions[s].status # "CANCELLED"
             /\ a.group = sessions[s].group => ~Overlap(a, sessions[s])
  PROVE  IInv'
<1> DEFINE request == [busy |-> TRUE, inserts |-> inserts, closed |-> closed,
                       switched |-> switched, seen |-> DOMAIN sessions]
<1>1. /\ requests' = [requests EXCEPT ![w] = request]
      /\ UNCHANGED <<now, groups, sessions>>
  BY DEF Begin
<1>2. DOMAIN requests = Workers
  BY DEF IInv, RequestsTyped
<1>3. \A x \in Workers : requests'[x] = IF x = w THEN request ELSE requests[x]
  BY <1>1, <1>2
<1>4. RequestTyped(request)
  BY DEF RequestTyped
<1> HIDE DEF request
<1>5. RequestsTyped'
  BY <1>1, <1>2, <1>3, <1>4 DEF IInv, RequestsTyped, RequestTyped
<1>6. RefusedOnlyWhenOvertaken'
  <2> SUFFICES ASSUME NEW x \in Workers
               PROVE  /\ \A a, b \in requests'[x].inserts :
                           a # b /\ a.status # "CANCELLED" /\ b.status # "CANCELLED"
                             => ~Overlap(a, b)
                      /\ \A a \in requests'[x].inserts, s \in requests'[x].seen :
                           a.status # "CANCELLED" /\ sessions[s].status # "CANCELLED"
                             /\ a.group = sessions[s].group => ~Overlap(a, sessions[s])
    BY <1>1 DEF RefusedOnlyWhenOvertaken
  <2>1. CASE x = w
    BY <2>1, <1>3 DEF request
  <2>2. CASE x # w
    BY <2>2, <1>3 DEF IInv, RefusedOnlyWhenOvertaken
  <2> QED
    BY <2>1, <2>2
<1>7. TypeOK'
  BY <1>1 DEF IInv, TypeOK
<1> QED
  BY <1>5, <1>6, <1>7 DEF IInv

(* A new class overlaps what its window overlaps. *)
LEMMA OverlapOfNewSession ==
  ASSUME NEW g, NEW window, NEW status, NEW row \in Session,
         window.startsAt \in Nat, window.endsAt \in Nat
  PROVE  Overlap(NewSession(g, window, status), row) <=> Overlap(row, window)
BY DEF Overlap, NewSession, Session

(* A class that is asked for fits the classes there are. *)
LEMMA CreateKeeps ==
  ASSUME IInv, NEW w \in Workers, CreateBatchClassSession(w)
  PROVE  IInv'
<1>1. PICK g \in GroupIds, window \in Windows, status \in SessionStatuses :
        /\ NoBatchSessionOverlap(g, window)
        /\ Begin(w, "CREATE", {NewSession(g, window, status)}, {}, Nothing)
  BY DEF CreateBatchClassSession
<1> DEFINE row == NewSession(g, window, status)
<1>2. window.startsAt \in Nat /\ window.endsAt \in Nat /\ Ordered(window)
  BY TimetableAssumption DEF Window, Ordered
<1>3. row \in Session /\ Ordered(row) /\ row.group = g
  BY <1>2, NewSessionTyped
<1>4. \A s \in DOMAIN sessions :
        sessions[s].status # "CANCELLED" /\ row.group = sessions[s].group
          => ~Overlap(row, sessions[s])
  BY <1>1, <1>2, <1>3, OverlapOfNewSession DEF NoBatchSessionOverlap, IInv, TypeOK
<1>5. Nothing \in UNION {[gs -> BOOLEAN] : gs \in SUBSET GroupIds}
  BY DEF Nothing
<1> HIDE DEF row
<1> QED
  BY <1>1, <1>3, <1>4, <1>5, BeginKeeps DEF row

(* The classes of a generation fit those there are, and each other. *)
LEMMA GenerateKeeps ==
  ASSUME IInv, NEW w \in Workers, GenerateBatchSessions(w)
  PROVE  IInv'
<1>1. PICK g \in GroupIds, from \in Dates, to \in Dates,
           weekdays \in WeekdaySets, templates \in SUBSET Templates :
        LET expected == ExpectedBatchSessions(from, to, weekdays, templates) IN
          /\ NoOverlapsWithinGeneration(expected)
          /\ \A window \in expected : NoBatchSessionOverlap(g, window)
          /\ Begin(w, "GENERATE",
                   {NewSession(g, window, "SCHEDULED") : window \in expected}, {}, Nothing)
  BY DEF GenerateBatchSessions
<1> DEFINE expected == ExpectedBatchSessions(from, to, weekdays, templates)
           inserts == {NewSession(g, window, "SCHEDULED") : window \in expected}
<1>2. \A window \in expected :
        window.startsAt \in Nat /\ window.endsAt \in Nat /\ Ordered(window)
  BY ExpectedBatchSessionsOrdered
<1> HIDE DEF expected
<1>3. \A row \in inserts : row \in Session /\ Ordered(row) /\ row.group = g
  BY <1>2, NewSessionTyped DEF SessionStatuses
<1>4. \A a, b \in inserts : a # b => ~Overlap(a, b)
  <2> SUFFICES ASSUME NEW v \in expected, NEW u \in expected,
                      NewSession(g, v, "SCHEDULED") # NewSession(g, u, "SCHEDULED")
               PROVE  ~Overlap(NewSession(g, v, "SCHEDULED"), NewSession(g, u, "SCHEDULED"))
    OBVIOUS
  <2>1. ~Overlap(v, u)
    BY <1>1 DEF NoOverlapsWithinGeneration, expected
  <2> QED
    BY <2>1 DEF Overlap, NewSession
<1>5. \A row \in inserts, s \in DOMAIN sessions :
        sessions[s].status # "CANCELLED" /\ row.group = sessions[s].group
          => ~Overlap(row, sessions[s])
  <2> SUFFICES ASSUME NEW window \in expected, NEW s \in DOMAIN sessions,
                      sessions[s].status # "CANCELLED",
                      NewSession(g, window, "SCHEDULED").group = sessions[s].group
               PROVE  ~Overlap(NewSession(g, window, "SCHEDULED"), sessions[s])
    OBVIOUS
  <2>1. sessions[s].group = g
    BY DEF NewSession
  <2>2. ~Overlap(sessions[s], window)
    BY <1>1, <2>1 DEF NoBatchSessionOverlap, expected
  <2> QED
    BY <1>2, <2>2, OverlapOfNewSession DEF IInv, TypeOK
<1>6. Nothing \in UNION {[gs -> BOOLEAN] : gs \in SUBSET GroupIds}
  BY DEF Nothing
<1>7. Begin(w, "GENERATE", inserts, {}, Nothing)
  BY <1>1 DEF expected
<1> HIDE DEF inserts
<1> QED
  BY <1>3, <1>4, <1>5, <1>6, <1>7, BeginKeeps

(* The request of a voiding or a reactivation is well typed, and asks for no class. *)
LEMMA SwitchTyped ==
  ASSUME NEW g \in GroupIds, NEW active \in BOOLEAN
  PROVE  [x \in {g} |-> active] \in UNION {[gs -> BOOLEAN] : gs \in SUBSET GroupIds}
<1>1. {g} \in SUBSET GroupIds
  OBVIOUS
<1>2. [x \in {g} |-> active] \in [{g} -> BOOLEAN]
  OBVIOUS
<1> QED
  BY <1>1, <1>2

(* Voiding and reactivating add no class. *)
LEMMA SwitchKeeps ==
  ASSUME IInv, NEW w \in Workers, VoidBatchGroup(w) \/ ReactivateBatchGroup(w)
  PROVE  IInv'
<1>1. ASSUME NEW kind, NEW closed \in SUBSET DOMAIN sessions,
             NEW switched \in UNION {[gs -> BOOLEAN] : gs \in SUBSET GroupIds},
             Begin(w, kind, {}, closed, switched)
      PROVE  IInv'
  BY <1>1, BeginKeeps
<1>2. CASE VoidBatchGroup(w)
  <2>1. PICK g \in GroupIds :
          Begin(w, "VOID", {}, FutureSessionsOfGroup(g), [x \in {g} |-> FALSE])
    BY <1>2 DEF VoidBatchGroup
  <2>2. FutureSessionsOfGroup(g) \in SUBSET DOMAIN sessions
    BY DEF FutureSessionsOfGroup
  <2> DEFINE switched == [x \in {g} |-> FALSE]
  <2>3. switched \in UNION {[gs -> BOOLEAN] : gs \in SUBSET GroupIds}
    BY SwitchTyped
  <2>4. Begin(w, "VOID", {}, FutureSessionsOfGroup(g), switched)
    BY <2>1
  <2> HIDE DEF switched
  <2> QED
    BY <1>1, <2>2, <2>3, <2>4
<1>3. CASE ReactivateBatchGroup(w)
  <2>1. PICK g \in GroupIds : Begin(w, "REACTIVATE", {}, {}, [x \in {g} |-> TRUE])
    BY <1>3 DEF ReactivateBatchGroup
  <2> DEFINE switched == [x \in {g} |-> TRUE]
  <2>2. switched \in UNION {[gs -> BOOLEAN] : gs \in SUBSET GroupIds}
    BY SwitchTyped
  <2>3. Begin(w, "REACTIVATE", {}, {}, switched)
    BY <2>1
  <2> HIDE DEF switched
  <2> QED
    BY <1>1, <2>2, <2>3
<1> QED
  BY <1>2, <1>3

-----------------------------------------------------------------------------
(* The end of a request, and what else happens to classes. *)

(* A step after which the classes there were keep everything but a status, and a
   cancelled class stays cancelled. *)
Continues(rows, new) ==
  /\ DOMAIN rows \subseteq DOMAIN new
  /\ \A s \in DOMAIN rows :
       /\ new[s].group = rows[s].group
       /\ new[s].startsAt = rows[s].startsAt
       /\ new[s].endsAt = rows[s].endsAt
       /\ rows[s].status = "CANCELLED" => new[s].status = "CANCELLED"

(* What a request has seen to be free stays free of the classes it has seen. *)
LEMMA ContinuesKeepsRequests ==
  ASSUME IInv, Continues(sessions, sessions'),
         DOMAIN requests' = Workers,
         \A w \in Workers : requests'[w] \in {requests[w], Idle}
  PROVE  RequestsTyped' /\ RefusedOnlyWhenOvertaken'
<1>1. ASSUME NEW w \in Workers
      PROVE  /\ requests'[w] \in [busy: BOOLEAN, inserts: SUBSET Session,
                                  closed: SUBSET DOMAIN sessions',
                                  switched: UNION {[gs -> BOOLEAN] : gs \in SUBSET GroupIds},
                                  seen: SUBSET DOMAIN sessions']
             /\ \A row \in requests'[w].inserts : Ordered(row)
  <2>1. CASE requests'[w] = Idle
    BY <2>1 DEF Idle, Nothing
  <2>2. CASE requests'[w] = requests[w]
    BY <2>2 DEF IInv, RequestsTyped, RequestTyped, Continues
  <2> QED
    BY <2>1, <2>2
<1>2. RequestsTyped'
  BY <1>1 DEF RequestsTyped, RequestTyped
<1>3. RefusedOnlyWhenOvertaken'
  <2> SUFFICES ASSUME NEW w \in Workers,
                      requests'[w] = requests[w]
               PROVE  /\ \A a, b \in requests[w].inserts :
                           a # b /\ a.status # "CANCELLED" /\ b.status # "CANCELLED"
                             => ~Overlap(a, b)
                      /\ \A a \in requests[w].inserts, s \in requests[w].seen :
                           a.status # "CANCELLED" /\ sessions'[s].status # "CANCELLED"
                             /\ a.group = sessions'[s].group => ~Overlap(a, sessions'[s])
    BY DEF RefusedOnlyWhenOvertaken, Idle
  <2>1. \A s \in requests[w].seen : s \in DOMAIN sessions
    BY DEF IInv, RequestsTyped, RequestTyped
  <2>2. \A s \in DOMAIN sessions, a \in requests[w].inserts :
          Overlap(a, sessions'[s]) <=> Overlap(a, sessions[s])
    BY DEF Overlap, Continues
  <2> QED
    BY <2>1, <2>2 DEF IInv, RefusedOnlyWhenOvertaken, Continues
<1> QED
  BY <1>2, <1>3

(* What a commit writes: the classes there were, some of them cancelled, and the
   new ones under keys of their own. *)
LEMMA WrittenRows ==
  ASSUME IInv, NEW w \in Workers,
         NEW keyOf \in Injection(requests[w].inserts, SessionIds \ DOMAIN sessions),
         NEW new, new = Written(requests[w], keyOf)
  PROVE  /\ DOMAIN new \subseteq SessionIds
         /\ new \in [DOMAIN new -> Session]
         /\ \A s \in DOMAIN new : Ordered(new[s])
         /\ Continues(sessions, new)
<1> DEFINE inserts == requests[w].inserts
           closed == requests[w].closed
<1>1. keyOf \in [inserts -> SessionIds \ DOMAIN sessions]
  BY DEF Injection
<1>2. /\ inserts \subseteq Session /\ closed \subseteq DOMAIN sessions
      /\ \A row \in inserts : Ordered(row)
  BY DEF IInv, RequestsTyped, RequestTyped
<1> HIDE DEF inserts, closed
<1>3. new = [s \in DOMAIN sessions \cup {keyOf[row] : row \in inserts} |->
               IF s \in closed THEN [sessions[s] EXCEPT !.status = "CANCELLED"]
               ELSE IF s \in DOMAIN sessions THEN sessions[s]
               ELSE CHOOSE row \in inserts : keyOf[row] = s]
  BY DEF Written, inserts, closed
<1>4. DOMAIN new = DOMAIN sessions \cup {keyOf[row] : row \in inserts}
  BY <1>3
<1>5. ASSUME NEW s \in DOMAIN sessions
      PROVE  /\ new[s] \in Session /\ Ordered(new[s])
             /\ new[s].group = sessions[s].group
             /\ new[s].startsAt = sessions[s].startsAt
             /\ new[s].endsAt = sessions[s].endsAt
             /\ new[s].status \in {sessions[s].status, "CANCELLED"}
  <2>1. sessions[s] \in Session /\ Ordered(sessions[s])
    BY DEF IInv, TypeOK, Ordered
  <2>2. new[s] = IF s \in closed THEN [sessions[s] EXCEPT !.status = "CANCELLED"] ELSE sessions[s]
    BY <1>3
  <2> QED
    BY <2>1, <2>2 DEF Session, SessionStatuses, Ordered
<1>6. ASSUME NEW s \in DOMAIN new, s \notin DOMAIN sessions
      PROVE  new[s] \in Session /\ Ordered(new[s])
  <2>1. \E row \in inserts : keyOf[row] = s
    BY <1>4, <1>6
  <2>2. new[s] = CHOOSE row \in inserts : keyOf[row] = s
    BY <1>2, <1>3, <1>4, <1>6
  <2>3. new[s] \in inserts
    BY <2>1, <2>2
  <2> QED
    BY <1>2, <2>3
<1>7. DOMAIN sessions \subseteq SessionIds
  BY DEF IInv, TypeOK
<1>8. Continues(sessions, new)
  BY <1>4, <1>5 DEF Continues
<1>9. DOMAIN new \subseteq SessionIds
  BY <1>1, <1>4, <1>7
<1>10. new \in [DOMAIN new -> Session]
  BY <1>3, <1>4, <1>5, <1>6
<1> QED
  BY <1>5, <1>6, <1>8, <1>9, <1>10

(* A commit that the exclusion constraint lets through keeps the invariant. *)
LEMMA CommitKeeps ==
  ASSUME IInv, NEW w \in Workers, Commit(w)
  PROVE  IInv'
<1>1. PICK keyOf \in Injection(requests[w].inserts, SessionIds \ DOMAIN sessions) :
        /\ sessions' = Written(requests[w], keyOf)
        /\ ExclusionConstraint(sessions')
  BY DEF Commit
<1>2. /\ groups' = [g \in GroupIds |-> IF g \in DOMAIN requests[w].switched
                                      THEN requests[w].switched[g] ELSE groups[g]]
      /\ requests' = [requests EXCEPT ![w] = Idle]
      /\ now' = now
  BY DEF Commit
<1>3. /\ DOMAIN sessions' \subseteq SessionIds
      /\ sessions' \in [DOMAIN sessions' -> Session]
      /\ \A s \in DOMAIN sessions' : Ordered(sessions'[s])
      /\ Continues(sessions, sessions')
  BY <1>1, WrittenRows
<1>4. groups' \in [GroupIds -> BOOLEAN]
  <2>1. PICK gs \in SUBSET GroupIds : requests[w].switched \in [gs -> BOOLEAN]
    BY DEF IInv, RequestsTyped, RequestTyped
  <2> QED
    BY <1>2, <2>1 DEF IInv, TypeOK
<1>5. TypeOK'
  BY <1>2, <1>3, <1>4 DEF IInv, TypeOK, Ordered
<1>6. DOMAIN requests' = Workers /\ \A x \in Workers : requests'[x] \in {requests[x], Idle}
  BY <1>2 DEF IInv, RequestsTyped
<1> QED
  BY <1>3, <1>5, <1>6, ContinuesKeepsRequests DEF IInv

(* A request that ends without a commit leaves the classes alone. *)
LEMMA RollbackKeeps ==
  ASSUME IInv, NEW w \in Workers, Rollback(w)
  PROVE  IInv'
<1>1. /\ requests' = [requests EXCEPT ![w] = Idle]
      /\ UNCHANGED <<now, groups, sessions>>
  BY DEF Rollback
<1>2. DOMAIN requests' = Workers /\ \A x \in Workers : requests'[x] \in {requests[x], Idle}
  BY <1>1 DEF IInv, RequestsTyped
<1>3. Continues(sessions, sessions')
  BY <1>1 DEF Continues
<1>4. TypeOK'
  BY <1>1 DEF IInv, TypeOK
<1> QED
  BY <1>2, <1>3, <1>4, ContinuesKeepsRequests DEF IInv

(* Closing a class changes nothing but its status. *)
LEMMA CloseClassKeeps ==
  ASSUME IInv, NEW s \in DOMAIN sessions, CloseClass(s)
  PROVE  IInv'
<1>1. PICK status \in {"CANCELLED", "COMPLETED"} :
        sessions' = [sessions EXCEPT ![s].status = status]
  BY DEF CloseClass
<1>2. sessions[s].status = "SCHEDULED" /\ UNCHANGED <<now, groups, requests>>
  BY DEF CloseClass
<1>3. /\ DOMAIN sessions' = DOMAIN sessions
      /\ \A t \in DOMAIN sessions :
           sessions'[t] = IF t = s THEN [sessions[t] EXCEPT !.status = status] ELSE sessions[t]
  BY <1>1
<1>4. \A t \in DOMAIN sessions :
        /\ sessions'[t] \in Session
        /\ sessions'[t].group = sessions[t].group
        /\ sessions'[t].startsAt = sessions[t].startsAt
        /\ sessions'[t].endsAt = sessions[t].endsAt
        /\ sessions[t].status = "CANCELLED" <=> sessions'[t].status = "CANCELLED" /\ t # s
  BY <1>2, <1>3 DEF IInv, TypeOK, Session, SessionStatuses
<1>5. sessions' \in [DOMAIN sessions' -> Session]
  BY <1>1, <1>3, <1>4
<1>6. TypeOK'
  BY <1>2, <1>3, <1>4, <1>5 DEF IInv, TypeOK
<1>7. Continues(sessions, sessions')
  BY <1>3, <1>4 DEF Continues
<1>8. DOMAIN requests' = Workers /\ \A x \in Workers : requests'[x] \in {requests[x], Idle}
  BY <1>2 DEF IInv, RequestsTyped
<1> QED
  BY <1>6, <1>7, <1>8, ContinuesKeepsRequests DEF IInv

-----------------------------------------------------------------------------
(* The invariant is inductive. *)

(* The invariant holds at the start. *)
LEMMA InitHolds == Init => IInv
<1> SUFFICES ASSUME Init
             PROVE  IInv
  OBVIOUS
<1>1. TypeOK
  BY DEF Init, TypeOK
<1>2. RequestsTyped
  <2>1. RequestTyped(Idle)
    BY DEF RequestTyped, Idle, Nothing
  <2> QED
    BY <2>1 DEF Init, RequestsTyped
<1>3. RefusedOnlyWhenOvertaken
  BY DEF Init, RefusedOnlyWhenOvertaken, Idle
<1> QED
  BY <1>1, <1>2, <1>3 DEF IInv

(* Every step keeps it. *)
LEMMA NextKeeps == IInv /\ [Next]_vars => IInv'
<1> SUFFICES ASSUME IInv, [Next]_vars
             PROVE  IInv'
  OBVIOUS
<1>1. ASSUME NEW w \in Workers, CreateBatchClassSession(w)
      PROVE  IInv'
  BY <1>1, CreateKeeps
<1>2. ASSUME NEW w \in Workers, GenerateBatchSessions(w)
      PROVE  IInv'
  BY <1>2, GenerateKeeps
<1>3. ASSUME NEW w \in Workers, VoidBatchGroup(w) \/ ReactivateBatchGroup(w)
      PROVE  IInv'
  BY <1>3, SwitchKeeps
<1>4. ASSUME NEW w \in Workers, Commit(w)
      PROVE  IInv'
  BY <1>4, CommitKeeps
<1>5. ASSUME NEW w \in Workers, Rollback(w)
      PROVE  IInv'
  BY <1>5, RollbackKeeps
<1>6. ASSUME NEW s \in DOMAIN sessions, CloseClass(s)
      PROVE  IInv'
  BY <1>6, CloseClassKeeps
<1>7. CASE Tick
  BY <1>7 DEF Tick, IInv, TypeOK, RequestsTyped, RequestTyped,
              RefusedOnlyWhenOvertaken
<1>8. CASE UNCHANGED vars
  BY <1>8 DEF vars, IInv, TypeOK, RequestsTyped, RequestTyped,
              RefusedOnlyWhenOvertaken
<1> QED
  BY <1>1, <1>2, <1>3, <1>4, <1>5, <1>6, <1>7, <1>8 DEF Next

(* It holds in every reachable state. *)
LEMMA Invariance == Spec => []IInv
<1> QED
  BY InitHolds, NextKeeps, PTL DEF Spec

(* Every class that create, generate and void leave behind is a row of the
   table's types, ending after it begins. *)
THEOREM TypesCorrect == Spec => []TypeOK
<1>1. IInv => TypeOK
  BY DEF IInv
<1> QED
  BY <1>1, Invariance, PTL

(* The checks before a create and a generation leave the exclusion constraint
   nothing to refuse but what another request has committed since. *)
THEOREM ChecksCoverTheConstraint == Spec => []RefusedOnlyWhenOvertaken
<1>1. IInv => RefusedOnlyWhenOvertaken
  BY DEF IInv
<1> QED
  BY <1>1, Invariance, PTL

=============================================================================
