------------------------ MODULE AccessWindowsSafety ------------------------
(***************************************************************************)
(* The safety theorems about AccessWindows: what holds of any series of       *)
(* grants, updates and edits of packages, and what holds when the requests    *)
(* are served one at a time.                                                 *)
(***************************************************************************)
EXTENDS AccessWindows, FiniteSetTheorems, TLAPS

-----------------------------------------------------------------------------
(* The inductive invariant of any number of requests. *)

(* The whole days of a grant are those from the midnight on which its first
   counted day starts. *)
Whole(grant) ==
  \E first \in Nat :
    /\ grant.startsAt <= DAY * first
    /\ DAY * first < grant.startsAt + DAY
    /\ grant.endsAt = DAY * (first + grant.days)

GrantRequest == [kind: {"GRANT"}, extend: BOOLEAN, grant: Grant, read: Row, row: Row]
PatchRequest == [kind: {"PATCH"}, read: Row, row: Row]

WellTyped ==
  /\ now \in Instants
  /\ student \in Row
  /\ packages \in [PackageIds -> [days: Durations, active: BOOLEAN]]
  /\ grants \in Seq(Grant)
  /\ requests \in [Workers -> {Idle} \cup GrantRequest \cup PatchRequest]

GrantsWhole ==
  /\ \A i \in DOMAIN grants : Whole(grants[i])
  /\ \A w \in Workers : requests[w].kind = "GRANT" => Whole(requests[w].grant)

-----------------------------------------------------------------------------
(* The window of a grant. *)

(* The first counted day starts at a midnight less than a day after the access. *)
LEMMA FirstCountedDayStartIsNext ==
  ASSUME NEW startsAt \in Nat
  PROVE  \E first \in Nat :
           /\ FirstCountedDayStart(startsAt) = DAY * first
           /\ startsAt <= DAY * first
           /\ DAY * first < startsAt + DAY
<1> DEFINE day == startsAt \div DAY
<1>1. day \in Nat /\ DAY * day <= startsAt /\ startsAt < DAY * day + DAY
  BY DEF DAY
<1>2. FirstCountedDayStart(startsAt) = IF startsAt = DAY * day THEN DAY * day ELSE DAY * day + DAY
  BY DEF FirstCountedDayStart
<1> HIDE DEF day
<1>3. CASE startsAt = DAY * day
  BY <1>1, <1>2, <1>3 DEF DAY
<1>4. CASE startsAt # DAY * day
  <2>1. day + 1 \in Nat /\ DAY * (day + 1) = DAY * day + DAY
    BY <1>1 DEF DAY
  <2> QED
    BY <1>1, <1>2, <1>4, <2>1 DEF DAY
<1> QED
  BY <1>3, <1>4

(* calculate_access_window: a grant of whole days, from the end of the current
   access when there is access to extend. *)
LEMMA CalculateAccessWindowWhole ==
  ASSUME NEW days \in Nat \ {0}, NEW requestedStartsAt \in Datetime,
         NEW currentEndsAt \in Datetime, NEW extend \in BOOLEAN, NEW t \in Nat
  PROVE  LET grant == CalculateAccessWindow(days, requestedStartsAt, currentEndsAt, extend, t)
         IN  /\ grant \in Grant
             /\ Whole(grant)
             /\ grant.startsAt < grant.endsAt
             /\ grant.startsAt + DAY * days <= grant.endsAt
             /\ grant.days = days
             /\ extend /\ currentEndsAt # None /\ currentEndsAt > t
                  => grant.startsAt = currentEndsAt
<1> DEFINE startsAt == AccessStartsAt(requestedStartsAt, currentEndsAt, extend, t)
           grant == CalculateAccessWindow(days, requestedStartsAt, currentEndsAt, extend, t)
<1>1. startsAt \in Nat
  BY DEF AccessStartsAt, Datetime
<1>2. extend /\ currentEndsAt # None /\ currentEndsAt > t => startsAt = currentEndsAt
  BY DEF AccessStartsAt
<1>3. grant = [days |-> days, startsAt |-> startsAt,
               endsAt |-> FirstCountedDayStart(startsAt) + DAY * days]
  BY DEF CalculateAccessWindow
<1> HIDE DEF startsAt, grant
<1>4. PICK first \in Nat : /\ FirstCountedDayStart(startsAt) = DAY * first
                           /\ startsAt <= DAY * first
                           /\ DAY * first < startsAt + DAY
  BY <1>1, FirstCountedDayStartIsNext
<1>5. grant.endsAt = DAY * (first + days)
  BY <1>3, <1>4 DEF DAY
<1>6. Whole(grant)
  BY <1>3, <1>4, <1>5 DEF Whole
<1>7. grant \in Grant /\ startsAt < grant.endsAt /\ startsAt + DAY * days <= grant.endsAt
  BY <1>1, <1>3, <1>4, <1>5 DEF Grant, DAY
<1> QED
  BY <1>2, <1>3, <1>6, <1>7 DEF grant

(* The days of a grant of whole days are the days it is for. *)
LEMMA WholeCounts ==
  ASSUME NEW grant \in Grant, Whole(grant)
  PROVE  LET whole == {d \in 0 .. grant.endsAt \div DAY :
                         grant.startsAt <= DAY * d /\ DAY * (d + 1) <= grant.endsAt}
         IN Cardinality(whole) = grant.days /\ DAY * (grant.endsAt \div DAY) = grant.endsAt
<1> DEFINE whole == {d \in 0 .. grant.endsAt \div DAY :
                       grant.startsAt <= DAY * d /\ DAY * (d + 1) <= grant.endsAt}
<1>1. PICK first \in Nat : /\ grant.startsAt <= DAY * first
                           /\ DAY * first < grant.startsAt + DAY
                           /\ grant.endsAt = DAY * (first + grant.days)
  BY DEF Whole
<1>2. grant.days \in Nat \ {0} /\ grant.startsAt \in Nat /\ grant.endsAt \in Nat
  BY DEF Grant
<1>3. grant.endsAt \div DAY = first + grant.days
  BY <1>1, <1>2 DEF DAY
<1>4. whole = first .. first + grant.days - 1
  BY <1>1, <1>2, <1>3 DEF DAY
<1>5. Cardinality(first .. first + grant.days - 1) = grant.days
  <2> DEFINE last == first + grant.days - 1
  <2>1. first \in Int /\ last \in Int /\ ~(first > last) /\ last - first + 1 = grant.days
    BY <1>2
  <2> HIDE DEF last
  <2>2. Cardinality(first .. last) = grant.days
    BY <2>1, FS_Interval
  <2> QED
    BY <2>2 DEF last
<1> QED
  BY <1>1, <1>2, <1>3, <1>4, <1>5

-----------------------------------------------------------------------------
(* The steps. *)

LEMMA WrittenTyped ==
  ASSUME WellTyped, NEW request, request.row \in Row, request.read \in Row
  PROVE  Written(request) \in Row
<1>1. /\ student = [column \in Columns |-> student[column]]
      /\ request.row = [column \in Columns |-> request.row[column]]
  BY DEF WellTyped, Row, Columns
<1>2. \A column \in Columns :
        Written(request)[column] = IF request.row[column] # request.read[column]
                                   THEN request.row[column] ELSE student[column]
  BY DEF Written
<1>3. Written(request) = [active |-> Written(request)["active"],
                         startsAt |-> Written(request)["startsAt"],
                         endsAt |-> Written(request)["endsAt"]]
  BY DEF Written, Columns
<1> QED
  BY <1>1, <1>2, <1>3 DEF WellTyped, Row, Columns

(* Only a commit writes the student, or records a grant. *)
LEMMA BeginGrantReads ==
  ASSUME WellTyped, NEW w \in Workers, BeginGrant(w)
  PROVE  \E request \in GrantRequest :
           /\ requests' = [requests EXCEPT ![w] = request]
           /\ UNCHANGED <<now, student, packages, grants>>
           /\ request.read = student
           /\ Whole(request.grant)
           /\ request.grant.startsAt < request.grant.endsAt
           /\ request.row = [student EXCEPT !.startsAt = request.grant.startsAt,
                                            !.endsAt = request.grant.endsAt]
           /\ request.extend /\ student.endsAt # None /\ student.endsAt > now
                => request.grant.startsAt = student.endsAt
<1>1. PICK type \in {"PACKAGE", "ADDON_DAYS"}, package \in PackageIds \cup {None},
           requestedDays \in Durations \cup {None},
           requestedStartsAt \in Times \cup {None}, extend \in BOOLEAN :
        LET days == ResolveDurationDays(requestedDays, package)
            grant == CalculateAccessWindow(days, requestedStartsAt, student.endsAt, extend, now)
        IN /\ days # None
           /\ requests' = [requests EXCEPT ![w] =
                [kind |-> "GRANT", extend |-> extend, grant |-> grant, read |-> student,
                 row |-> [student EXCEPT !.startsAt = grant.startsAt,
                                         !.endsAt = grant.endsAt]]]
           /\ UNCHANGED <<now, student, packages, grants>>
  BY DEF BeginGrant
<1> DEFINE days == ResolveDurationDays(requestedDays, package)
           grant == CalculateAccessWindow(days, requestedStartsAt, student.endsAt, extend, now)
           row == [student EXCEPT !.startsAt = grant.startsAt, !.endsAt = grant.endsAt]
           request == [kind |-> "GRANT", extend |-> extend, grant |-> grant,
                       read |-> student, row |-> row]
<1>2. days \in Nat \ {0}
  <2>1. package # None => packages[package].days \in Durations
    BY DEF WellTyped
  <2> QED
    BY <1>1, <2>1, WindowsAssumption DEF ResolveDurationDays
<1>3. requestedStartsAt \in Datetime /\ student.endsAt \in Datetime /\ now \in Nat
  BY WindowsAssumption DEF WellTyped, Row, Datetime
<1> HIDE DEF days
<1>4. /\ grant \in Grant /\ Whole(grant) /\ grant.startsAt < grant.endsAt
      /\ grant.startsAt + DAY * days <= grant.endsAt /\ grant.days = days
      /\ extend /\ student.endsAt # None /\ student.endsAt > now
           => grant.startsAt = student.endsAt
  BY <1>2, <1>3, CalculateAccessWindowWhole
<1>5. requests' = [requests EXCEPT ![w] = request] /\ UNCHANGED <<now, student, packages, grants>>
  BY <1>1 DEF days
<1> HIDE DEF grant
<1>6. row \in Row
  BY <1>4 DEF WellTyped, Row, Grant, Datetime
<1>7. request \in GrantRequest
  BY <1>4, <1>6 DEF GrantRequest, WellTyped
<1>8. request.extend /\ student.endsAt # None /\ student.endsAt > now
        => request.grant.startsAt = student.endsAt
  BY <1>4
<1> QED
  BY <1>4, <1>5, <1>7, <1>8

LEMMA BeginPatchReads ==
  ASSUME WellTyped, NEW w \in Workers, BeginPatch(w)
  PROVE  \E request \in PatchRequest :
           /\ requests' = [requests EXCEPT ![w] = request]
           /\ UNCHANGED <<now, student, packages, grants>>
           /\ request.read = student
           /\ Valid(request.row)
<1>1. PICK row \in Patches :
        /\ row.active # None
        /\ Valid(row)
        /\ requests' = [requests EXCEPT ![w] = [kind |-> "PATCH", read |-> student, row |-> row]]
        /\ UNCHANGED <<now, student, packages, grants>>
  BY DEF BeginPatch
<1>2. row \in Row
  <2>1. Times \subseteq Datetime /\ None \in Datetime
    BY WindowsAssumption DEF Datetime
  <2>2. student.startsAt \in Datetime /\ student.endsAt \in Datetime
    BY DEF WellTyped, Row
  <2> QED
    BY <1>1, <2>1, <2>2 DEF Patches, Row
<1> DEFINE request == [kind |-> "PATCH", read |-> student, row |-> row]
<1>3. request \in PatchRequest
  BY <1>2 DEF PatchRequest, WellTyped
<1> QED
  BY <1>1, <1>3

LEMMA InitTyped == Init => WellTyped /\ GrantsWhole
<1> SUFFICES ASSUME Init
             PROVE  WellTyped /\ GrantsWhole
  OBVIOUS
<1>1. student \in Row
  BY DEF Init, Row, Datetime
<1>2. \A w \in Workers : requests[w].kind = "IDLE"
  BY DEF Init, Idle
<1>3. GrantsWhole
  BY <1>2 DEF Init, GrantsWhole
<1>4. packages \in [PackageIds -> [days: Durations, active: BOOLEAN]]
  <2>1. [days: Durations, active: {TRUE}] \subseteq [days: Durations, active: BOOLEAN]
    OBVIOUS
  <2> QED
    BY <2>1 DEF Init
<1>5. grants \in Seq(Grant)
  BY DEF Init
<1>6. WellTyped
  BY <1>1, <1>4, <1>5 DEF Init, WellTyped
<1> QED
  BY <1>3, <1>6

(* A request begins, or ends without a commit. *)
LEMMA RequestChanged ==
  ASSUME WellTyped, GrantsWhole, NEW w \in Workers,
         NEW request \in {Idle} \cup GrantRequest \cup PatchRequest,
         request.kind = "GRANT" => Whole(request.grant),
         requests' = [requests EXCEPT ![w] = request],
         UNCHANGED <<now, student, packages, grants>>
  PROVE  WellTyped' /\ GrantsWhole'
<1>1. requests' \in [Workers -> {Idle} \cup GrantRequest \cup PatchRequest]
  BY DEF WellTyped
<1>2. \A x \in Workers : requests'[x] = IF x = w THEN request ELSE requests[x]
  BY DEF WellTyped
<1>3. GrantsWhole'
  BY <1>2 DEF GrantsWhole
<1> QED
  BY <1>1, <1>3 DEF WellTyped

LEMMA CommitGrantKeeps ==
  ASSUME WellTyped, GrantsWhole, NEW w \in Workers, CommitGrant(w)
  PROVE  WellTyped' /\ GrantsWhole'
<1> DEFINE grant == requests[w].grant
<1>1. requests[w] \in GrantRequest
  BY DEF CommitGrant, WellTyped, Idle, PatchRequest
<1>2. /\ grants' = Append(grants, grant)
      /\ student' = Written(requests[w])
      /\ requests' = [requests EXCEPT ![w] = Idle]
      /\ UNCHANGED <<now, packages>>
  BY DEF CommitGrant
<1>3. grant \in Grant /\ Whole(grant)
  BY <1>1 DEF GrantRequest, GrantsWhole
<1> HIDE DEF grant
<1>4. student' \in Row
  BY <1>1, <1>2, WrittenTyped DEF GrantRequest
<1>5. grants' \in Seq(Grant) /\ \A i \in DOMAIN grants' : Whole(grants'[i])
  <2>1. grants \in Seq(Grant) /\ \A i \in DOMAIN grants : Whole(grants[i])
    BY DEF WellTyped, GrantsWhole
  <2>2. /\ grants' \in Seq(Grant)
        /\ DOMAIN grants' = 1 .. Len(grants) + 1
        /\ DOMAIN grants = 1 .. Len(grants)
        /\ \A i \in 1 .. Len(grants) + 1 :
             grants'[i] = IF i = Len(grants) + 1 THEN grant ELSE grants[i]
    BY <1>2, <1>3, <2>1
  <2>3. ASSUME NEW i \in DOMAIN grants'
        PROVE  Whole(grants'[i])
    <3>1. CASE i = Len(grants) + 1
      BY <1>3, <2>2, <3>1
    <3>2. CASE i # Len(grants) + 1
      <4>1. i \in DOMAIN grants
        BY <2>1, <2>2, <3>2
      <4> QED
        BY <2>1, <2>2, <3>2, <4>1
    <3> QED
      BY <3>1, <3>2
  <2> QED
    BY <2>2, <2>3
<1>6. requests' \in [Workers -> {Idle} \cup GrantRequest \cup PatchRequest]
  BY <1>2 DEF WellTyped
<1>7. \A x \in Workers : requests'[x].kind = "GRANT" => Whole(requests'[x].grant)
  BY <1>2 DEF WellTyped, GrantsWhole, Idle
<1> QED
  BY <1>2, <1>4, <1>5, <1>6, <1>7 DEF WellTyped, GrantsWhole

LEMMA CommitPatchKeeps ==
  ASSUME WellTyped, GrantsWhole, NEW w \in Workers, CommitPatch(w)
  PROVE  WellTyped' /\ GrantsWhole'
<1>1. requests[w] \in PatchRequest
  BY DEF CommitPatch, WellTyped, Idle, GrantRequest
<1>2. /\ student' = Written(requests[w])
      /\ requests' = [requests EXCEPT ![w] = Idle]
      /\ UNCHANGED <<now, packages, grants>>
  BY DEF CommitPatch
<1>3. student' \in Row
  BY <1>1, <1>2, WrittenTyped DEF PatchRequest
<1>4. requests' \in [Workers -> {Idle} \cup GrantRequest \cup PatchRequest]
  BY <1>2 DEF WellTyped
<1>5. \A x \in Workers : requests'[x].kind = "GRANT" => Whole(requests'[x].grant)
  BY <1>2 DEF WellTyped, GrantsWhole, Idle
<1> QED
  BY <1>2, <1>3, <1>4, <1>5 DEF WellTyped, GrantsWhole

LEMMA NextTyped == WellTyped /\ GrantsWhole /\ [Next]_vars => WellTyped' /\ GrantsWhole'
<1> SUFFICES ASSUME WellTyped, GrantsWhole, [Next]_vars
             PROVE  WellTyped' /\ GrantsWhole'
  OBVIOUS
<1>1. ASSUME NEW w \in Workers, BeginGrant(w)
      PROVE  WellTyped' /\ GrantsWhole'
  BY <1>1, BeginGrantReads, RequestChanged
<1>2. ASSUME NEW w \in Workers, BeginPatch(w)
      PROVE  WellTyped' /\ GrantsWhole'
  <2>1. \A request \in PatchRequest : request.kind # "GRANT"
    BY DEF PatchRequest
  <2> QED
    BY <1>2, <2>1, BeginPatchReads, RequestChanged
<1>3. ASSUME NEW w \in Workers, CommitGrant(w)
      PROVE  WellTyped' /\ GrantsWhole'
  BY <1>3, CommitGrantKeeps
<1>4. ASSUME NEW w \in Workers, CommitPatch(w)
      PROVE  WellTyped' /\ GrantsWhole'
  BY <1>4, CommitPatchKeeps
<1>5. ASSUME NEW w \in Workers, LoseConnection(w)
      PROVE  WellTyped' /\ GrantsWhole'
  <2>1. Idle.kind # "GRANT"
    BY DEF Idle
  <2> QED
    BY <1>5, <2>1, RequestChanged DEF LoseConnection
<1>6. ASSUME NEW p \in PackageIds, UpdatePackage(p)
      PROVE  WellTyped' /\ GrantsWhole'
  <2>1. packages' \in [PackageIds -> [days: Durations, active: BOOLEAN]]
    BY <1>6 DEF UpdatePackage, WellTyped
  <2> QED
    BY <1>6, <2>1 DEF UpdatePackage, WellTyped, GrantsWhole
<1>7. CASE Tick
  BY <1>7 DEF Tick, WellTyped, GrantsWhole
<1>8. CASE UNCHANGED vars
  BY <1>8 DEF vars, WellTyped, GrantsWhole
<1> QED
  BY <1>1, <1>2, <1>3, <1>4, <1>5, <1>6, <1>7, <1>8 DEF Next

(* Whatever grants, updates and edits of packages overlap, the student, the
   packages and every grant keep their types. *)
THEOREM TypesCorrect == Spec => []TypeOK
<1>1. WellTyped => TypeOK
  BY DEF WellTyped, TypeOK, GrantRequest, PatchRequest, Idle
<1> QED
  BY <1>1, InitTyped, NextTyped, PTL DEF Spec

(* Whatever overlaps, every grant that is recorded is of whole UTC days, as many
   as it is for. *)
THEOREM GrantsAreWholeDays == Spec => []GrantsCountWholeDays
<1>1. WellTyped /\ GrantsWhole => GrantsCountWholeDays
  <2> SUFFICES ASSUME WellTyped, GrantsWhole, NEW i \in DOMAIN grants
               PROVE  LET grant == grants[i]
                          whole == {d \in 0 .. grant.endsAt \div DAY :
                                      grant.startsAt <= DAY * d /\ DAY * (d + 1) <= grant.endsAt}
                      IN /\ Cardinality(whole) = grant.days
                         /\ DAY * (grant.endsAt \div DAY) = grant.endsAt
    BY DEF GrantsCountWholeDays
  <2>1. grants[i] \in Grant /\ Whole(grants[i])
    BY DEF WellTyped, GrantsWhole
  <2> QED
    BY <2>1, WholeCounts
<1> QED
  BY <1>1, InitTyped, NextTyped, PTL DEF Spec

-----------------------------------------------------------------------------
(* Requests served one at a time. *)

(* What a lone request has decided, it has decided on the row there is. *)
UpToDate(request) ==
  /\ request.read = student
  /\ Valid(request.row)
  /\ request.kind = "GRANT" =>
       /\ request.row.startsAt = request.grant.startsAt
       /\ request.row.endsAt = request.grant.endsAt
       /\ request.extend /\ student.endsAt # None /\ student.endsAt > now
            => request.grant.startsAt = student.endsAt

Serial ==
  /\ Valid(student)
  /\ \A w \in Workers : requests[w] # Idle => UpToDate(requests[w])

LEMMA UpToDateWritten ==
  ASSUME WellTyped, NEW request, request.row \in Row, request.read = student
  PROVE  Written(request) = request.row
<1>1. request.row = [column \in Columns |-> request.row[column]]
  BY DEF Row, Columns
<1> QED
  BY <1>1 DEF Written

LEMMA SerialKept ==
  ASSUME \A v, w \in Workers : v = w,
         WellTyped, GrantsWhole, Serial, [Next]_vars
  PROVE  Serial'
<1>1. ASSUME NEW w \in Workers, BeginGrant(w)
      PROVE  Serial'
  <2>1. PICK request \in GrantRequest :
          /\ requests' = [requests EXCEPT ![w] = request]
          /\ UNCHANGED <<now, student, packages, grants>>
          /\ request.read = student
          /\ request.grant.startsAt < request.grant.endsAt
          /\ request.row = [student EXCEPT !.startsAt = request.grant.startsAt,
                                           !.endsAt = request.grant.endsAt]
          /\ request.extend /\ student.endsAt # None /\ student.endsAt > now
               => request.grant.startsAt = student.endsAt
    BY <1>1, BeginGrantReads
  <2>2. /\ request.row.startsAt = request.grant.startsAt
        /\ request.row.endsAt = request.grant.endsAt
        /\ request.grant.startsAt \in Nat /\ request.grant.endsAt \in Nat
    BY <2>1 DEF WellTyped, Row, GrantRequest, Grant
  <2>3. Valid(request.row)
    BY <2>1, <2>2, WindowsAssumption DEF Valid
  <2>4. requests'[w] = request
    BY <2>1 DEF WellTyped
  <2> QED
    BY <1>1, <2>1, <2>2, <2>3, <2>4 DEF Serial, UpToDate, Valid
<1>2. ASSUME NEW w \in Workers, BeginPatch(w)
      PROVE  Serial'
  <2>1. PICK request \in PatchRequest :
          /\ requests' = [requests EXCEPT ![w] = request]
          /\ UNCHANGED <<now, student, packages, grants>>
          /\ request.read = student
          /\ Valid(request.row)
    BY <1>2, BeginPatchReads
  <2>2. requests'[w] = request /\ request.kind # "GRANT"
    BY <2>1 DEF WellTyped, PatchRequest
  <2> QED
    BY <2>1, <2>2 DEF Serial, UpToDate, Valid
<1>3. ASSUME NEW w \in Workers, CommitGrant(w) \/ CommitPatch(w)
      PROVE  Serial'
  <2>1. student' = Written(requests[w]) /\ requests' = [requests EXCEPT ![w] = Idle]
    BY <1>3 DEF CommitGrant, CommitPatch
  <2>2. requests[w] \in GrantRequest \cup PatchRequest
    BY <1>3 DEF CommitGrant, CommitPatch, WellTyped, Idle
  <2>3. requests[w] # Idle /\ requests[w].row \in Row
    BY <2>2 DEF GrantRequest, PatchRequest, Idle
  <2>4. student' = requests[w].row /\ Valid(requests[w].row)
    BY <2>1, <2>3, UpToDateWritten DEF Serial, UpToDate
  <2>5. \A x \in Workers : requests'[x] = Idle
    BY <2>1 DEF WellTyped
  <2> QED
    BY <2>4, <2>5 DEF Serial, Valid
<1>4. ASSUME NEW w \in Workers, LoseConnection(w)
      PROVE  Serial'
  <2>1. \A x \in Workers : requests'[x] = Idle
    BY <1>4 DEF LoseConnection, WellTyped
  <2> QED
    BY <1>4, <2>1 DEF LoseConnection, Serial, Valid
<1>5. ASSUME NEW p \in PackageIds, UpdatePackage(p)
      PROVE  Serial'
  BY <1>5 DEF UpdatePackage, Serial, UpToDate, Valid
<1>6. CASE Tick
  <2>1. now \in Nat /\ now' \in Nat /\ now' > now /\ student.endsAt \in Datetime
    BY <1>6, WindowsAssumption DEF Tick, WellTyped, Row
  <2>2. student.endsAt # None /\ student.endsAt > now' => student.endsAt > now
    BY <2>1 DEF Datetime
  <2> QED
    BY <1>6, <2>2 DEF Tick, Serial, UpToDate, Valid
<1>7. CASE UNCHANGED vars
  BY <1>7 DEF vars, Serial, UpToDate, Valid
<1> QED
  BY <1>1, <1>2, <1>3, <1>4, <1>5, <1>6, <1>7 DEF Next

LEMMA SerialInvariance ==
  ASSUME \A v, w \in Workers : v = w
  PROVE  Spec => [](WellTyped /\ GrantsWhole /\ Serial)
<1>1. Init => WellTyped /\ GrantsWhole /\ Serial
  <2> SUFFICES ASSUME Init
               PROVE  Serial
    BY InitTyped
  <2>1. Valid(student)
    BY DEF Init, Valid
  <2>2. \A w \in Workers : requests[w] = Idle
    BY DEF Init
  <2> QED
    BY <2>1, <2>2 DEF Serial
<1>2. WellTyped /\ GrantsWhole /\ Serial /\ [Next]_vars
        => (WellTyped /\ GrantsWhole /\ Serial)'
  BY NextTyped, SerialKept
<1> QED
  BY <1>1, <1>2, PTL DEF Spec

(* Served one at a time, no series of grants and updates leaves a window that
   ends before it starts, or an active student without one. *)
THEOREM WindowStaysValid ==
  ASSUME \A v, w \in Workers : v = w
  PROVE  Spec => []WindowValid
<1>1. WellTyped /\ Serial => WindowValid
  BY DEF WellTyped, Row, Serial, Valid, WindowValid
<1> QED
  BY <1>1, SerialInvariance, PTL

(* Served one at a time, an extension takes up where the access there is when it is
   committed ends, and gives its days after that. *)
THEOREM ExtensionsFollow ==
  ASSUME \A v, w \in Workers : v = w
  PROVE  Spec => ExtensionFollowsAccess
<1> DEFINE Follows(w) ==
      CommitsExtension(w) /\ student.endsAt # None /\ student.endsAt > now =>
        LET days == DAY * requests[w].grant.days IN
          /\ student'.startsAt = student.endsAt
          /\ student.endsAt + days <= student'.endsAt
          /\ student'.endsAt < student.endsAt + days + DAY
<1>1. WellTyped /\ GrantsWhole /\ Serial /\ [Next]_vars => [\A w \in Workers : Follows(w)]_vars
  <2> SUFFICES ASSUME WellTyped, GrantsWhole, Serial, Next, NEW w \in Workers, CommitsExtension(w),
                      student.endsAt # None, student.endsAt > now
               PROVE  LET days == DAY * requests[w].grant.days IN
                        /\ student'.startsAt = student.endsAt
                        /\ student.endsAt + days <= student'.endsAt
                        /\ student'.endsAt < student.endsAt + days + DAY
    OBVIOUS
  <2> DEFINE grant == requests[w].grant
  <2>1. CommitGrant(w)
    BY DEF Next, CommitsExtension, BeginGrant, BeginPatch, CommitPatch, LoseConnection,
           UpdatePackage, Tick
  <2>2. requests[w] \in GrantRequest
    BY <2>1 DEF CommitGrant, WellTyped, Idle, PatchRequest
  <2>3. requests[w] # Idle /\ requests[w].row \in Row /\ requests[w].kind = "GRANT"
    BY <2>2 DEF GrantRequest, Idle
  <2>4. UpToDate(requests[w]) /\ Whole(grant) /\ grant \in Grant
    BY <2>2, <2>3 DEF Serial, GrantsWhole, GrantRequest
  <2>5. student' = requests[w].row
    BY <2>1, <2>3, <2>4, UpToDateWritten DEF CommitGrant, UpToDate
  <2>6. /\ student'.startsAt = grant.startsAt /\ student'.endsAt = grant.endsAt
        /\ grant.startsAt = student.endsAt
    BY <2>3, <2>4, <2>5 DEF UpToDate, CommitsExtension
  <2> HIDE DEF grant
  <2>7. PICK first \in Nat : /\ grant.startsAt <= DAY * first
                             /\ DAY * first < grant.startsAt + DAY
                             /\ grant.endsAt = DAY * (first + grant.days)
    BY <2>4 DEF Whole
  <2>8. /\ grant.startsAt + DAY * grant.days <= grant.endsAt
        /\ grant.endsAt < grant.startsAt + DAY * grant.days + DAY
    BY <2>4, <2>7 DEF Grant, DAY
  <2> QED
    BY <2>6, <2>8 DEF grant
<1> QED
  BY <1>1, SerialInvariance, PTL DEF Spec, ExtensionFollowsAccess

=============================================================================
