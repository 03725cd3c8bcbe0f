---------------------------- MODULE AccessWindows ----------------------------
(***************************************************************************)
(* The access window of a student: StudentAccessGrantService, which moves    *)
(* it with every grant, and the PATCH of StudentService, which sets it.      *)
(* Both read the student's row without a lock, decide, and write the         *)
(* columns they have changed when they commit; requests overlap in between.   *)
(* PackageService edits and voids the packages that grants take their days      *)
(* from, between any two steps of a grant.                                    *)
(*                                                                         *)
(* Students do not share anything here, so there is one.  Time is counted   *)
(* in hours.                                                               *)
(***************************************************************************)
EXTENDS Integers, FiniteSets, Sequences

CONSTANTS
  Workers,       \* the requests being served
  Instants,      \* the clock's values
  Times,         \* the datetimes requests name
  Durations,     \* the days granted
  PackageIds,
  Kinds,         \* the kinds of request made
  MaxGrants,     \* bound: grants recorded
  None           \* SQL null

ASSUME WindowsAssumption ==
  /\ Instants \subseteq Nat /\ Times \subseteq Nat
  /\ Durations \subseteq Nat \ {0}
  /\ None \notin Nat

VARIABLES
  now,       \* utc_now()
  student,   \* the committed columns
  packages,  \* days and is_active of each package
  grants,    \* the access grants, in the order they were committed
  requests   \* the request of each worker

vars == <<now, student, packages, grants, requests>>

DAY == 24
Columns == {"active", "startsAt", "endsAt"}
Datetime == Nat \cup {None}
Row == [active: BOOLEAN, startsAt: Datetime, endsAt: Datetime]
Grant == [days: Nat \ {0}, startsAt: Nat, endsAt: Nat]
Idle == [kind |-> "IDLE"]

-----------------------------------------------------------------------------
(* The window of a grant. *)

(* Mutant: the day on which the access starts is counted. *)
FirstCountedDayStartToday(startsAt) == DAY * (startsAt \div DAY)

(* The first midnight not before startsAt. *)
FirstCountedDayStart(startsAt) ==
  LET startMidnight == DAY * (startsAt \div DAY) IN
    IF startsAt = startMidnight THEN startMidnight ELSE startMidnight + DAY

(* Mutant: what is left of the current access is forgotten. *)
AccessStartsAtOnce(requestedStartsAt, currentEndsAt, extend, t) ==
  IF requestedStartsAt # None THEN requestedStartsAt ELSE t

AccessStartsAt(requestedStartsAt, currentEndsAt, extend, t) ==
  IF extend /\ currentEndsAt # None /\ currentEndsAt > t THEN currentEndsAt
  ELSE IF requestedStartsAt # None THEN requestedStartsAt
  ELSE t

(* calculate_access_window: the grant that a request for days leads to. *)
CalculateAccessWindow(days, requestedStartsAt, currentEndsAt, extend, t) ==
  LET startsAt == AccessStartsAt(requestedStartsAt, currentEndsAt, extend, t) IN
    [days |-> days, startsAt |-> startsAt,
     endsAt |-> FirstCountedDayStart(startsAt) + DAY * days]

-----------------------------------------------------------------------------
(* Requests. *)

(* A package grant is made from an active package, an add-on or an adjustment
   from any or from none; the request's days come before the package's. *)
MayGrantFrom(type, package) ==
  IF package = None THEN type # "PACKAGE"
  ELSE type = "PACKAGE" => packages[package].active

ResolveDurationDays(requestedDays, package) ==
  IF requestedDays # None THEN requestedDays
  ELSE IF package # None THEN packages[package].days
  ELSE None

(* The student is read, the window decided; read is the row as it was then. *)
BeginGrant(w) ==
  /\ requests[w] = Idle
  /\ "GRANT" \in Kinds
  /\ \E type \in {"PACKAGE", "ADDON_DAYS"}, package \in PackageIds \cup {None},
        requestedDays \in Durations \cup {None},
        requestedStartsAt \in Times \cup {None}, extend \in BOOLEAN :
       LET days == ResolveDurationDays(requestedDays, package)
           grant == CalculateAccessWindow(
                      days, requestedStartsAt, student.endsAt, extend, now)
       IN /\ MayGrantFrom(type, package)
          /\ days # None
          /\ requests' = [requests EXCEPT ![w] =
               [kind |-> "GRANT", extend |-> extend, grant |-> grant, read |-> student,
                row |-> [student EXCEPT !.startsAt = grant.startsAt,
                                        !.endsAt = grant.endsAt]]]
  /\ UNCHANGED <<now, student, packages, grants>>

(* Mutant: the order of the dates is not checked. *)
ValidIfActive(row) == row.active = TRUE => row.startsAt # None /\ row.endsAt # None

Valid(row) ==
  /\ row.active = TRUE => row.startsAt # None /\ row.endsAt # None
  /\ row.startsAt # None /\ row.endsAt # None => row.startsAt < row.endsAt

(* The row after the update: a column named, or the one that was read. *)
Patches ==
  [active: BOOLEAN \cup {None},
   startsAt: Times \cup {None, student.startsAt},
   endsAt: Times \cup {None, student.endsAt}]

(* PATCH: the columns not named keep the value that was read. *)
BeginPatch(w) ==
  /\ requests[w] = Idle
  /\ "PATCH" \in Kinds
  /\ \E row \in Patches :
       /\ row.active # None
       /\ Valid(row)
       /\ requests' = [requests EXCEPT ![w] = [kind |-> "PATCH", read |-> student, row |-> row]]
  /\ UNCHANGED <<now, student, packages, grants>>

(* The UPDATE sets the columns whose value is not the one that was read. *)
Written(request) ==
  [column \in Columns |->
     IF request.row[column] # request.read[column]
     THEN request.row[column] ELSE student[column]]

CommitGrant(w) ==
  /\ requests[w].kind = "GRANT"
  /\ Len(grants) < MaxGrants
  /\ grants' = Append(grants, requests[w].grant)
  /\ student' = Written(requests[w])
  /\ requests' = [requests EXCEPT ![w] = Idle]
  /\ UNCHANGED <<now, packages>>

CommitPatch(w) ==
  /\ requests[w].kind = "PATCH"
  /\ student' = Written(requests[w])
  /\ requests' = [requests EXCEPT ![w] = Idle]
  /\ UNCHANGED <<now, packages, grants>>

(* The connection is lost before the commit. *)
LoseConnection(w) ==
  /\ requests[w] # Idle
  /\ requests' = [requests EXCEPT ![w] = Idle]
  /\ UNCHANGED <<now, student, packages, grants>>

(* update_package, and void_package. *)
UpdatePackage(p) ==
  /\ \E days \in Durations, active \in BOOLEAN :
       packages' = [packages EXCEPT ![p] = [days |-> days, active |-> active]]
  /\ UNCHANGED <<now, student, grants, requests>>

Tick ==
  /\ now' \in {t \in Instants : t > now}
  /\ UNCHANGED <<student, packages, grants, requests>>

-----------------------------------------------------------------------------

Init ==
  /\ now \in Instants
  /\ student = [active |-> FALSE, startsAt |-> None, endsAt |-> None]
  /\ packages \in [PackageIds -> [days: Durations, active: {TRUE}]]
  /\ grants = << >>
  /\ requests = [w \in Workers |-> Idle]

Next ==
  \/ \E w \in Workers :
       BeginGrant(w) \/ BeginPatch(w) \/ CommitGrant(w) \/ CommitPatch(w) \/ LoseConnection(w)
  \/ \E p \in PackageIds : UpdatePackage(p)
  \/ Tick

Spec == Init /\ [][Next]_vars

-----------------------------------------------------------------------------
(* Properties. *)

TypeOK ==
  /\ now \in Instants
  /\ student \in Row
  /\ packages \in [PackageIds -> [days: Durations, active: BOOLEAN]]
  /\ grants \in Seq(Grant)
  /\ \A w \in Workers :
       requests[w] # Idle =>
         /\ requests[w].row \in Row /\ requests[w].read \in Row
         /\ requests[w].kind = "GRANT" => requests[w].grant \in Grant

(* A grant gives exactly the UTC days it is for, whole, whatever hour it starts
   at: "counts tomorrow as day one", and a start at midnight counts its own day. *)
GrantsCountWholeDays ==
  \A i \in DOMAIN grants :
    LET grant == grants[i]
        whole == {d \in 0 .. grant.endsAt \div DAY :
                    grant.startsAt <= DAY * d /\ DAY * (d + 1) <= grant.endsAt}
    IN Cardinality(whole) = grant.days /\ DAY * (grant.endsAt \div DAY) = grant.endsAt

(* No grant and no update, nor any series of them, leaves a window that ends
   before it starts, or an active student without one. *)
WindowValid ==
  /\ student.active => student.startsAt # None /\ student.endsAt # None
  /\ student.startsAt # None /\ student.endsAt # None => student.startsAt < student.endsAt

(* The extension that worker w commits in this step. *)
CommitsExtension(w) ==
  /\ requests[w].kind = "GRANT"
  /\ requests[w].extend
  /\ requests'[w] = Idle
  /\ grants' # grants

(* Extending current access takes up where it ends: the days granted are whole
   days after those the student has when the extension takes effect, none of them
   granted before and none between left out.  The window that is kept is the new
   one alone, so what is left of the old one cannot be used from then on. *)
ExtensionFollowsAccess ==
  [][\A w \in Workers :
       CommitsExtension(w) /\ student.endsAt # None /\ student.endsAt > now =>
         LET days == DAY * requests[w].grant.days IN
           /\ student'.startsAt = student.endsAt
           /\ student.endsAt + days <= student'.endsAt
           /\ student'.endsAt < student.endsAt + days + DAY]_vars

=============================================================================
