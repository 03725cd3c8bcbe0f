----------------------------- MODULE Migrations -----------------------------
(***************************************************************************)
(* The revisions under alembic/versions and the runs of `alembic upgrade` and  *)
(* `alembic downgrade`, statement by statement.  A run is one transaction,     *)
(* PostgreSQL's DDL is transactional, and a statement that fails or a lost      *)
(* connection rolls the whole run back.                                       *)
(*                                                                         *)
(* A schema is what the revisions name: enum types with their values, tables    *)
(* with the types and tables they refer to, and the parts of a table that come  *)
(* and go or that the code relies on (indexes, a column, constraints).  Columns *)
(* that stay with their table are part of it.  Of the rows only a batch class   *)
(* is kept, as the one kind of row that a revision can refuse.                  *)
(***************************************************************************)
EXTENDS SequencesExt

VARIABLES
  db,   \* the committed version, schema and batch class
  run   \* the run in progress: the statements left, and the database as it sees it

vars == <<db, run>>

None == "none"

-----------------------------------------------------------------------------
(* Statements. *)

CreateType(name, values) == [op |-> "CREATE_TYPE", name |-> name, on |-> values]
DropType(name) == [op |-> "DROP_TYPE", name |-> name, on |-> {}]
AddValue(name, value) == [op |-> "ADD_VALUE", name |-> name, on |-> {value}]
CreateExtension(name) == [op |-> "CREATE_EXTENSION", name |-> name, on |-> {}]
CreateTable(name, refersTo) == [op |-> "CREATE_TABLE", name |-> name, on |-> refersTo]
DropTable(name) == [op |-> "DROP_TABLE", name |-> name, on |-> {}]
Add(table, parts) == [op |-> "ADD", name |-> table, on |-> parts]
Drop(table, parts) == [op |-> "DROP", name |-> table, on |-> parts]
Refer(table, refersTo) == [op |-> "REFER", name |-> table, on |-> refersTo]
Unrefer(table, refersTo) == [op |-> "UNREFER", name |-> table, on |-> refersTo]
SetVersion(v) == [op |-> "SET_VERSION", name |-> v, on |-> {}]

(* Two checks of one name. *)
OLD_CLASS_SESSION_SHAPE_CHECK == "ck_class_sessions_program_shape (old)"
NEW_CLASS_SESSION_SHAPE_CHECK == "ck_class_sessions_program_shape (new)"
NO_OVERLAP == "ex_class_sessions_batch_group_time_overlap"

-----------------------------------------------------------------------------
(* The revisions: upgrade() and downgrade() of each, the plain indexes of a
   table named by their columns. *)

CreateUsers ==
  <<CreateType("user_role", {"admin", "student", "teacher", "lead_manager"}),
    CreateTable("users", {"user_role"}), Add("users", {"uq_email"})>>
DropUsers == <<Drop("users", {"uq_email"}), DropTable("users"), DropType("user_role")>>

CreateTeachers == <<CreateTable("teachers", {"users"}), Add("teachers", {"uq_user_id"})>>
DropTeachers == <<Drop("teachers", {"uq_user_id"}), DropTable("teachers")>>

Rules == "teacher_availability_rules"
Slots == "teacher_availability_slots"
CreateAvailability ==
  <<CreateType("day_of_week", {"monday", "tuesday", "wednesday", "thursday", "friday",
                               "saturday", "sunday"}),
    CreateType("availability_slot_source", {"rule", "manual"}),
    CreateType("availability_slot_status", {"available", "booked", "cancelled", "blocked"}),
    CreateTable(Rules, {"teachers", "day_of_week"}), Add(Rules, {"teacher_id"}),
    CreateTable(Slots, {Rules, "teachers", "availability_slot_source", "availability_slot_status"}),
    Add(Slots, {"rule_id", "teacher_id"})>>
(* Mutant: one of the three types is forgotten. *)
DropAvailabilityButAType ==
  <<Drop(Slots, {"teacher_id", "rule_id"}), DropTable(Slots),
    Drop(Rules, {"teacher_id"}), DropTable(Rules),
    DropType("availability_slot_status"), DropType("day_of_week")>>
DropAvailability ==
  <<Drop(Slots, {"teacher_id", "rule_id"}), DropTable(Slots),
    Drop(Rules, {"teacher_id"}), DropTable(Rules),
    DropType("availability_slot_status"), DropType("availability_slot_source"),
    DropType("day_of_week")>>

AddActiveSlotIndex == <<Add(Slots, {"uq_active_slot_time"})>>
DropActiveSlotIndex == <<Drop(Slots, {"uq_active_slot_time"})>>

CreateStudents ==
  <<CreateType("student_program_type", {"one_on_one", "batch"}),
    CreateType("student_status", {"enrolled", "active", "paused", "completed", "cancelled"}),
    CreateTable("students", {"users", "student_program_type", "student_status"}),
    Add("students", {"uq_user_id"})>>
DropStudents ==
  <<Drop("students", {"uq_user_id"}), DropTable("students"),
    DropType("student_status"), DropType("student_program_type")>>

CreatePackages == <<CreateTable("packages", {})>>
DropPackages == <<DropTable("packages")>>

PaymentIndexes == {"student_id", "package_id", "created_by_user_id"}
CreatePayments ==
  <<CreateType("payment_method", {"upi", "cash", "bank_transfer", "other"}),
    CreateTable("student_payments", {"users", "packages", "students", "payment_method"}),
    Add("student_payments", PaymentIndexes)>>
DropPayments ==
  <<Drop("student_payments", PaymentIndexes), DropTable("student_payments"),
    DropType("payment_method")>>

GrantIndexes == {"student_id", "package_id", "created_by_user_id"}
CreateGrants ==
  <<CreateType("student_access_grant_type", {"package", "addon_days", "manual_adjustment"}),
    CreateTable("student_access_grants",
      {"users", "packages", "students", "student_access_grant_type"}),
    Add("student_access_grants", GrantIndexes)>>
DropGrants ==
  <<Drop("student_access_grants", GrantIndexes), DropTable("student_access_grants"),
    DropType("student_access_grant_type")>>

Changes == "student_program_changes"
CreateProgramChanges ==
  <<CreateTable(Changes, {"users", "students", "student_program_type"}),
    Add(Changes, {"changed_by_user_id", "student_id"})>>
DropProgramChanges ==
  <<Drop(Changes, {"student_id", "changed_by_user_id"}), DropTable(Changes)>>

ClassIndexes ==
  {"program_type", "starts_at", "teacher_availability_slot_id", "teacher_id", "uq_live_slot"}
BookingIndexes == {"class_session_id", "student_id", "uq_active_seat"}
CreateClassesAndBookings ==
  <<CreateType("batch_slot", {"morning", "noon", "afternoon"}),
    CreateType("class_session_status", {"scheduled", "completed", "cancelled"}),
    CreateType("booking_status", {"booked", "cancelled", "attended", "missed"}),
    CreateTable("class_sessions", {"teachers", Slots, "student_program_type", "batch_slot",
                                   "class_session_status"}),
    Add("class_sessions", {OLD_CLASS_SESSION_SHAPE_CHECK}), Add("class_sessions", ClassIndexes),
    CreateTable("bookings", {"class_sessions", "students", "booking_status"}),
    Add("bookings", BookingIndexes)>>
DropClassesAndBookings ==
  <<Drop("bookings", BookingIndexes), DropTable("bookings"),
    Drop("class_sessions", ClassIndexes), DropTable("class_sessions"),
    DropType("booking_status"), DropType("class_session_status"), DropType("batch_slot")>>

Memberships == "student_batch_memberships"
MembershipIndexes ==
  {"assigned_by_user_id", "batch_group_id", "student_id", "uq_active_membership"}
CreateBatchGroups ==
  <<CreateExtension("btree_gist"),
    CreateTable("batch_groups", {}), Add("batch_groups", {"uq_active_name"}),
    CreateTable(Memberships, {"users", "batch_groups", "students"}),
    Add(Memberships, MembershipIndexes),
    Add("class_sessions", {"batch_group_id"}), Refer("class_sessions", {"batch_groups"}),
    Add("class_sessions", {"ix_batch_group_id"}),
    Drop("class_sessions", {OLD_CLASS_SESSION_SHAPE_CHECK}),
    Add("class_sessions", {NEW_CLASS_SESSION_SHAPE_CHECK}),
    Add("class_sessions", {NO_OVERLAP})>>
DropBatchGroups ==
  <<Drop("class_sessions", {NO_OVERLAP}),
    Drop("class_sessions", {NEW_CLASS_SESSION_SHAPE_CHECK}),
    Add("class_sessions", {OLD_CLASS_SESSION_SHAPE_CHECK}),
    Drop("class_sessions", {"ix_batch_group_id"}),
    Unrefer("class_sessions", {"batch_groups"}), Drop("class_sessions", {"batch_group_id"}),
    Drop(Memberships, MembershipIndexes), DropTable(Memberships),
    Drop("batch_groups", {"uq_active_name"}), DropTable("batch_groups")>>

EventIndexes == {"actor_user_id", "booking_id", "event_type"}
CreateBookingEvents ==
  <<CreateType("booking_event_type",
      {"booked", "cancelled_by_student", "cancelled_by_admin", "rescheduled_from",
       "rescheduled_to", "class_cancelled_empty"}),
    CreateTable("booking_events", {"users", "bookings", "booking_event_type"}),
    Add("booking_events", EventIndexes)>>
DropBookingEvents ==
  <<Drop("booking_events", EventIndexes), DropTable("booking_events"),
    DropType("booking_event_type")>>

AddAttendanceMarked == <<AddValue("booking_event_type", "attendance_marked")>>

(* Mutant: the value is not the one the code writes. *)
AddManualAdd == <<AddValue("booking_event_type", "manual_add")>>
AddManuallyAddedByAdmin == <<AddValue("booking_event_type", "manually_added_by_admin")>>

Revisions ==
  <<[up |-> CreateUsers, down |-> DropUsers],
    [up |-> CreateTeachers, down |-> DropTeachers],
    [up |-> CreateAvailability, down |-> DropAvailability],
    [up |-> AddActiveSlotIndex, down |-> DropActiveSlotIndex],
    [up |-> CreateStudents, down |-> DropStudents],
    [up |-> CreatePackages, down |-> DropPackages],
    [up |-> CreatePayments, down |-> DropPayments],
    [up |-> CreateGrants, down |-> DropGrants],
    [up |-> CreateProgramChanges, down |-> DropProgramChanges],
    [up |-> CreateClassesAndBookings, down |-> DropClassesAndBookings],
    [up |-> CreateBatchGroups, down |-> DropBatchGroups],
    [up |-> CreateBookingEvents, down |-> DropBookingEvents],
    [up |-> AddAttendanceMarked, down |-> << >>],
    [up |-> AddManuallyAddedByAdmin, down |-> << >>]>>

HeadRevision == Len(Revisions)

-----------------------------------------------------------------------------
(* What PostgreSQL makes of a statement; d is the database as the run sees it. *)

Empty == [version |-> 0, types |-> << >>, tables |-> << >>, parts |-> {},
          extensions |-> {}, batchClass |-> None]

Without(f, k) == [x \in DOMAIN f \ {k} |-> f[x]]
PartsOf(d, table) == {part \in d.parts : part[1] = table}

(* Mutant: ADD VALUE without IF NOT EXISTS. *)
MayAddValueOnce(d, type, values) == type \in DOMAIN d.types /\ d.types[type] \cap values = {}

MayAddValue(d, type, values) == type \in DOMAIN d.types

Succeeds(d, stmt) ==
  LET n == stmt.name
      table == n \in DOMAIN d.tables
      parts == {n} \X stmt.on
  IN CASE stmt.op \in {"CREATE_TYPE", "CREATE_EXTENSION", "SET_VERSION"} -> TRUE
       [] stmt.op = "DROP_TYPE" -> \A t \in DOMAIN d.tables : n \notin d.tables[t]
       [] stmt.op = "ADD_VALUE" -> MayAddValue(d, n, stmt.on)
       [] stmt.op = "CREATE_TABLE" ->
            ~table /\ stmt.on \subseteq DOMAIN d.types \cup DOMAIN d.tables
       [] stmt.op = "DROP_TABLE" -> table /\ \A t \in DOMAIN d.tables : n \notin d.tables[t]
       [] stmt.op = "ADD" ->
            /\ table /\ d.parts \cap parts = {}
            /\ NEW_CLASS_SESSION_SHAPE_CHECK \in stmt.on => d.batchClass # "ungrouped"
            /\ NO_OVERLAP \in stmt.on => "btree_gist" \in d.extensions
       [] stmt.op = "DROP" -> parts \subseteq d.parts
       [] stmt.op = "REFER" -> table /\ stmt.on \subseteq DOMAIN d.tables
       [] stmt.op = "UNREFER" -> table /\ stmt.on \subseteq d.tables[n]

Effect(d, stmt) ==
  LET n == stmt.name
      parts == {n} \X stmt.on
  IN CASE stmt.op = "CREATE_TYPE" -> [d EXCEPT !.types = @ @@ (n :> stmt.on)]
       [] stmt.op = "DROP_TYPE" -> [d EXCEPT !.types = Without(@, n)]
       [] stmt.op = "ADD_VALUE" -> [d EXCEPT !.types[n] = @ \cup stmt.on]
       [] stmt.op = "CREATE_EXTENSION" -> [d EXCEPT !.extensions = @ \cup {n}]
       [] stmt.op = "CREATE_TABLE" -> [d EXCEPT !.tables = @ @@ (n :> stmt.on)]
       [] stmt.op = "DROP_TABLE" ->
            [d EXCEPT !.tables = Without(@, n), !.parts = @ \ PartsOf(d, n),
                      !.batchClass = IF n = "class_sessions" THEN None ELSE @]
       [] stmt.op = "ADD" -> [d EXCEPT !.parts = @ \cup parts]
       [] stmt.op = "DROP" ->
            [d EXCEPT !.parts = @ \ parts,
                      !.batchClass = IF "batch_group_id" \in stmt.on /\ n = "class_sessions" /\ @ # None
                                     THEN "ungrouped" ELSE @]
       [] stmt.op = "REFER" -> [d EXCEPT !.tables[n] = @ \cup stmt.on]
       [] stmt.op = "UNREFER" -> [d EXCEPT !.tables[n] = @ \ stmt.on]
       [] stmt.op = "SET_VERSION" -> [d EXCEPT !.version = n]

-----------------------------------------------------------------------------
(* Runs. *)

UpTo(from, to) ==
  FlattenSeq([i \in 1 .. to - from |-> Append(Revisions[from + i].up, SetVersion(from + i))])

DownTo(from, to) ==
  FlattenSeq([i \in 1 .. from - to |->
                Append(Revisions[from + 1 - i].down, SetVersion(from - i))])

NoRun == [busy |-> FALSE, todo |-> << >>, db |-> Empty]
Running(todo, d) == [busy |-> TRUE, todo |-> todo, db |-> d]

Upgrade ==
  /\ ~run.busy
  /\ \E to \in db.version + 1 .. HeadRevision : run' = Running(UpTo(db.version, to), db)
  /\ UNCHANGED db

Downgrade ==
  /\ ~run.busy
  /\ \E to \in 0 .. db.version - 1 : run' = Running(DownTo(db.version, to), db)
  /\ UNCHANGED db

ExecuteStatement ==
  /\ run.busy /\ run.todo # << >>
  /\ Succeeds(run.db, Head(run.todo))
  /\ run' = Running(Tail(run.todo), Effect(run.db, Head(run.todo)))
  /\ UNCHANGED db

Commit ==
  /\ run.busy /\ run.todo = << >>
  /\ db' = run.db
  /\ run' = NoRun

(* A statement fails, or the connection is lost. *)
Rollback ==
  /\ run.busy
  /\ run' = NoRun
  /\ UNCHANGED db

(* The application, which needs the head revision, creates a batch class. *)
CreateBatchClass ==
  /\ ~run.busy /\ db.version = HeadRevision
  /\ db' = [db EXCEPT !.batchClass = IF @ = None THEN "grouped" ELSE @]
  /\ UNCHANGED run

Init == db = Empty /\ run = NoRun

Next == Upgrade \/ Downgrade \/ ExecuteStatement \/ Commit \/ Rollback \/ CreateBatchClass

Spec == Init /\ [][Next]_vars

-----------------------------------------------------------------------------
(* Properties. *)

(* What a downgrade leaves behind on purpose. *)
Shape(d) ==
  [types |-> [t \in DOMAIN d.types |->
                d.types[t] \ {"attendance_marked", "manually_added_by_admin"}],
   tables |-> d.tables, parts |-> d.parts]

Built[v \in 0 .. HeadRevision] ==
  IF v = 0 THEN Empty ELSE FoldLeft(Effect, Built[v - 1], Revisions[v].up)

(* alembic_version tells the schema: whatever upgrades and downgrades have been
   run, and broken off, the schema is the one its version has when it is built
   from nothing. *)
SchemaFollowsVersion == Shape(db) = Shape(Built[db.version])

(* A run that goes back and forth between any two revisions never fails half-way,
   but for one case: batch classes that have lost their group to a downgrade past
   20260721_0011 do not satisfy the check that the upgrade puts back. *)
RunsFailOnUngroupedClassesOnly ==
  run.busy /\ run.todo # << >> /\ ~Succeeds(run.db, Head(run.todo))
    => /\ Head(run.todo).on = {NEW_CLASS_SESSION_SHAPE_CHECK}
       /\ db.batchClass = "ungrouped" /\ db.version = 10

(* What the mapped classes and the enums of app/ ask for (LeadStatus has no table). *)
EnumsOfTheCode ==
  [booking_event_type |->
     {"booked", "cancelled_by_student", "cancelled_by_admin", "rescheduled_from",
      "rescheduled_to", "class_cancelled_empty", "attendance_marked",
      "manually_added_by_admin"},
   booking_status |-> {"booked", "cancelled", "attended", "missed"},
   class_session_status |-> {"scheduled", "completed", "cancelled"},
   batch_slot |-> {"morning", "noon", "afternoon"},
   day_of_week |->
     {"monday", "tuesday", "wednesday", "thursday", "friday", "saturday", "sunday"},
   availability_slot_source |-> {"rule", "manual"},
   availability_slot_status |-> {"available", "booked", "cancelled", "blocked"},
   student_program_type |-> {"one_on_one", "batch"},
   student_status |-> {"enrolled", "active", "paused", "completed", "cancelled"},
   student_access_grant_type |-> {"package", "addon_days", "manual_adjustment"},
   payment_method |-> {"upi", "cash", "bank_transfer", "other"},
   user_role |-> {"admin", "student", "teacher", "lead_manager"}]

(* The indexes and constraints the services leave a race to. *)
GuardsOfTheCode ==
  {<<"users", "uq_email">>, <<"students", "uq_user_id">>, <<"teachers", "uq_user_id">>,
   <<Slots, "uq_active_slot_time">>, <<"class_sessions", "uq_live_slot">>,
   <<"bookings", "uq_active_seat">>, <<Memberships, "uq_active_membership">>,
   <<"batch_groups", "uq_active_name">>, <<"class_sessions", NO_OVERLAP>>,
   <<"class_sessions", NEW_CLASS_SESSION_SHAPE_CHECK>>}

(* At the head revision, reached along any road, the database stores every value
   the code writes and has every guard that it relies on. *)
HeadServesTheCode ==
  db.version = HeadRevision =>
    /\ \A enum \in DOMAIN EnumsOfTheCode :
         enum \in DOMAIN db.types /\ EnumsOfTheCode[enum] \subseteq db.types[enum]
    /\ GuardsOfTheCode \subseteq db.parts

=============================================================================
