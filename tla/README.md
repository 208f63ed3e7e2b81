# Eduvia API in TLA+

Eduvia is a multi-tenant school management API: NestJS services over
PostgreSQL (Prisma), Redis (the BullMQ queues), a cache in the memory of the
process (`CacheModule.register` is given no store), an object store and a mail
provider. Every `await` of a Prisma call is a statement of its own (read
committed), a `$transaction` is atomic, and any number of requests and workers
run between two awaits. Almost every operation of the code has the shape *read,
check what was read, write in a later statement by id*; the specifications are
about what survives of the check when other requests run in between, and about
what is left behind when a step of several fails.

## The system

| Part | State | Operations | Hard behaviour | What makes it correct |
|---|---|---|---|---|
| Taking an assessment (`assessment.service.ts`) | attempts (`assessment_submissions`), answers | start, auto-save, hand in | overlapping requests of one student, the closing window, a crash between commit and queue | attempt limit, attempt numbers, frozen answers, everything handed in is queued |
| Grading (`grading.service.ts`, `grading.worker.ts`) | marks, scores, BullMQ jobs | auto-grade, grade by hand | at-least-once delivery, retries, stalls, a teacher at the same time | idempotent grading, marks in range, total = parts, eventually graded |
| Authoring and approval (`assessment.service.ts`, `approval-workflow.service.ts`) | status, questions, approval log | create, edit, publish, approve, reject, release, remove | check and write apart, several approvers, a crash before the notice | nothing published unapproved, the trail agrees with the status |
| Sessions (`auth.service.ts`, `users.service.ts`) | refresh tokens, user status, password | login, refresh, logout, suspend, change password | a refresh that overlaps a revocation | a token is spent once, revocation revokes |
| Academic calendar (`school-setup.service.ts`) | sessions, terms, the current flags | create, set current, delete | clear and insert in two statements, several admins | one current term, at most three terms, never delete the current one |
| Class placement (`school-setup.service.ts`, `users.service.ts`) | classes, capacity, class of a student | create, resize, delete, assign, bulk assign, transfer, remove | count and take a seat in two statements, a service that never asks | no class is overfilled, nobody loses a seat by surprise |
| Curriculum (`school-setup.service.ts`, `users.service.ts`) | class subjects, their teachers, registrations by term, copied id lists | offer, assign teachers, register, delete subjects, classes, terms and people | copies written one after the other from what was read | registrations stay, the copies agree with the rows |
| Timetable (`timetable.service.ts`) | slots, tutorials | create, update, delete | conflict check and insert apart, a slot switched on again | no teacher or class is booked twice |
| School configuration (`school-config.service.ts`, `gpa-calculator.service.ts`) | the row and its cached copy | get, update, grade | a miss that overlaps an update, bands and fractions | the cache shows what is stored, the highest band reached is given |
| Repository (`repository-*.service.ts`) | folders, files, versions, used bytes, share links | make, name and delete folders, upload, version, archive, share, open | counters checked on a read and moved later, a version number read before another addition | the tree is sound, the current version is whole and the newest, quota and limits are overrun by requests in flight at most |
| Users and departments (`users.service.ts`, `school-setup.service.ts`) | identifiers, profiles, wards, departments, heads | create, remove, link wards, appoint a head, move a teacher | one rule kept by two services, next number read from the highest string | heads and profiles agree, wards and guardians agree, the next number is free |
| Notifications | notices | one per decision of the workflow | a death between decision and notice | one notice per decision, where there is somebody to notify |
| Onboarding, result engine, e-mail | their tables stay empty | | | see "What is not modelled" |
| Lectures, upload, payment, tenant, queues, errors, generated client | one row each, or none of their own | | | |

The parts meet at the `assessments` row (staff and students), at the grading
queue (students and workers), at the current term (calendar, timetable,
registrations), at the class of a student (placement, users, curriculum), at the
department of a teacher (users, school setup) and at the configuration
(approval, grading).

## Modules

`Submissions` models the student side of one assessment. `row`, `answers` and
`queue` are the attempts, their answers and the grading jobs; `req[h]` is what
request `h` read and still has to do, one step per await: `StartSubmission` ->
`CountAttempts` -> `CreateAttempt`, `AutoSave` -> `SaveProgress`, `SubmitAnswers`
-> `CheckDeadline` -> `CommitSubmission` -> `QueueAutoGrading`; `Abort` is the
death of a request at an await. `lateWrites` is history: the attempts whose
answers changed after they were handed in. `AttemptLedger` is the abstract
specification: per student a number of attempts that only grows to the limit,
and a set of attempts handed in that only grows; `ImplementsLedger` is the
refinement.

`Grading` extends it with the workers (`run[w]`: the attempt it read, the marks
left to write, the score), the jobs of BullMQ (`holder`, `tries`, `stalls`) and
the teachers (`call[t]`). A lock that expires hands the job to another slot while
the first run may go on; a run that throws leaves the marks it wrote; a finished
job is evicted by later ones.

`Approval` models the staff side: `status`, `questions`, `log` are the columns,
`work[h]` a request between its read and its write. The approval of an exam and
its log entry are one transaction, the notification a later step (`Notify`).
That step returns in silence when the school has no active approver, or the
teacher of the exam has no account (`notifications.service.ts:96`, `:124`,
`:141`); either may be the case at any time, and `unheard` counts these
decisions.

`ExamAccess` composes `Submissions` and `Approval`, which it extends both, over
the shared row: an attempt needs the row at its insert (foreign key), and the row cannot go
while an attempt refers to it.

`Sessions` models the refresh tokens of one account. `session[t]` is the row of
token `t` with the login it descends from; `work[h]` the request: `Login` ->
`Issue`, `Refresh` -> `Rotate` -> `Issue` (or `Purge` of an expired token),
`Suspend` -> `MarkSuspended` -> `Revoke`, and the two password endpoints alike.
`Remove` deletes the account and, by cascade, its tokens.

`Timetable` models the slots of one term: `CreateTimetableSlot` or
`UpdateTimetableSlot` -> `CheckTeacherConflict` -> `CheckClassConflict` ->
`Insert` or `Write`. An update holds the patch it writes and the slot it checks
for. They differ when another request writes in between, and when the patch
brings an empty id (`Blank`), which the DTO admits: conflicts are looked for with
`dto.x ?? slot.x` (`Aimed`), so for a teacher or class of that name, and fields are
written with `dto.x && ...` (`Patched`), so not at all.

`Calendar` models sessions, terms and their flags. A clearing statement
(`Clear`/`Cleared`, `BeginSwitch`/`CommitSwitch`) acts on the rows it saw when
it began, since PostgreSQL re-reads only the rows it waited for. `refs` are the
rows that refer to a term and may refuse its deletion.

`Placement` models classes (`capacity`) and the class of each student (`seat`).
A placement reads the class, counts its students and writes the profiles in
statements of their own; `stale` in a request says that another one took a seat
or changed the capacity since it counted. The users' service writes `class_id`
without asking.

`Curriculum` extends it with the subjects of a class (`offer`), their teachers
(`teaches`), the registrations by term (`registered`) and `ids`, the copies of
these rows in `classes.subject_ids`, `teacher_profiles.assigned_subject_ids` and
`student_profiles.registered_subject_ids`. A request changes rows and then
brings each copy it owes (`Due`) up to date with a read and a write; a death
leaves the rest as they are. Students, teachers (`hired`) and terms come and go
too: the creation of a teacher stores a list from the form and no row, the
deletion of a student or of a term takes registrations along by cascade, and
that of a class the rows of its teachers, neither of which touches a list. Which
term is current belongs to `Calendar`: a request may find any term and any may be
deleted, so that a student's list stands for the term it was last written from,
which `copied` remembers.

`Folders` models the tree of folders: a folder keeps the depth it was created
with, and loses its parent if that is deleted while it comes in. `Repository`
extends it with files, versions, the quota and share links: a file carries the
number of its newest version (`total`) and the id of its current one, an addition
is `AddNewVersion` -> `CheckQuota` -> `InsertVersion` -> `IncrementUsage`. The key of
the object that holds a version comes with the request and nothing makes it
unique; `gone` are the keys whose object was removed from the store, which a
deletion does before the row leaves the table, and `reused` those that a second
version was inserted with. An object that was removed is not uploaded again.

`SchoolConfig` models `getConfig` (cache, row, store) and `updateConfig` (write,
delete the entry), with the validation of weights and grade scale and the grade
that `GpaCalculatorService.applyGradeScale` gives an attempt. `crossed` is
history: the entry was read before the row was last written.

`Departments` models departments, their heads and the department on a teacher's
profile, which two services write after reading each other's table. `People`
extends it with the creation of students, with a number made for them
(`NumberStudent` -> `InsertStudent`) or one that the admin chose (`AdmitStudent`),
the creation of guardians, one transaction per guardian that reads and writes its
wards one after the other (`ReadWard`, `WriteWard`, `CommitGuardian`), and the
removal of students and guardians. A number stands for what the code tells of its
string: its place in the database's order and what `parseInt` reads of it, a
natural number or none. Those made by the code are `Padded`, `Garbled` is the one
it makes of a string it cannot read ("0NaN"), and `Customs`, those an admin may
choose, are any. The list of a guardian holds the ids of the form as they came,
while the links are made with trimmed ids: `spaced` are the wards whose id stands
in the list with spaces about it. The deletion and the profile of a teacher beside
their department are in `Curriculum`.

The `MC*` modules hold the values of the constants and the symmetry sets of the
runs; the `*Proofs` modules the theorems, one module per group of components
that share state. Definitions whose comment begins with
"Slip" are plausible mistakes in the action they stand before; no specification
uses them, and each breaks the property it is paired with in `PROJECT.json`.

Requests that only read, and the wording of what is returned, are left out of
every module. The history variables (`lateWrites`, `early`, `unheard`, `overlapped`,
`unchecked`, `skewed`, `mixed`, `late`, `copied`, `stray`, `blurred`, `taken`,
`reused`, `disturbed`, `crossed`, `contested`) and the `stale` fields of requests
record what a property names as its exception: that two requests overlapped, that
one failed halfway, or one of the disagreements below; no guard of the code's
actions reads them.

## What the runs check

| Run | Instance | What it shows |
|---|---|---|
| `attempts` | 2 students, 2 attempts, 2 requests, one death, clock 0..2 with the window at 1 | The numbering holds though attempts are counted and created in two statements (the unique key on the attempt number refuses the loser), only what was handed in is queued, answers are frozen once the requests that read the attempt before have drained, and the tables implement `AttemptLedger`. |
| `marks` | 1 attempt, 2 questions, 2 worker slots, 1 teacher, 1 death, up to 3 errors of 3 tries, up to 2 stalls of 1 allowed, under fairness | Marks never exceed their question; grading is idempotent under retries and double delivery; the total is the sum of its parts; a teacher's score survives a redelivered job. What was handed in gets its auto score eventually, unless the job was given up (three throws, or a second stall), the request died before it queued one, or a late request rewrote the answers. |
| `workflow` | 3 requests of staff, 3 log entries, 1 edit, 1 death | Nothing is published unapproved, the log and the status agree, a trail keeps its assessment, each decision is notified once unless there was nobody to notify or its request died, edits drain, and what skips the review has questions. |
| `pinned` | 1 student, 2 requests of each side | No attempt outlives its assessment. |
| `rotation` | 3 tokens, 3 requests, 1 password change, 1 death | A login has one token at most, a revocation misses only what overlapped it, a deleted account has no session. |
| `terms` | 2 sessions, 2 terms, 2 names, 2 requests at a time, 5 in all, limit 1 | Two current rows or a term too many need overlapping requests; neither a current row nor work in a term is deleted by surprise. |
| `classes` | 2 classes of one seat, 2 students, 1 subject, 2 offers, 1 teacher, 2 terms, 2 requests at a time, 3 in all, 3 rows | A class is overfilled only by requests that overlapped; a registration goes only when its student chooses again, or with its student or term; the copied lists differ from the rows only where two requests overlapped, one failed halfway, a class or a term went with its rows, or a teacher was created with a list. |
| `timetable` | 2 slots, 2 teachers, 2 classes, 4 times of which 3 are in school hours, 2 requests at a time, 4 in all, updates of one field and updates of the start that bring an empty teacher or class | A clash needs overlapping requests, a slot switched on again, or an update with an empty id; a slot outside school hours needs overlapping requests. |
| `repository` | 1 file, 3 versions, 2 keys of objects, 1 link, 2 folders on 2 levels, quota 3, 2 requests at a time, 6 in all | The current version is always in the table, its object in the store unless two versions were given its key, and, but for a number that was read and then freed, it is the newest; names and depths describe the tree; quota and link limits are overrun by requests in flight at most. |
| `config` | 6 updates, 2 requests at a time, 4 in all, under fairness | The cache differs from the row only while an update is about to clear it or after a read that crossed an update, and not for good. |
| `bands` (violation) | the default scale, 23 marks, 2 requests | A percentage between two bands is graded F. |
| `people` | 2 students, 2 guardians, 2 teachers, 2 departments, numbers of two binary digits and "11", "1b" and a word chosen by admins, 2 requests at a time, 4 in all | Heads, profiles and wards disagree only after requests about one person overlapped; the next number is taken only if the highest one was chosen in a form of its own or ends the padding, or if somebody is known by a number that is no student's matric number. |

What a theorem states is not run again where a run has better things to do: the
type invariants with a proof, and `AttemptLimit`.

Why the bounds are enough: every hazard that was found in these services is a
race of two requests about one row (`Sessions` and `Approval` also run three, a
refresh between the two statements of a revocation), so two handlers and two
rows of each kind show both the race and a bystander. The counters
(`MaxRequests`, `MaxLog`, `MaxEdits`, `MaxSecret`, `MaxDeaths`, `MaxAborts`,
`MaxErrors`, `MaxStalls`, `Horizon`) allow each event as often as its hazard
needs, or as five minutes permit. `MaxTries` (3 in `queue.module.ts`) and
`StallLimit` (1, BullMQ's default) have the values of the code, and with three
errors and two stalls a job reaches both of its ends. In `marks` a teacher gives
one mark, which only the question worth as much admits: a mark above its question
is tried with the other. Other
constants are smaller than in the code, which makes the limit reachable:
`TermLimit` (3, run with 1), `MaxDepth` (2, run with 1), `Quota`, `Base` and
`Wide` (10 and 1000 or 10000, run with 2 and 4), and a version weighs one unit.
`MaxRows` with the constraint `SmallSchool` bounds the rows of `classes`; it also
keeps apart what does not meet, the lists of teachers, the lists of students and
the seats. School hours are `Open`..`Close`. Deadlock is not checked: with a bounded number of
requests every system comes to rest.

Fairness is assumed in two runs. In `marks` (`FairGradingSpec`) the server's event
loop goes on with every request it has begun (`Proceed`), a worker goes on with
the job it holds, and BullMQ hands a waiting job to a free slot; nothing is
assumed of students, teachers, errors, lock expirations or evictions. Jobs may
therefore fail for good and requests die before they queue one; nothing in the
code grades such an attempt, and `HandedInIsGraded` names both, with the attempts
whose answers a late request rewrote, as its only exceptions. A total that a teacher
finalised without an auto score does not count as graded. In `config` (`FairConfigSpec`) each request that has begun goes on, and an
entry of the cache expires after its time to live.

## What is proved

The theorems hold for any values of the constants that satisfy the named
assumptions: the bounds are naturals, the marks for "no value" are none of the
values, what is counted or summed (submission ids, questions, students,
departments, terms, bands of a scale, requests to the repository) is finite, and
a question's marks are a natural. Every invariant and every action property of a
passing run has a theorem; so has the refinement of `AttemptLedger`. Each rests on
an inductive invariant that says what the requests in flight may rely on.

- `AssessmentProofs`, the student side: types, `AttemptLimit`, `AttemptsNumbered`,
  `QueuedOnlySubmitted`, `FrozenOnceDrained` and the refinement of
  `AttemptLedger`. `AttemptLimit` is not inductive: `CountsBehind` adds that a
  creating request counted no more than there are and less than the limit,
  `AttemptsDistinct` that no two attempts share a number. Together with
  `AttemptsNumbered` a creation that counted too few meets the unique key.
  `QueueInv` adds that requests hold attempts that exist, and queue what was
  committed.
- Grading: types, `MarksWithinQuestion`, `CompletedScoreIsRight`, `TotalIsSum` and
  `ManualScoreSurvives`. `GradingInv` says that a run reads the answers that are
  stored, that it has written the marks it no longer has to write (`RunsRight`),
  and that an auto score, stored or carried by a teacher's request, is that of the
  answers (`AutoScoreRight`, `CallsRight`). The types say that the stored sums are
  naturals, which is an induction over the questions: of the parts of the set
  whose sum is none, a smallest would have a smaller one (`WFMin`, since the
  induction theorems of the library take an operator).
- Approval: types, `NeverPublishedUnapproved`, `LogShowsStatus`,
  `TrailKeepsAssessment`, `UnreviewedHasQuestions`, `EditsDrain` and
  `NoticesMatchLog`. `Entitled` says what a request that is about to publish had
  read: no approval required, or one on record; `QuestionsSeen` that an
  assessment about to be opened still has the questions that were seen.
  `NoticesInv` counts: per kind, what was sent, what found nobody to be sent to,
  what requests are about to send and what was lost with a request make up the
  entries of the log.
- Both sides: `AttemptsKeepAssessment`, from the foreign key on both sides of the
  race.
- `SessionsProofs`: types, `OneTokenPerLogin`, `RevokedUnlessOverlapped`,
  `GoneHasNoSession`. `Lineage` adds that a request that is about to issue is
  the only heir of its login, `IssuesCurrent` that what it issues is as current
  as what is stored.
- `TimetableProofs`: types, `NoDoubleBooking`, `WithinSchoolHours`. `Sound` says
  what a request may rely on: while nobody writes, and unless it brings an empty id,
  its target is what it will write and the checks behind it still hold; stale or
  not, the times it brings were validated.
- `CalendarProofs`: types, `OneCurrent`, `TermsWithinLimit`, `DeletionsSpare`.
  `Settled` says of every request that is not stale that no flag is left but its
  own once its statement has cleared what it saw, and that what it is about to
  delete is not current; `Counted` says of one that is not crowded that its
  session still has room.
- `CurriculumProofs`, which is about `Placement` too: types, `RegistrationsStay`,
  `SeatsHold`, `ListsAgree`. `RequestsSound` says that who registers is enrolled
  and that teachers still to appoint have a subject of the class to be appointed
  to; no row outlives what it refers to. `RegistrationsStay` leaves two ways
  besides a choice, the student and the term, and shows that subjects and classes
  take no registration along. `SeatsInv` adds that, until another
  request touches the class, its capacity is the one that was read, those seated
  and those still to seat fit into it, and a class to be deleted is empty.
  `ListsInv` adds that a list that was read is that of the rows, of the term the
  request found for a student, that who deletes a subject knows everybody on whose
  list it stands, unless another request came in between, and that who is not in
  the table has no row.
- `RepositoryProofs`, which is about `Folders` too: types, `TreeIsSound`,
  `CurrentIsWhole`, `NewestIsCurrent`, `OverrunsBounded`. `FolderSound` says that
  the name about to be written is still free, and the folder about to be deleted
  still empty, as long as nobody else wrote where the request looked; `FileSound`
  that who removes an object knows its key to be that of a version other than the
  current one, `KeysInv` that two versions of one key are on record as such, and
  that a number that was
  read is still the next one. `Granted` counts: what is used, and the requests
  that were granted a unit and have not charged it, together exceed the quota by
  less than the number of requests that can be under way.
- `SchoolConfigProofs`: `CacheFresh`, and `OnlyGapsMisgraded`, which bounds what
  the run `bands` finds: a grade other than that of the highest band reached is
  that of a percentage in no band. `StoresFresh` adds that a request about to
  store an entry holds what the row says, or knows that the row was written since
  it read. `GradesInv` says that every scale that circulates (row, cache, requests)
  is the default or a single band from 0 to 100, the only ones that pass the
  validation.
- `PeopleProofs`: `HeadsAligned`, `WardsAgree`, `NumbersRunOn`. `HeadSound` says
  what a request about a head relies on while nothing overlaps it: the teacher
  heads no other department, the profile names none but this one. `LinkSound` says
  that the guardian of an open transaction is not in the table and that its written
  wards had no guardian; `Apart` that two transactions create different guardians
  and have locked different wards; `AbsentHaveNothing` that who is not enrolled has
  neither guardian nor wards; the wards it speaks of are the listed ids, with spaces
  or without. `NumbersInv` says that the matric numbers are finitely many, each with
  a place in the order and something read of it, so that there is a highest one
  (by the same argument as for the sums), and that a padded one is followed by a
  number of a higher place.

Only model-checked: the liveness of `marks` (`HandedInIsGraded`) and of `config`
(`EventuallyFresh`), which need fairness and `ENABLED` and are out of the prover's
reach, and of course the violation of `bands`. The sums of marks are proved to be
naturals; what a sum computes for every set of questions would be an induction
over data, and is not stated.

## Abstractions

- One tenant; one assessment, one account, one term of the timetable. `exam` and
  `required` are chosen at the start and kept: the type is fixed at creation in
  practice, and `require_exam_approval` belongs to another component.
- Time is a counter; only its order with the window matters. An update moves the
  window while the assessment is a draft, which the student side does not model.
- The content of an answer is a member of a small set, `Right` is the correct
  one. Percentage, letter grade and pass flag are functions of the total.
- `Promise.all` over the marks: each is a step; when one fails the rest are taken
  as landed or refused before the job is tried again.
- A teacher's grades name answers of the attempt in the URL.
- Notifications are counts per kind, of those sent and of those that found nobody
  to be sent to. That `getParentsOfStudent` is called with
  its arguments swapped, so that parents are never told, is not modelled.
- A uuid is never used twice. Passwords are a version number, expiry is a set of
  expired tokens.
- `deleteTerm` takes assessments with their attempts and logs along in one
  transaction; that belongs to `Calendar`, where assessments are references to a
  term, and is not a step of `Approval` or `ExamAccess`.
- Dates of sessions and terms play no part.
- In an update of a slot an absent field and a null are the same, `Keep`: `??` and
  `&&` both pass over them. Times and days cannot be empty (a pattern and an
  enumeration in the DTO).
- Objects of the store are keys; `file_key` of lectures is never written.

## Where code and text disagree

One disagreement has a run and an entry in `PROJECT.json`: `bands`. The weights
of a school's bands are integers and the percentage is not rounded, so that
69.57 % lies between B (to 69) and A (from 70), fits no band and is graded F while
`is_passed` is true.

Others were met on the way; the properties that hold name them as exceptions.

- Assessments: an auto-save that read the attempt before it was handed in writes
  after the final submission (`lateWrites`). A student can start a draft. A
  request that dies between the commit and `queue.add` leaves an attempt that
  nobody grades, and so does a job that throws three times or stalls twice: failed
  jobs are kept and nothing looks at them. `gradeManualAnswers` may overwrite the mark of an auto-graded
  answer, and a request that finalises before the auto score is there stores a
  total without it (`early`).
- Approval: `publishApproved` overwrites a rejection that comes between its read
  and its write. `approve` and `reject` do not read the status, so a draft can be
  approved and a published exam rejected; `approve` leads to a publication
  without the check that there are questions. A submission that finds no active
  approver, and a decision whose teacher has no account, are logged and notified to
  nobody (`notifications.service.ts:96`, `:124`, `:141`).
- Timetable: `is_active: true` brings a slot back without a check for conflicts,
  although the update is said to recheck them. An update with an empty id for the
  teacher or the class checks nobody for it (`??`, lines 106-110) and keeps the one
  the slot has (`&&`, lines 148-153): one request moves a slot onto another.
- Calendar: `updateTerm` never compares its dates, and `updateAcademicSession`
  only when both are given. `deleteAcademicSession` refuses the current session
  and not the one that holds the current term; the cascade takes that term along.
  `createTerm` clears the current flags before an insert that may fail, which
  leaves a school without a current term.
- Classes: `bulkAssign` moves students that `assign` refuses. `updateClass` resets
  a capacity that is not given. `deleteClass` deletes the teachers' rows by
  cascade and leaves their lists. The lists are said to be kept in sync
  (`schema.prisma:129`), yet `users.service.ts:1540` creates a teacher with the list
  of the form and no `subject_teachers`, and `deleteTerm` takes registrations along
  and leaves `registered_subject_ids`. After the current term changes, a student's
  list shows the old one's subjects until the student registers again. The
  registration of a student never registers
  electives.
- Configuration: `validateGradeScale` refuses every scale of two bands or more,
  the default one included, because its loop reads the band before the first.
  Weights are checked only when both are given, so that two partial updates leave
  a sum other than 100. The two operating hours are required in `schema.prisma`
  and absent from the migrations, the client and the upsert; the late-fee fields
  of the DTO are columns of `payment_configs`, not of the table that is written.
- Repository: `file_key` comes from the caller and may be that of another version:
  the deletion of an older version then removes the object of the current one
  (`repository-file.service.ts:352`). `create` of a folder without a parent looks its name up in every
  folder. `deleteVersion` and `revokeShareLink` delete twice and always end in an
  error. `decrementUsage` is never called, so that deletions give no quota back.
- Users: `update` writes a column `subject_ids` that does not exist. Numbering
  stalls at 1000 and 10000, where the highest string is no longer the highest
  number, and after a number of an admin's own form that sorts last: `parseInt` reads
  5 of `GFA/2026/5` and `GFA/2026/5b`, whatever comes before them, and nothing of a
  word, after which `0NaN` is given once. The `ward_ids` of a guardian are stored as
  they came, while the links use trimmed ids, so that an id with spaces about it links
  the student and is not found in the list. A student created
  without a class fails on the empty id. `bulkImport` reads rows without headers, so
  that no row has the fields it asks for and nothing is ever imported. `matric_number` is unique across tenants.
  Removing a guardian leaves `guardian_ids`, so that the student can never be
  linked again; removing a student leaves `ward_ids`. Deleting a department leaves
  it on the profiles, and a department is cleared from a profile only if another
  field changes with it.

## What is not modelled

`PROJECT.json` lists every component with its status.

- Onboarding: no registration can come to exist. `RegisterSchoolDto` admits the
  plans in lower case only, and the column is the enum `TenantPlan` in upper case.
- Result engine: nothing creates `subject_registrations`, and
  `updateSubjectScore` returns when it finds none. GPA and honours rules of the
  configuration are read by it alone.
- E-mail: nothing calls `EmailService.queue`, so that its queue and log stay empty.
- Tutorials repeat the check and insert of slots in a table of their own, per
  teacher and without school hours; they never meet a slot.
- Lectures: each handler looks its lecture up and writes that one row, or upserts
  one of its views, without reading what it replaces.
- Payments are data transfer objects, uploads, templates and tenant resolution
  are I/O or lookups without state, the queues of results, payroll and reports
  have no worker, errors and configuration are wiring, and the Prisma client is
  generated.

## Plan

Done: every component of the table but the last two rows is modelled and
model-checked, and its safety is proved. Next, in this order:

1. Abstract specifications beside `AttemptLedger`: of a login as a sequence of
   tokens spent one by one (`Sessions`), and of a class as a set of at most
   `capacity` students (`Placement`), implemented while no requests overlap.
2. Tutorials beside the slots: their conflicts are checked per teacher only.

Runs are kept to one per question.
