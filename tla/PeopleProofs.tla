------------------------------ MODULE PeopleProofs ------------------------------
(***************************************************************************)
(* Proofs about People and Departments, for any number of departments,     *)
(* teachers, students, guardians and overlapping requests: heads and their *)
(* profiles, wards and their guardians.                                    *)
(***************************************************************************)
EXTENDS People, FiniteSetTheorems, WellFoundedInduction, TLAPS

Appointing == {"comparing", "appointing"}
Placing == Appointing \cup {"moving"}
Tying == {"linking", "writing"}

\* Where an appointment may find the teacher.
Place(v) == IF v.new THEN {} ELSE {v.dept}

\* What a request about a teacher may rely on while nobody else writes about him.
HeadSound(h) ==
  /\ req[h].pc \in Appointing =>
       /\ req[h] \in [pc : Appointing, dept : DeptIds, new : BOOLEAN, teacher : Teachers, stale : BOOLEAN]
       /\ ~req[h].stale => HeadedBy(req[h].teacher) \subseteq Place(req[h])
       /\ req[h].pc = "appointing" /\ ~req[h].stale => home[req[h].teacher] \in {None} \cup Place(req[h])
  /\ req[h].pc = "moving" =>
       /\ req[h] \in [pc : {"moving"}, dept : DeptIds \cup {None}, teacher : Teachers, stale : BOOLEAN]
       /\ ~req[h].stale /\ req[h].teacher \notin blurred => HeadedBy(req[h].teacher) \subseteq {req[h].dept}

HeadTypes ==
  /\ head \in [DeptIds -> Teachers \cup {None, NoRow}]
  /\ home \in [Teachers -> DeptIds \cup {None}]

Requests == req = [h \in Handlers |-> req[h]]

HeadInv == HeadTypes /\ Requests /\ (\A h \in Handlers : HeadSound(h)) /\ HeadsAligned

\* From here to the next state the teacher loses departments at most, and is
\* forgotten to be blurred only with the last of them.
Retires(t) == HeadedBy(t)' \subseteq HeadedBy(t) /\ (t \in blurred => t \in blurred' \/ HeadedBy(t)' = {})

--------------------------------------------------------------------------------
\* At the start nobody heads anything.
LEMMA HeadInvInit == PeopleInit => HeadInv
<1> SUFFICES ASSUME PeopleInit
             PROVE HeadInv
  OBVIOUS
<1>1. HeadTypes /\ Requests
  BY DEF PeopleInit, DepartmentsInit, HeadTypes, Requests
<1>2. \A h \in Handlers : req[h].pc = "free"
  BY DEF PeopleInit, DepartmentsInit, Free
<1>3. \A h \in Handlers : HeadSound(h)
  BY <1>2 DEF HeadSound, Appointing
<1>4. HeadsAligned
  BY DepartmentsAssumption DEF PeopleInit, DepartmentsInit, HeadsAligned, HeadedBy
<1> QED
  BY <1>1, <1>3, <1>4 DEF HeadInv

\* A request keeps what it relies on while its teacher only loses departments.
LEMMA RequestStays ==
  ASSUME NEW h \in Handlers, HeadSound(h), req'[h] = req[h],
         req[h].pc \in Placing => Retires(req[h].teacher) /\ home'[req[h].teacher] = home[req[h].teacher]
  PROVE HeadSound(h)'
<1>1. CASE req[h].pc \in Appointing
  <2>1. Retires(req[h].teacher) /\ home'[req[h].teacher] = home[req[h].teacher]
    BY <1>1 DEF Placing
  <2>2. HeadedBy(req[h].teacher)' \subseteq HeadedBy(req[h].teacher)
    BY <2>1 DEF Retires, HeadedBy
  <2> QED
    BY <1>1, <2>1, <2>2 DEF HeadSound, Appointing, Place
<1>2. CASE req[h].pc = "moving"
  <2>1. Retires(req[h].teacher)
    BY <1>2 DEF Placing
  <2>2. /\ HeadedBy(req[h].teacher)' \subseteq HeadedBy(req[h].teacher)
        /\ req[h].teacher \in blurred => req[h].teacher \in blurred' \/ HeadedBy(req[h].teacher)' = {}
    BY <2>1 DEF Retires, HeadedBy
  <2> QED
    BY <1>2, <2>2 DEF HeadSound, Appointing
<1>3. CASE req[h].pc \notin Placing
  BY <1>3 DEF HeadSound, Placing, Appointing
<1> QED
  BY <1>1, <1>2, <1>3 DEF Placing

\* One that has been overtaken relies on nothing.
LEMMA RequestStale ==
  ASSUME NEW h \in Handlers, HeadSound(h), req[h].pc \in Placing, req'[h] = [req[h] EXCEPT !.stale = TRUE]
  PROVE HeadSound(h)'
<1>1. CASE req[h].pc \in Appointing
  BY <1>1 DEF HeadSound, Appointing
<1>2. CASE req[h].pc = "moving"
  BY <1>2 DEF HeadSound, Appointing
<1> QED
  BY <1>1, <1>2 DEF Placing

\* A teacher who only loses departments stays in line with what he heads.
LEMMA AlignedStays ==
  ASSUME HeadsAligned, NEW t \in Teachers \ blurred', Retires(t), home'[t] = home[t]
  PROVE \A d \in HeadedBy(t)' : HeadedBy(t)' = {d} /\ home'[t] \in {d, None}
BY DEF HeadsAligned, Retires, HeadedBy

\* Steps that appoint nobody and write no profile, and after which a request
\* about a teacher is one that was there before.
LEMMA HeadFrame ==
  ASSUME HeadInv, HeadTypes', Requests', home' = home,
         \A t \in Teachers : Retires(t),
         \A h \in Handlers : req'[h].pc \in Placing => req'[h] = req[h]
  PROVE HeadInv'
<1>1. ASSUME NEW h \in Handlers
      PROVE HeadSound(h)'
  <2>1. CASE req'[h].pc \in Placing
    <3>1. req'[h] = req[h] /\ HeadSound(h)
      BY <2>1 DEF HeadInv
    <3>2. req[h].pc \in Placing => req[h].teacher \in Teachers
      BY <3>1 DEF HeadSound, Placing
    <3> QED
      BY <3>1, <3>2, RequestStays
  <2>2. CASE req'[h].pc \notin Placing
    BY <2>2 DEF HeadSound, Placing, Appointing
  <2> QED
    BY <2>1, <2>2
<1>2. HeadsAligned'
  <2> SUFFICES ASSUME NEW t \in Teachers \ blurred'
               PROVE \A d \in HeadedBy(t)' : HeadedBy(t)' = {d} /\ home'[t] \in {d, None}
    BY DEF HeadsAligned
  <2> QED
    BY AlignedStays DEF HeadInv
<1> QED
  BY <1>1, <1>2 DEF HeadInv

\* One request goes on, and nothing is written.
LEMMA HeadOneMoves ==
  ASSUME HeadInv, NEW h \in Handlers, NEW v, req' = [req EXCEPT ![h] = v], UNCHANGED deptVars, HeadSound(h)'
  PROVE HeadInv'
<1>1. req'[h] = v /\ (\A g \in Handlers : g # h => req'[g] = req[g]) /\ Requests'
  BY DEF HeadInv, Requests
<1>2. \A g \in Handlers : HeadSound(g)'
  <2> SUFFICES ASSUME NEW g \in Handlers, g # h
               PROVE HeadSound(g)'
    OBVIOUS
  <2>1. \A t \in Teachers : Retires(t)
    BY DEF Retires, HeadedBy, deptVars
  <2>2. HeadSound(g) /\ req'[g] = req[g] /\ home' = home
    BY <1>1 DEF HeadInv, deptVars
  <2>3. req[g].pc \in Placing => req[g].teacher \in Teachers
    BY <2>2 DEF HeadSound, Placing
  <2> QED
    BY <2>1, <2>2, <2>3, RequestStays
<1>3. HeadTypes' /\ HeadsAligned'
  BY DEF HeadInv, HeadTypes, HeadsAligned, HeadedBy, deptVars
<1> QED
  BY <1>1, <1>2, <1>3 DEF HeadInv

\* A step that leaves departments and profiles alone.
LEMMA HeadAside ==
  ASSUME HeadInv, UNCHANGED deptVars, Requests',
         \A h \in Handlers : req'[h].pc \in Placing => req'[h] = req[h]
  PROVE HeadInv'
<1>1. \A t \in Teachers : Retires(t)
  BY DEF Retires, HeadedBy, deptVars
<1>2. HeadTypes' /\ home' = home
  BY DEF HeadInv, HeadTypes, deptVars
<1> QED
  BY <1>1, <1>2, HeadFrame

\* AppointHead: nobody but the department in question knows the teacher.
LEMMA AppointKeepsHeads ==
  ASSUME HeadInv, NEW h \in Handlers, NEW d \in DeptIds, NEW new \in BOOLEAN, NEW t \in Teachers,
         AppointHead(h, d, new, t)
  PROVE HeadInv'
<1> DEFINE v == [pc |-> "comparing", dept |-> d, new |-> new, teacher |-> t, stale |-> FALSE]
<1>1. req' = [req EXCEPT ![h] = v] /\ UNCHANGED deptVars /\ HeadedBy(t) \subseteq Place(v)
  BY DEF AppointHead, Begin, Place
<1>2. req'[h] = v
  BY <1>1 DEF HeadInv, Requests
<1>3. HeadedBy(t)' \subseteq Place(v)
  BY <1>1 DEF HeadedBy, deptVars
<1>4. HeadSound(h)'
  BY <1>2, <1>3 DEF HeadSound, Appointing, Place
<1> HIDE DEF v
<1> QED
  BY <1>1, <1>4, HeadOneMoves

\* CompareProfile: the profile says the department, or nothing.
LEMMA CompareKeepsHeads ==
  ASSUME HeadInv, NEW h \in Handlers, CompareProfile(h)
  PROVE HeadInv'
<1>1. HeadSound(h) /\ req[h].pc = "comparing" /\ UNCHANGED deptVars
  BY DEF HeadInv, CompareProfile
<1>2. CASE home[req[h].teacher] \in {None} \cup Place(req[h])
  <2> DEFINE v == [req[h] EXCEPT !.pc = "appointing"]
  <2>1. req' = [req EXCEPT ![h] = v]
    BY <1>2 DEF CompareProfile, Place
  <2>2. req'[h] = v
    BY <2>1 DEF HeadInv, Requests
  <2>3. HeadSound(h)'
    BY <1>1, <1>2, <2>2 DEF HeadSound, Appointing, Place, HeadedBy, deptVars
  <2> HIDE DEF v
  <2> QED
    BY <1>1, <2>1, <2>3, HeadOneMoves
<1>3. CASE home[req[h].teacher] \notin {None} \cup Place(req[h])
  <2>1. req' = [req EXCEPT ![h] = Free]
    BY <1>3 DEF CompareProfile, Place
  <2>2. req'[h] = Free
    BY <2>1 DEF HeadInv, Requests
  <2>3. HeadSound(h)'
    BY <2>2 DEF HeadSound, Appointing, Free
  <2> QED
    BY <1>1, <2>1, <2>3, HeadOneMoves
<1> QED
  BY <1>2, <1>3

\* MoveTeacher: a teacher who heads a department is moved to it.
LEMMA MoveKeepsHeads ==
  ASSUME HeadInv, NEW h \in Handlers, NEW t \in Teachers, NEW d \in DeptIds \cup {None}, MoveTeacher(h, t, d)
  PROVE HeadInv'
<1> DEFINE v == [pc |-> "moving", dept |-> d, teacher |-> t, stale |-> FALSE]
<1>1. req' = [req EXCEPT ![h] = v] /\ UNCHANGED deptVars /\ (HeadedBy(t) = {} \/ d \in HeadedBy(t))
  BY DEF MoveTeacher, Begin
<1>2. req'[h] = v
  BY <1>1 DEF HeadInv, Requests
<1>3. t \notin blurred => HeadedBy(t) \subseteq {d}
  BY <1>1 DEF HeadInv, HeadsAligned
<1>4. t \notin blurred' => HeadedBy(t)' \subseteq {d}
  BY <1>1, <1>3 DEF HeadedBy, deptVars
<1>5. HeadSound(h)'
  BY <1>2, <1>4 DEF HeadSound, Appointing
<1> HIDE DEF v
<1> QED
  BY <1>1, <1>5, HeadOneMoves

\* After a write about t by h, the other requests about t are stale and the rest
\* find their teachers as they left them.
LEMMA OthersAfterWrite ==
  ASSUME HeadInv, NEW h \in Handlers, NEW t \in Teachers, FinishAbout(h, t), Blur(h, t),
         \A u \in Teachers : u # t => HeadedBy(u)' \subseteq HeadedBy(u) /\ home'[u] = home[u]
  PROVE /\ Requests' /\ (\A g \in Handlers : HeadSound(g)')
        /\ \A u \in Teachers : u # t => Retires(u)
<1>1. \A u \in Teachers : u # t => Retires(u)
  <2> SUFFICES ASSUME NEW u \in Teachers, u # t
               PROVE Retires(u)
    OBVIOUS
  <2>1. HeadedBy(u)' \subseteq HeadedBy(u)
    OBVIOUS
  <2>2. u \in blurred => u \in blurred' \/ HeadedBy(u)' = {}
    BY DEF Blur, HeadedBy
  <2> QED
    BY <2>1, <2>2 DEF Retires
<1>2. Requests'
  BY DEF FinishAbout, Requests
<1>3. ASSUME NEW g \in Handlers
      PROVE HeadSound(g)'
  <2>1. HeadSound(g)
    BY DEF HeadInv
  <2>2. CASE g = h
    <3>1. req'[g] = Free
      BY <2>2 DEF FinishAbout
    <3> QED
      BY <3>1 DEF HeadSound, Appointing, Free
  <2>3. CASE g # h /\ About(req[g], t)
    <3>1. req'[g] = [req[g] EXCEPT !.stale = TRUE]
      BY <2>3 DEF FinishAbout
    <3>2. req[g].pc \in Placing
      BY <2>3 DEF About, Placing, Appointing
    <3> QED
      BY <2>1, <3>1, <3>2, RequestStale
  <2>4. CASE g # h /\ ~About(req[g], t)
    <3>1. req'[g] = req[g]
      BY <2>4 DEF FinishAbout
    <3>2. req[g].pc \in Placing => req[g].teacher \in Teachers /\ req[g].teacher # t
      BY <2>1, <2>4 DEF HeadSound, About, Placing, Appointing
    <3> QED
      BY <1>1, <2>1, <3>1, <3>2, RequestStays
  <2> QED
    BY <2>2, <2>3, <2>4
<1> QED
  BY <1>1, <1>2, <1>3

\* WriteHead: a teacher appointed by what was read last heads that department,
\* and no other.
LEMMA WriteHeadKeepsHeads ==
  ASSUME HeadInv, NEW h \in Handlers, WriteHead(h)
  PROVE HeadInv'
<1>1. /\ HeadSound(h) /\ req[h].pc = "appointing" /\ home' = home
      /\ req[h].teacher \in Teachers /\ req[h].dept \in DeptIds /\ req[h].stale \in BOOLEAN
  BY DEF HeadInv, WriteHead, HeadSound, Appointing
<1>0. PICK t \in Teachers, d \in DeptIds : t = req[h].teacher /\ d = req[h].dept
  BY <1>1
<1>2. CASE ~(req[h].new \/ d \in Existing)
  <2>1. req' = [req EXCEPT ![h] = Free] /\ UNCHANGED deptVars
    BY <1>0, <1>2 DEF WriteHead, deptVars
  <2>2. req'[h] = Free
    BY <2>1 DEF HeadInv, Requests
  <2>3. HeadSound(h)'
    BY <2>2 DEF HeadSound, Appointing, Free
  <2> QED
    BY <2>1, <2>3, HeadOneMoves
<1>3. CASE req[h].new \/ d \in Existing
  <2>1. head' = [head EXCEPT ![d] = t] /\ FinishAbout(h, t) /\ Blur(h, t)
    BY <1>0, <1>3 DEF WriteHead
  <2>2. head'[d] = t /\ (\A e \in DeptIds : e # d => head'[e] = head[e])
    BY <1>1, <2>1 DEF HeadInv, HeadTypes
  <2>3. \A u \in Teachers : u # t => HeadedBy(u)' \subseteq HeadedBy(u) /\ home'[u] = home[u]
    BY <1>1, <2>2 DEF HeadedBy
  <2>4. /\ Requests' /\ (\A g \in Handlers : HeadSound(g)')
        /\ \A u \in Teachers : u # t => Retires(u)
    BY <1>1, <2>1, <2>3, OthersAfterWrite
  <2>5. HeadTypes'
    BY <1>1, <2>1 DEF HeadInv, HeadTypes
  <2>6. HeadsAligned'
    <3> SUFFICES ASSUME NEW u \in Teachers \ blurred'
                 PROVE \A e \in HeadedBy(u)' : HeadedBy(u)' = {e} /\ home'[u] \in {e, None}
      BY DEF HeadsAligned
    <3>1. CASE u # t
      BY <1>1, <2>4, <3>1, AlignedStays DEF HeadInv
    <3>2. CASE u = t
      <4>1. ~req[h].stale
        BY <1>1, <2>1, <2>2, <3>2 DEF Blur
      <4>2. HeadedBy(t) \subseteq Place(req[h]) /\ home[t] \in {None} \cup Place(req[h])
        BY <1>0, <1>1, <4>1 DEF HeadSound, Appointing
      <4>3. Place(req[h]) \subseteq {d}
        BY <1>0 DEF Place
      <4>4. HeadedBy(t)' = {d}
        BY <1>1, <2>2, <4>2, <4>3 DEF HeadedBy
      <4>5. home'[t] \in {None, d}
        BY <1>1, <4>2, <4>3
      <4> QED
        BY <3>2, <4>4, <4>5
    <3> QED
      BY <3>1, <3>2
  <2> QED
    BY <2>4, <2>5, <2>6 DEF HeadInv
<1> QED
  BY <1>2, <1>3

\* WriteHome: the head of a department is moved to it, or to none.
LEMMA WriteHomeKeepsHeads ==
  ASSUME HeadInv, NEW h \in Handlers, WriteHome(h)
  PROVE HeadInv'
<1>1. /\ HeadSound(h) /\ req[h].pc = "moving"
      /\ req[h].teacher \in Teachers /\ req[h].dept \in DeptIds \cup {None} /\ req[h].stale \in BOOLEAN
  BY DEF HeadInv, WriteHome, HeadSound, Appointing
<1>0. PICK t \in Teachers, d \in DeptIds \cup {None} : t = req[h].teacher /\ d = req[h].dept
  BY <1>1
<1>2. home' = [home EXCEPT ![t] = d] /\ head' = head /\ FinishAbout(h, t) /\ Blur(h, t)
  BY <1>0 DEF WriteHome
<1>3. ~req[h].stale /\ t \notin blurred => HeadedBy(t) \subseteq {d}
  BY <1>0, <1>1 DEF HeadSound, Appointing
<1>4. home'[t] = d /\ (\A u \in Teachers : u # t => home'[u] = home[u])
  BY <1>1, <1>2 DEF HeadInv, HeadTypes
<1>5. \A u \in Teachers : HeadedBy(u)' = HeadedBy(u)
  BY <1>2 DEF HeadedBy
<1>6. /\ Requests' /\ (\A g \in Handlers : HeadSound(g)')
      /\ \A u \in Teachers : u # t => Retires(u)
  BY <1>1, <1>2, <1>4, <1>5, OthersAfterWrite
<1>7. HeadTypes'
  BY <1>1, <1>2 DEF HeadInv, HeadTypes
<1>8. HeadsAligned'
  <2> SUFFICES ASSUME NEW u \in Teachers \ blurred'
               PROVE \A e \in HeadedBy(u)' : HeadedBy(u)' = {e} /\ home'[u] \in {e, None}
    BY DEF HeadsAligned
  <2>1. CASE u # t
    BY <1>4, <1>6, <2>1, AlignedStays DEF HeadInv
  <2>2. CASE u = t /\ HeadedBy(t)' # {}
    <3>1. PICK e \in DeptIds : head'[e] = t
      BY <2>2 DEF HeadedBy
    <3>2. ~req[h].stale /\ t \notin blurred
      BY <1>1, <1>2, <2>2, <3>1 DEF Blur
    <3>3. HeadedBy(t)' \subseteq {d}
      BY <1>1, <1>3, <1>5, <3>2
    <3> QED
      BY <1>4, <2>2, <3>3
  <2>3. CASE u = t /\ HeadedBy(t)' = {}
    BY <2>3
  <2> QED
    BY <2>1, <2>2, <2>3
<1> QED
  BY <1>6, <1>7, <1>8 DEF HeadInv

\* A department that is made, left without a head or deleted makes nobody head.
LEMMA DepartmentWriteKeepsHeads == HeadInv /\ DepartmentWrite => HeadInv'
<1> SUFFICES ASSUME HeadInv, NEW d \in DeptIds, CreateDepartment(d) \/ DismissHead(d) \/ DeleteDepartment(d)
             PROVE HeadInv'
  BY DEF DepartmentWrite
<1>1. PICK v \in {None, NoRow} : head' = [head EXCEPT ![d] = v]
  BY DEF CreateDepartment, DismissHead, DeleteDepartment
<1>2. UNCHANGED <<home, req>> /\ blurred' \in {blurred, blurred \cap {head'[e] : e \in DeptIds}}
  BY DEF CreateDepartment, DismissHead, DeleteDepartment
<1>3. \A t \in Teachers : Retires(t)
  <2> SUFFICES ASSUME NEW t \in Teachers
               PROVE Retires(t)
    OBVIOUS
  <2>1. \A e \in DeptIds : head'[e] = t => head[e] = t
    BY <1>1, DepartmentsAssumption DEF HeadInv, HeadTypes
  <2>2. HeadedBy(t)' \subseteq HeadedBy(t)
    BY <2>1 DEF HeadedBy
  <2>3. t \in blurred => t \in blurred' \/ HeadedBy(t)' = {}
    BY <1>2 DEF HeadedBy
  <2> QED
    BY <2>2, <2>3 DEF Retires
<1>4. HeadTypes' /\ Requests'
  BY <1>1, <1>2 DEF HeadInv, HeadTypes, Requests
<1> QED
  BY <1>2, <1>3, <1>4, HeadFrame

\* The five later steps of a request about a head together.
LEMMA DepartmentStepKeepsHeads ==
  ASSUME HeadInv, NEW h \in Handlers, DepartmentStep(h)
  PROVE HeadInv'
BY AppointKeepsHeads, CompareKeepsHeads, MoveKeepsHeads, WriteHeadKeepsHeads, WriteHomeKeepsHeads
   DEF DepartmentStep

\* The creations and removals of users leave departments and profiles alone.
LEMMA UserStepKeepsHeads ==
  ASSUME HeadInv, NEW h \in Handlers, UserStep(h) \/ Die(h)
  PROVE HeadInv'
<1>1. UNCHANGED deptVars
  BY DEF UserStep, Die, NumberStudent, InsertStudent, ReadWard, CreateGuardian, WriteWard, CommitGuardian
<1>2. Requests' /\ (\A g \in Handlers : req'[g].pc \in Placing => req'[g] = req[g])
  <2>1. CASE CommitGuardian(h)
    BY <2>1 DEF CommitGuardian, HeadInv, Requests, Placing, Appointing, Free
  <2>2. CASE ~CommitGuardian(h)
    <3>1. PICK v : req' = [req EXCEPT ![h] = v] /\ v.pc \notin Placing
      BY <2>2 DEF UserStep, Die, NumberStudent, InsertStudent, ReadWard, CreateGuardian, WriteWard, Begin,
                  Free, Placing, Appointing
    <3> QED
      BY <3>1 DEF HeadInv, Requests
  <2> QED
    BY <2>1, <2>2
<1> QED
  BY <1>1, <1>2, HeadAside

\* Every step of the component keeps the invariant of the heads.
LEMMA HeadInvStep == HeadInv /\ [PeopleNext]_vars => HeadInv'
<1> SUFFICES ASSUME HeadInv, [PeopleNext]_vars
             PROVE HeadInv'
  OBVIOUS
<1>1. ASSUME NEW h \in Handlers, UserStep(h) \/ Die(h)
      PROVE HeadInv'
  BY <1>1, UserStepKeepsHeads
<1>2. ASSUME NEW h \in Handlers, DepartmentStep(h)
      PROVE HeadInv'
  BY <1>2, DepartmentStepKeepsHeads
<1>3. ASSUME NEW s \in Students, NEW number \in Customs, AdmitStudent(s, number)
      PROVE HeadInv'
  <2>1. UNCHANGED <<deptVars, req>>
    BY <1>3 DEF AdmitStudent
  <2> QED
    BY <2>1, HeadAside DEF HeadInv, Requests
<1>4. ASSUME NEW u \in Users, Remove(u)
      PROVE HeadInv'
  <2>1. UNCHANGED <<deptVars, req>>
    BY <1>4 DEF Remove
  <2> QED
    BY <2>1, HeadAside DEF HeadInv, Requests
<1>5. CASE DepartmentWrite
  BY <1>5, DepartmentWriteKeepsHeads
<1>6. CASE UNCHANGED vars
  <2>1. UNCHANGED <<deptVars, req>>
    BY <1>6 DEF vars
  <2> QED
    BY <2>1, HeadAside DEF HeadInv, Requests
<1> QED
  BY <1>1, <1>2, <1>3, <1>4, <1>5, <1>6 DEF PeopleNext

\* assertHodNotDuplicatedAcrossDepartments and the assertions about profiles:
\* whatever requests run, one teacher heads one department, and his profile says
\* so or nothing, unless requests about him overlapped.
THEOREM HeadsAlignedHolds == PeopleSpec => []HeadsAligned
<1>1. HeadInv => HeadsAligned
  BY DEF HeadInv
<1> QED
  BY <1>1, HeadInvInit, HeadInvStep, PTL DEF PeopleSpec

--------------------------------------------------------------------------------
LinkRecords ==
  [pc : {"linking"}, guardian : Guardians, id : Customs \cup Guardians, todo : SUBSET Students,
   done : SUBSET Students, late : SUBSET Students, spaced : SUBSET Students]
  \cup [pc : {"writing"}, guardian : Guardians, id : Customs \cup Guardians, todo : SUBSET Students,
        done : SUBSET Students, late : SUBSET Students, spaced : SUBSET Students, ward : Students, stale : BOOLEAN]

\* A transaction that creates a guardian: nobody knows the guardian yet; a ward
\* it has written is there and was free, or is known to be late.
LinkSound(h) ==
  req[h].pc \in Tying =>
    /\ req[h] \in LinkRecords
    /\ identifier[req[h].guardian] = NoRow
    /\ \A s \in Students : guardian[s] # req[h].guardian
    /\ \A s \in req[h].done : s \in Enrolled /\ (s \in req[h].late \/ guardian[s] = None)
    /\ req[h].pc = "writing" /\ ~req[h].stale => guardian[req[h].ward] = None

\* Two of them create different guardians, and lock different wards.
Apart(h, k) ==
  h # k /\ req[h].pc \in Tying /\ req[k].pc \in Tying =>
    req[h].guardian # req[k].guardian /\ req[h].done \cap req[k].done = {}

UserTypes ==
  /\ identifier = [u \in Users |-> identifier[u]]
  /\ matric = [s \in Students |-> matric[s]]
  /\ guardian = [s \in Students |-> guardian[s]]
  /\ wards \in [Guardians -> SUBSET Students] /\ spaced \in [Guardians -> SUBSET Students]

\* Who is not there has no number, no guardian and no wards.
AbsentHaveNothing ==
  /\ \A s \in Students : identifier[s] = NoRow => matric[s] = NoRow /\ guardian[s] = None
  /\ \A g \in Guardians : identifier[g] = NoRow => wards[g] = {} /\ spaced[g] = {}

Transactions == (\A h \in Handlers : LinkSound(h)) /\ (\A h, k \in Handlers : Apart(h, k))

WardInv == UserTypes /\ AbsentHaveNothing /\ Requests /\ Transactions /\ WardsAgree

--------------------------------------------------------------------------------
\* What somebody is called is never "no row".
LEMMA NamesAreRows == \A id \in Customs \cup Guardians : id # NoRow
BY PeopleAssumption

\* At the start nobody is enrolled and nobody has a ward.
LEMMA WardInvInit == PeopleInit => WardInv
<1> SUFFICES ASSUME PeopleInit
             PROVE WardInv
  OBVIOUS
<1>1. UserTypes /\ AbsentHaveNothing /\ Requests
  BY DEF PeopleInit, DepartmentsInit, UserTypes, AbsentHaveNothing, Requests, Users
<1>2. \A h \in Handlers : req[h].pc = "free"
  BY DEF PeopleInit, DepartmentsInit, Free
<1>3. Transactions
  BY <1>2 DEF Transactions, LinkSound, Apart, Tying
<1>4. WardsAgree
  BY DEF PeopleInit, WardsAgree, Enrolled
<1> QED
  BY <1>1, <1>3, <1>4 DEF WardInv

\* A transaction keeps what it relies on while guardians only go.
LEMMA LinkStays ==
  ASSUME NEW h \in Handlers, LinkSound(h), req'[h] = req[h],
         \A s \in Students : guardian'[s] \in {guardian[s], None},
         req[h].pc \in Tying => /\ identifier'[req[h].guardian] = NoRow
                                /\ \A s \in req[h].done : s \in Enrolled'
                                /\ None # req[h].guardian
  PROVE LinkSound(h)'
<1> SUFFICES ASSUME req[h].pc \in Tying
             PROVE LinkSound(h)'
  BY DEF LinkSound
<1>1. req[h] \in LinkRecords /\ req[h].done \subseteq Students
  BY DEF LinkSound, LinkRecords
<1>2. req[h].pc = "writing" => req[h].ward \in Students
  BY <1>1 DEF LinkRecords
<1>3. ASSUME NEW s \in Students
      PROVE guardian'[s] # req'[h].guardian
  <2>1. guardian[s] # req[h].guardian /\ None # req[h].guardian
    BY DEF LinkSound
  <2>2. guardian'[s] \in {guardian[s], None} /\ req'[h] = req[h]
    OBVIOUS
  <2> QED
    BY <2>1, <2>2
<1>4. ASSUME NEW s \in req'[h].done
      PROVE (s \in Enrolled)' /\ (s \in req'[h].late \/ guardian'[s] = None)
  <2>1. s \in Students /\ s \in req[h].done /\ (s \in req[h].late \/ guardian[s] = None)
    BY <1>1 DEF LinkSound
  <2> QED
    BY <2>1
<1>5. req'[h].pc = "writing" /\ ~req'[h].stale => guardian'[req'[h].ward] = None
  BY <1>2 DEF LinkSound
<1> QED
  BY <1>1, <1>3, <1>4, <1>5 DEF LinkSound

\* Users stay as they are, and a transaction afterwards is one that was there.
LEMMA WardFrame ==
  ASSUME WardInv, UNCHANGED userVars, Requests',
         \A h \in Handlers : req'[h].pc \in Tying => req'[h] = req[h]
  PROVE WardInv'
<1>0. UNCHANGED <<identifier, matric, wards, spaced, guardian, contested>>
  BY DEF userVars
<1>1. UserTypes' /\ AbsentHaveNothing' /\ WardsAgree'
  <2>1. UserTypes' /\ AbsentHaveNothing'
    BY <1>0 DEF WardInv, UserTypes, AbsentHaveNothing
  <2>2. WardsAgree'
    BY <1>0 DEF WardInv, WardsAgree, Enrolled
  <2> QED
    BY <2>1, <2>2
<1>2. Transactions'
  <2>1. ASSUME NEW h \in Handlers
        PROVE LinkSound(h)'
    BY DEF WardInv, Transactions, LinkSound, Enrolled, userVars
  <2>2. ASSUME NEW h \in Handlers, NEW k \in Handlers
        PROVE Apart(h, k)'
    BY DEF WardInv, Transactions, Apart
  <2> QED
    BY <2>1, <2>2 DEF Transactions
<1> QED
  BY <1>1, <1>2 DEF WardInv

\* One transaction goes on, and nothing is written yet.
LEMMA WardOneMoves ==
  ASSUME WardInv, NEW h \in Handlers, NEW v, req' = [req EXCEPT ![h] = v], UNCHANGED userVars,
         LinkSound(h)', \A k \in Handlers : Apart(h, k)' /\ Apart(k, h)'
  PROVE WardInv'
<1>0. UNCHANGED <<identifier, matric, wards, spaced, guardian, contested>>
  BY DEF userVars
<1>1. UserTypes' /\ AbsentHaveNothing' /\ WardsAgree'
  <2>1. UserTypes' /\ AbsentHaveNothing'
    BY <1>0 DEF WardInv, UserTypes, AbsentHaveNothing
  <2>2. WardsAgree'
    BY <1>0 DEF WardInv, WardsAgree, Enrolled
  <2> QED
    BY <2>1, <2>2
<1>2. Requests' /\ (\A g \in Handlers : g # h => req'[g] = req[g])
  BY DEF WardInv, Requests
<1>3. ASSUME NEW g \in Handlers, g # h
      PROVE LinkSound(g)'
  BY <1>2, <1>3 DEF WardInv, Transactions, LinkSound, Enrolled, userVars
<1>4. ASSUME NEW g \in Handlers, NEW k \in Handlers, g # h, k # h
      PROVE Apart(g, k)'
  BY <1>2, <1>4 DEF WardInv, Transactions, Apart
<1>5. Transactions'
  BY <1>3, <1>4 DEF Transactions
<1> QED
  BY <1>1, <1>2, <1>5 DEF WardInv

\* CreateGuardian: nobody knows the guardian.
LEMMA CreateKeepsWards ==
  ASSUME WardInv, NEW h \in Handlers, NEW g \in Guardians, NEW id \in Customs \cup Guardians,
         NEW ws \in SUBSET Students, NEW sp \in SUBSET ws, CreateGuardian(h, g, id, ws, sp)
  PROVE WardInv'
<1> DEFINE v == [pc |-> "linking", guardian |-> g, id |-> id, todo |-> ws, done |-> {}, late |-> {}, spaced |-> sp]
<1>1. req' = [req EXCEPT ![h] = v] /\ UNCHANGED userVars
  BY DEF CreateGuardian, Begin
<1>2. req'[h] = v /\ (\A k \in Handlers : k # h => req'[k] = req[k])
  BY <1>1 DEF WardInv, Requests
<1>3. identifier'[g] = NoRow /\ (\A s \in Students : guardian'[s] # g)
  BY <1>1 DEF CreateGuardian, userVars
<1>4. v \in LinkRecords
  BY DEF LinkRecords
<1>5. LinkSound(h)'
  BY <1>2, <1>3, <1>4 DEF LinkSound
<1>6. \A k \in Handlers : req[k].pc \in Tying => req[k].guardian # g
  BY DEF CreateGuardian, Linking, Tying
<1>7. \A k \in Handlers : Apart(h, k)' /\ Apart(k, h)'
  BY <1>2, <1>6 DEF Apart
<1> HIDE DEF v
<1> QED
  BY <1>1, <1>5, <1>7, WardOneMoves

\* ReadWard: the ward is free when it is read.
LEMMA ReadKeepsWards ==
  ASSUME WardInv, NEW h \in Handlers, NEW s \in Students, ReadWard(h, s)
  PROVE WardInv'
<1> DEFINE r == req[h]
           v == [pc |-> "writing", guardian |-> r.guardian, id |-> r.id, todo |-> r.todo \ {s},
                 done |-> r.done, late |-> r.late, spaced |-> r.spaced, ward |-> s, stale |-> FALSE]
<1>1. UNCHANGED userVars /\ LinkSound(h) /\ req[h].pc = "linking" /\ r \in LinkRecords
  BY DEF ReadWard, WardInv, Transactions, LinkSound, Tying
<1>2. CASE s \notin Enrolled \/ guardian[s] # None
  <2>1. req' = [req EXCEPT ![h] = Free]
    BY <1>2 DEF ReadWard
  <2> QED
    BY <1>1, <2>1, WardFrame DEF WardInv, Requests, Free, Tying
<1>3. CASE ~(s \notin Enrolled \/ guardian[s] # None)
  <2>1. req' = [req EXCEPT ![h] = v]
    BY <1>3 DEF ReadWard
  <2>2. req'[h] = v /\ (\A k \in Handlers : k # h => req'[k] = req[k])
    BY <2>1 DEF WardInv, Requests
  <2>3. v \in LinkRecords
    BY <1>1 DEF LinkRecords
  <2>4. UNCHANGED <<identifier, guardian, matric>>
    BY <1>1 DEF userVars
  <2>5. LinkSound(h)'
    BY <1>1, <1>3, <2>2, <2>3, <2>4 DEF LinkSound, Tying, Enrolled
  <2>6. \A k \in Handlers : Apart(h, k)' /\ Apart(k, h)'
    BY <1>1, <2>2 DEF WardInv, Transactions, Apart, Tying
  <2> HIDE DEF v
  <2> QED
    BY <1>1, <2>1, <2>5, <2>6, WardOneMoves
<1> QED
  BY <1>2, <1>3

\* WriteWard: nobody else holds the lock.
LEMMA WriteKeepsWards ==
  ASSUME WardInv, NEW h \in Handlers, WriteWard(h)
  PROVE WardInv'
<1> DEFINE r == req[h]
           late == r.late \cup (IF r.stale THEN {r.ward} ELSE {})
           v == [pc |-> "linking", guardian |-> r.guardian, id |-> r.id, todo |-> r.todo,
                 done |-> r.done \cup {r.ward}, late |-> late, spaced |-> r.spaced]
<1>1. UNCHANGED userVars /\ LinkSound(h) /\ req[h].pc = "writing" /\ r \in LinkRecords
  BY DEF WriteWard, WardInv, Transactions, LinkSound, Tying
<1>2. CASE r.ward \notin Enrolled
  <2>1. req' = [req EXCEPT ![h] = Free]
    BY <1>2 DEF WriteWard
  <2> QED
    BY <1>1, <2>1, WardFrame DEF WardInv, Requests, Free, Tying
<1>3. CASE r.ward \in Enrolled
  <2>1. req' = [req EXCEPT ![h] = v]
    BY <1>3 DEF WriteWard
  <2>2. req'[h] = v /\ (\A k \in Handlers : k # h => req'[k] = req[k])
    BY <2>1 DEF WardInv, Requests
  <2>3. v \in LinkRecords /\ r.ward \in Students
    BY <1>1 DEF LinkRecords
  <2>4. UNCHANGED <<identifier, guardian, matric>>
    BY <1>1 DEF userVars
  <2>5. \A s \in r.done \cup {r.ward} : s \in Enrolled /\ (s \in late \/ guardian[s] = None)
    BY <1>1, <1>3 DEF LinkSound, Tying
  <2>6. LinkSound(h)'
    BY <1>1, <2>2, <2>3, <2>4, <2>5 DEF LinkSound, Tying, Enrolled
  <2>7. \A k \in Handlers : k # h /\ req[k].pc \in Tying => r.ward \notin req[k].done
    BY DEF WriteWard, Locked, Linking, Tying
  <2>8. \A k \in Handlers : Apart(h, k)' /\ Apart(k, h)'
    BY <1>1, <2>2, <2>7 DEF WardInv, Transactions, Apart, Tying
  <2> HIDE DEF v
  <2> QED
    BY <1>1, <2>1, <2>6, <2>8, WardOneMoves
<1> QED
  BY <1>2, <1>3

\* Transactions that do not move stay apart: no two are about one student.
LEMMA ApartStays ==
  ASSUME WardInv, \A h \in Handlers : req'[h].pc \in Tying => req'[h] = req[h]
  PROVE \A h, k \in Handlers : Apart(h, k)'
BY DEF WardInv, Transactions, Apart

\* A student comes in whom no guardian and no transaction knows.
LEMMA EnrollKeepsWards ==
  ASSUME WardInv, NEW s \in Students, NEW number, Enroll(s, number),
         UNCHANGED <<wards, spaced, guardian, contested>>, Requests',
         \A h \in Handlers : req'[h].pc \in Tying => req'[h] = req[h]
  PROVE WardInv'
<1>1. /\ identifier[s] = NoRow /\ guardian[s] = None
      /\ identifier' = [identifier EXCEPT ![s] = number] /\ matric' = [matric EXCEPT ![s] = number]
      /\ \A g \in Guardians : s \notin wards[g] \cup spaced[g]
  BY DEF Enroll, WardInv, AbsentHaveNothing
<1>2. /\ \A g \in Guardians : identifier'[g] = identifier[g]
      /\ \A r \in Students : r # s => identifier'[r] = identifier[r] /\ matric'[r] = matric[r]
      /\ identifier'[s] = number /\ matric'[s] = number
  BY <1>1, PeopleAssumption DEF WardInv, UserTypes, Users
<1>3. UserTypes'
  BY <1>1 DEF WardInv, UserTypes
<1>4. AbsentHaveNothing'
  BY <1>1, <1>2 DEF WardInv, AbsentHaveNothing
<1>5. ASSUME NEW h \in Handlers
      PROVE LinkSound(h)'
  <2>1. CASE req'[h].pc \notin Tying
    BY <2>1 DEF LinkSound
  <2>2. CASE req'[h].pc \in Tying
    <3>1. req'[h] = req[h] /\ req[h].pc \in Tying /\ LinkSound(h)
      BY <2>2 DEF WardInv, Transactions
    <3>2. /\ req[h] \in LinkRecords /\ identifier[req[h].guardian] = NoRow
          /\ \A r \in req[h].done : r \in Enrolled
      BY <3>1 DEF LinkSound
    <3>3. req[h].guardian \in Guardians /\ None # req[h].guardian
      BY <3>2, PeopleAssumption DEF LinkRecords
    <3>4. s \notin req[h].done
      BY <3>1 DEF Enroll, Linking, Named, Tying
    <3>5. \A r \in req[h].done : r \in Enrolled'
      BY <1>2, <3>2, <3>4 DEF Enrolled
    <3> QED
      BY <1>2, <3>1, <3>2, <3>3, <3>5, LinkStays
  <2> QED
    BY <2>1, <2>2
<1>6. Transactions'
  BY <1>5, ApartStays DEF Transactions
<1>7. WardsAgree'
  BY <1>1, <1>2, PeopleAssumption DEF WardInv, WardsAgree, Enrolled
<1> QED
  BY <1>3, <1>4, <1>6, <1>7 DEF WardInv

\* Remove: a user goes whom no transaction has locked.
LEMMA RemoveKeepsWards ==
  ASSUME WardInv, NEW u \in Users, Remove(u)
  PROVE WardInv'
<1>1. /\ identifier[u] # NoRow /\ UNCHANGED req
      /\ identifier' = [identifier EXCEPT ![u] = NoRow]
      /\ matric' = [s \in Students |-> IF s = u THEN NoRow ELSE matric[s]]
      /\ guardian' = [s \in Students |-> IF s = u THEN None ELSE guardian[s]]
      /\ wards' = [g \in Guardians |-> IF g = u THEN {} ELSE wards[g]]
      /\ spaced' = [g \in Guardians |-> IF g = u THEN {} ELSE spaced[g]]
      /\ contested' = contested \ {u}
  BY DEF Remove
<1>2. identifier'[u] = NoRow /\ (\A w \in Users : w # u => identifier'[w] = identifier[w])
  BY <1>1 DEF WardInv, UserTypes
<1>3. UserTypes' /\ Requests'
  BY <1>1 DEF WardInv, UserTypes, Requests
<1>4. AbsentHaveNothing'
  BY <1>1, <1>2 DEF WardInv, AbsentHaveNothing, Users
<1>5. ASSUME NEW h \in Handlers
      PROVE LinkSound(h)'
  <2>1. CASE req[h].pc \notin Tying
    BY <1>1, <2>1 DEF LinkSound
  <2>2. CASE req[h].pc \in Tying
    <3>1. /\ LinkSound(h) /\ req[h] \in LinkRecords /\ identifier[req[h].guardian] = NoRow
          /\ \A r \in req[h].done : r \in Enrolled
      BY <2>2 DEF WardInv, Transactions, LinkSound
    <3>2. req[h].guardian \in Guardians /\ None # req[h].guardian
      BY <3>1, PeopleAssumption DEF LinkRecords
    <3>3. u \notin req[h].done
      BY <2>2 DEF Remove, Linking, Tying
    <3>4. \A r \in req[h].done : r \in Enrolled'
      BY <1>1, <3>1, <3>3 DEF Enrolled
    <3>5. identifier'[req[h].guardian] = NoRow
      BY <1>2, <3>1, <3>2 DEF Users
    <3>6. \A s \in Students : guardian'[s] \in {guardian[s], None}
      BY <1>1
    <3> QED
      BY <1>1, <3>1, <3>2, <3>4, <3>5, <3>6, LinkStays
  <2> QED
    BY <2>1, <2>2
<1>6. Transactions'
  BY <1>1, <1>5, ApartStays DEF Transactions
<1>7. WardsAgree'
  BY <1>1, <1>2 DEF WardInv, WardsAgree, Enrolled, Users
<1> QED
  BY <1>3, <1>4, <1>6, <1>7 DEF WardInv

\* CommitGuardian: the guardian and the wards become known together.  A ward was
\* free until now, or is contested from now on.
LEMMA CommitKeepsWards ==
  ASSUME WardInv, NEW h \in Handlers, CommitGuardian(h)
  PROVE WardInv'
<1> DEFINE r == req[h]
<1>1. /\ r.pc = "linking" /\ r \in LinkRecords /\ LinkSound(h)
      /\ identifier[r.guardian] = NoRow
      /\ \A s \in Students : guardian[s] # r.guardian
      /\ \A s \in r.done : s \in Enrolled /\ (s \in r.late \/ guardian[s] = None)
  BY DEF CommitGuardian, WardInv, Transactions, LinkSound, Tying
<1>2. r.guardian \in Guardians /\ r.id \in Customs \cup Guardians /\ r.done \subseteq Students
  BY <1>1 DEF LinkRecords
<1>3. /\ identifier' = [identifier EXCEPT ![r.guardian] = r.id]
      /\ wards' = [wards EXCEPT ![r.guardian] = r.done \ r.spaced]
      /\ spaced' = [spaced EXCEPT ![r.guardian] = r.done \cap r.spaced]
      /\ guardian' = [s \in Students |-> IF s \in r.done THEN r.guardian ELSE guardian[s]]
      /\ contested' = contested \cup r.late /\ matric' = matric
  BY DEF CommitGuardian
<1>4. /\ req'[h] = Free
      /\ \A k \in Handlers : k # h =>
           req'[k] = IF req[k].pc = "writing" /\ req[k].ward \in r.done THEN [req[k] EXCEPT !.stale = TRUE] ELSE req[k]
      /\ Requests'
  BY DEF CommitGuardian, Requests
<1> HIDE DEF r
<1>5. /\ identifier'[r.guardian] = r.id
      /\ \A u \in Users : u # r.guardian => identifier'[u] = identifier[u]
  BY <1>2, <1>3 DEF WardInv, UserTypes, Users
<1>6. /\ wards'[r.guardian] \cup spaced'[r.guardian] = r.done
      /\ \A g \in Guardians : g # r.guardian => wards'[g] = wards[g] /\ spaced'[g] = spaced[g]
  BY <1>2, <1>3 DEF WardInv, UserTypes
<1>7. UserTypes'
  BY <1>2, <1>3 DEF WardInv, UserTypes
<1>8. AbsentHaveNothing'
  <2>1. \A s \in Students : identifier'[s] = identifier[s]
    BY <1>2, <1>5, PeopleAssumption DEF Users
  <2>2. \A s \in r.done : identifier[s] # NoRow
    BY <1>1, <1>2 DEF WardInv, AbsentHaveNothing, Enrolled
  <2>3. r.id # NoRow
    BY <1>2, NamesAreRows
  <2>4. \A g \in Guardians : identifier'[g] = NoRow => wards'[g] = {} /\ spaced'[g] = {}
    BY <1>5, <1>6, <2>3 DEF WardInv, AbsentHaveNothing, Users
  <2> QED
    BY <1>3, <2>1, <2>2, <2>4 DEF WardInv, AbsentHaveNothing
<1>9. ASSUME NEW k \in Handlers, req'[k].pc \in Tying
      PROVE /\ k # h /\ req[k].pc \in Tying /\ req[k].pc = req'[k].pc
            /\ req'[k] \in LinkRecords /\ req[k] \in LinkRecords
            /\ req'[k].guardian = req[k].guardian /\ req'[k].done = req[k].done /\ req'[k].late = req[k].late
            /\ req[k].pc = "writing" => req'[k].ward = req[k].ward
            /\ req[k].pc = "writing" /\ ~req'[k].stale => ~req[k].stale /\ req[k].ward \notin r.done
  <2>1. k # h
    BY <1>4, <1>9 DEF Free, Tying
  <2>2. CASE req[k].pc = "writing" /\ req[k].ward \in r.done
    <3>1. req[k] \in LinkRecords
      BY <2>2 DEF WardInv, Transactions, LinkSound, Tying
    <3>2. req'[k] = [req[k] EXCEPT !.stale = TRUE]
      BY <1>4, <2>1, <2>2
    <3> QED
      BY <2>1, <2>2, <3>1, <3>2 DEF LinkRecords, Tying
  <2>3. CASE ~(req[k].pc = "writing" /\ req[k].ward \in r.done)
    <3>1. req'[k] = req[k]
      BY <1>4, <2>1, <2>3
    <3> QED
      BY <1>9, <2>1, <2>3, <3>1 DEF WardInv, Transactions, LinkSound
  <2> QED
    BY <2>2, <2>3
<1>10. ASSUME NEW k \in Handlers
       PROVE LinkSound(k)'
  <2> SUFFICES ASSUME req'[k].pc \in Tying
               PROVE LinkSound(k)'
    BY DEF LinkSound
  <2>1. LinkSound(k) /\ Apart(h, k) /\ k # h /\ req[k].pc \in Tying
    BY <1>9 DEF WardInv, Transactions
  <2>2. req[k].guardian # r.guardian /\ r.done \cap req[k].done = {}
    BY <1>1, <2>1 DEF Apart, Tying, r
  <2>3. req[k].guardian \in Guardians /\ req[k].done \subseteq Students /\ (req[k].pc = "writing" => req[k].ward \in Students)
    BY <1>9 DEF LinkRecords
  <2>4. identifier'[req'[k].guardian] = NoRow
    BY <1>5, <1>9, <2>1, <2>2, <2>3 DEF LinkSound, Users
  <2>5. \A s \in Students : guardian'[s] # req'[k].guardian
    BY <1>3, <1>9, <2>1, <2>2 DEF LinkSound
  <2>6. \A s \in req'[k].done : s \in Enrolled' /\ (s \in req'[k].late \/ guardian'[s] = None)
    BY <1>3, <1>9, <2>1, <2>2, <2>3 DEF LinkSound, Enrolled
  <2>7. req'[k].pc = "writing" /\ ~req'[k].stale => guardian'[req'[k].ward] = None
    BY <1>3, <1>9, <2>1, <2>3 DEF LinkSound
  <2> QED
    BY <1>9, <2>4, <2>5, <2>6, <2>7 DEF LinkSound
<1>11. ASSUME NEW k \in Handlers, NEW l \in Handlers
       PROVE Apart(k, l)'
  <2> SUFFICES ASSUME k # l, req'[k].pc \in Tying, req'[l].pc \in Tying
               PROVE req'[k].guardian # req'[l].guardian /\ req'[k].done \cap req'[l].done = {}
    BY DEF Apart
  <2>1. Apart(k, l)
    BY DEF WardInv, Transactions
  <2> QED
    BY <1>9, <2>1 DEF Apart
<1>12. WardsAgree'
  <2> SUFFICES ASSUME NEW s \in Enrolled' \ contested', NEW g \in Guardians, identifier'[g] # NoRow
               PROVE s \in wards'[g] \cup spaced'[g] <=> guardian'[s] = g
    BY DEF WardsAgree
  <2>1. s \in Students /\ s \in Enrolled \ contested /\ s \notin r.late
    BY <1>3 DEF Enrolled
  <2>2. CASE g = r.guardian
    BY <1>1, <1>3, <1>6, <2>1, <2>2 DEF r
  <2>3. CASE g # r.guardian
    <3>1. /\ wards'[g] = wards[g] /\ spaced'[g] = spaced[g]
          /\ (s \in wards[g] \cup spaced[g] <=> guardian[s] = g)
      BY <1>5, <1>6, <2>1, <2>3 DEF WardInv, WardsAgree, Users
    <3>2. s \in r.done => guardian[s] = None
      BY <1>1, <2>1 DEF r
    <3> QED
      BY <1>3, <2>1, <2>3, <3>1, <3>2, PeopleAssumption
  <2> QED
    BY <2>2, <2>3
<1> QED
  BY <1>4, <1>7, <1>8, <1>10, <1>11, <1>12 DEF WardInv, Transactions

\* InsertStudent and AdmitStudent.
LEMMA InsertKeepsWards ==
  ASSUME WardInv, NEW h \in Handlers, NEW s \in Students, InsertStudent(h, s)
  PROVE WardInv'
<1>1. req' = [req EXCEPT ![h] = Free] /\ UNCHANGED <<wards, spaced, guardian, contested>>
  BY DEF InsertStudent
<1>2. Requests' /\ (\A k \in Handlers : req'[k].pc \in Tying => req'[k] = req[k])
  BY <1>1 DEF WardInv, Requests, Free, Tying
<1>3. CASE UNCHANGED <<identifier, matric>>
  BY <1>1, <1>2, <1>3, WardFrame DEF userVars
<1>4. CASE Enroll(s, req[h].number)
  <2> DEFINE n == req[h].number
  <2>1. Enroll(s, n)
    BY <1>4
  <2> HIDE DEF n
  <2> QED
    BY <1>1, <1>2, <2>1, EnrollKeepsWards
<1> QED
  BY <1>3, <1>4 DEF InsertStudent

LEMMA AdmitKeepsWards ==
  ASSUME WardInv, NEW s \in Students, NEW number \in Customs, AdmitStudent(s, number)
  PROVE WardInv'
<1>1. Enroll(s, number) /\ UNCHANGED <<wards, spaced, guardian, contested, req>>
  BY DEF AdmitStudent
<1> QED
  BY <1>1, EnrollKeepsWards DEF WardInv, Requests

\* The requests that are not about departments.
Aside == Tying \cup {"numbered"}

\* They go on without those that are.
LEMMA DepartmentsApart ==
  ASSUME HeadInv, NEW h \in Handlers, DepartmentStep(h)
  PROVE Requests' /\ (\A k \in Handlers : req'[k].pc \in Aside => req'[k] = req[k])
<1>1. CASE \E t : FinishAbout(h, t)
  <2>1. PICK t : FinishAbout(h, t)
    BY <1>1
  <2>2. ASSUME NEW k \in Handlers, req'[k].pc \in Aside
        PROVE req'[k] = req[k]
    <3>1. k # h
      BY <2>1, <2>2 DEF FinishAbout, Free, Aside, Tying
    <3>2. CASE About(req[k], t)
      <4>1. req'[k] = [req[k] EXCEPT !.stale = TRUE]
        BY <2>1, <3>1, <3>2 DEF FinishAbout
      <4>2. req'[k].pc = req[k].pc
        BY <4>1
      <4> QED
        BY <2>2, <3>2, <4>2 DEF About, Aside, Tying
    <3>3. CASE ~About(req[k], t)
      BY <2>1, <3>1, <3>3 DEF FinishAbout
    <3> QED
      BY <3>2, <3>3
  <2> QED
    BY <2>1, <2>2 DEF FinishAbout, Requests
<1>2. CASE \E v : req' = [req EXCEPT ![h] = v] /\ v.pc \notin Aside
  BY <1>2 DEF HeadInv, Requests
<1>3. (\E t : FinishAbout(h, t)) \/ (\E v : req' = [req EXCEPT ![h] = v] /\ v.pc \notin Aside)
  <2>1. CASE WriteHead(h)
    BY <2>1 DEF WriteHead, Free, Aside, Tying
  <2>2. CASE WriteHome(h)
    BY <2>2 DEF WriteHome
  <2>3. CASE CompareProfile(h)
    <3>1. \/ req' = [req EXCEPT ![h] = [req[h] EXCEPT !.pc = "appointing"]]
          \/ req' = [req EXCEPT ![h] = Free]
      BY <2>3 DEF CompareProfile
    <3>2. req[h] \in [pc : Appointing, dept : DeptIds, new : BOOLEAN, teacher : Teachers, stale : BOOLEAN]
      BY <2>3 DEF CompareProfile, HeadInv, HeadSound, Appointing
    <3>3. [req[h] EXCEPT !.pc = "appointing"].pc = "appointing"
      BY <3>2
    <3> QED
      BY <3>1, <3>3 DEF Free, Aside, Tying
  <2>4. CASE \E d \in DeptIds, new \in BOOLEAN, t \in Teachers : AppointHead(h, d, new, t)
    <3>1. PICK d \in DeptIds, new \in BOOLEAN, t \in Teachers : AppointHead(h, d, new, t)
      BY <2>4
    <3> DEFINE v == [pc |-> "comparing", dept |-> d, new |-> new, teacher |-> t, stale |-> FALSE]
    <3>2. req' = [req EXCEPT ![h] = v] /\ v.pc \notin Aside
      BY <3>1 DEF AppointHead, Begin, Aside, Tying
    <3> HIDE DEF v
    <3> QED
      BY <3>2
  <2>5. CASE \E t \in Teachers, d \in DeptIds \cup {None} : MoveTeacher(h, t, d)
    <3>1. PICK t \in Teachers, d \in DeptIds \cup {None} : MoveTeacher(h, t, d)
      BY <2>5
    <3> DEFINE v == [pc |-> "moving", dept |-> d, teacher |-> t, stale |-> FALSE]
    <3>2. req' = [req EXCEPT ![h] = v] /\ v.pc \notin Aside
      BY <3>1 DEF MoveTeacher, Begin, Aside, Tying
    <3> HIDE DEF v
    <3> QED
      BY <3>2
  <2> QED
    BY <2>1, <2>2, <2>3, <2>4, <2>5 DEF DepartmentStep
<1> QED
  BY <1>1, <1>2, <1>3

\* The requests about departments are no transactions of guardians.
LEMMA DepartmentsKeepWards ==
  ASSUME HeadInv, WardInv, NEW h \in Handlers, DepartmentStep(h), UNCHANGED userVars
  PROVE WardInv'
BY DepartmentsApart, WardFrame DEF Aside

\* Every step of the component keeps the invariant of the wards.
LEMMA WardInvStep == HeadInv /\ WardInv /\ [PeopleNext]_vars => WardInv'
<1> SUFFICES ASSUME HeadInv, WardInv, [PeopleNext]_vars
             PROVE WardInv'
  OBVIOUS
<1>1. ASSUME NEW h \in Handlers, UserStep(h)
      PROVE WardInv'
  <2>1. CASE NumberStudent(h)
    <3> DEFINE v == [pc |-> "numbered", number |-> NextNumber(Matrics)]
    <3>1. req' = [req EXCEPT ![h] = v] /\ v.pc \notin Tying
      BY <2>1 DEF NumberStudent, Begin, Tying
    <3> HIDE DEF v
    <3>2. UNCHANGED userVars
      BY <2>1 DEF NumberStudent
    <3> QED
      BY <3>1, <3>2, WardFrame DEF WardInv, Requests
  <2>2. ASSUME NEW g \in Guardians, NEW id \in Customs \cup Guardians, NEW ws \in SUBSET Students,
               NEW sp \in SUBSET ws, CreateGuardian(h, g, id, ws, sp)
        PROVE WardInv'
    BY <2>2, CreateKeepsWards
  <2>3. CASE \E g \in Guardians, id \in Customs \cup Guardians, ws \in SUBSET Students : \E sp \in SUBSET ws :
               CreateGuardian(h, g, id, ws, sp)
    BY <2>2, <2>3
  <2>4. CASE \E s \in Students : InsertStudent(h, s) \/ ReadWard(h, s)
    BY <2>4, InsertKeepsWards, ReadKeepsWards
  <2>5. CASE WriteWard(h) \/ CommitGuardian(h)
    BY <2>5, WriteKeepsWards, CommitKeepsWards
  <2> QED
    BY ONLY <1>1, <2>1, <2>3, <2>4, <2>5 DEF UserStep
<1>2. ASSUME NEW h \in Handlers, Die(h)
      PROVE WardInv'
  <2>1. UNCHANGED userVars /\ req' = [req EXCEPT ![h] = Free]
    BY <1>2 DEF Die
  <2> QED
    BY <2>1, WardFrame DEF WardInv, Requests, Free, Tying
<1>3. ASSUME NEW h \in Handlers, DepartmentStep(h), UNCHANGED userVars
      PROVE WardInv'
  BY <1>3, DepartmentsKeepWards
<1>4. CASE \E s \in Students, number \in Customs : AdmitStudent(s, number)
  BY <1>4, AdmitKeepsWards
<1>5. CASE \E u \in Users : Remove(u)
  BY <1>5, RemoveKeepsWards
<1>6. CASE DepartmentWrite /\ UNCHANGED userVars
  <2>1. UNCHANGED <<userVars, req>>
    BY <1>6 DEF DepartmentWrite, CreateDepartment, DismissHead, DeleteDepartment
  <2> QED
    BY <2>1, WardFrame DEF WardInv, Requests
<1>7. CASE UNCHANGED vars
  <2>1. UNCHANGED <<userVars, req>>
    BY <1>7 DEF vars, userVars
  <2> QED
    BY <2>1, WardFrame DEF WardInv, Requests
<1> QED
  BY <1>1, <1>2, <1>3, <1>4, <1>5, <1>6, <1>7 DEF PeopleNext

\* linkParentToStudentWards and the cascades of remove: the list of a guardian
\* and the guardian of a student agree, unless creations for the student
\* overlapped.
THEOREM WardsAgreeHolds == PeopleSpec => []WardsAgree
<1>1. WardInv => WardsAgree
  BY DEF WardInv
<1> QED
  BY <1>1, HeadInvInit, HeadInvStep, WardInvInit, WardInvStep, PTL DEF PeopleSpec
--------------------------------------------------------------------------------
(***************************************************************************)
(* The numbers of students.                                                *)
(***************************************************************************)

MatricsRead ==
  /\ matric = [s \in Students |-> matric[s]]
  /\ \A s \in Students : matric[s] \in Numbers \cup {NoRow}
  /\ IsFiniteSet(Matrics)

NumbersRead == \A h \in Handlers : req[h].pc = "numbered" => req[h].number \in Numbers

\* The numbers in use are finitely many, so that there is a highest one.
NumbersInv == MatricsRead /\ NumbersRead

\* A set of naturals that is not empty has a least member.
LEMMA LeastNatural ==
  ASSUME NEW T \in SUBSET Nat, T # {}
  PROVE  \E n \in T : \A m \in T : n <= m
<1>1. \E n \in T : \A m \in T : ~(<<m, n>> \in OpToRel(<, Nat))
  BY NatLessThanWellFounded, WFMin
<1>2. PICK n \in T : \A m \in T : ~(<<m, n>> \in OpToRel(<, Nat))
  BY <1>1
<1>3. ASSUME NEW m \in T
      PROVE  n <= m
  <2>1. <<m, n>> \in Nat \X Nat /\ ~(<<m, n>> \in OpToRel(<, Nat))
    BY <1>2
  <2>2. ~(m < n)
    BY <2>1 DEF OpToRel
  <2> QED
    BY <2>2
<1> QED
  BY <1>3

LEMMA RankNatural == \A n \in Nat : Rank(n) \in Nat
<1> SUFFICES ASSUME NEW n \in Nat
             PROVE Rank(n) \in Nat
  OBVIOUS
<1>1. Base \in Nat /\ Wide \in Nat
  BY PeopleAssumption
<1>2. Base * n \in Nat
  BY <1>1
<1>3. 2 * Base * n = 2 * (Base * n)
  BY <1>1
<1> QED
  BY <1>1, <1>2, <1>3 DEF Rank

LEMMA PaddedIsNumber == \A n \in Nat : Padded(n) \in Numbers
BY RankNatural DEF Padded, Numbers

\* Numbers, finitely many, have a highest one: a smallest set without would have
\* one as soon as any member were taken out of it, and the higher of the two
\* would be the highest.
LEMMA TopExists ==
  ASSUME NEW T, T \subseteq Numbers, IsFiniteSet(T), T # {}
  PROVE \E n \in T : \A k \in T : k.place <= n.place
<1> DEFINE Topped(S) == \E n \in S : \A k \in S : k.place <= n.place
           Bad == {c \in Nat : \E S \in SUBSET T : S # {} /\ Cardinality(S) = c /\ ~Topped(S)}
<1>1. ASSUME Bad # {}
      PROVE FALSE
  <2>1. PICK c \in Bad : \A m \in Bad : c <= m
    BY <1>1, LeastNatural
  <2>2. PICK S \in SUBSET T : S # {} /\ Cardinality(S) = c /\ ~Topped(S)
    BY <2>1
  <2>3. PICK x \in S : TRUE
    BY <2>2
  <2>4. IsFiniteSet(S) /\ c \in Nat
    BY FS_Subset
  <2>5. IsFiniteSet(S \ {x}) /\ Cardinality(S \ {x}) = c - 1
    BY <2>2, <2>3, <2>4, FS_RemoveElement
  <2>6. Cardinality(S \ {x}) \in Nat
    BY <2>5, FS_CardinalityType
  <2>7. x.place \in Nat /\ (\A y \in S : y.place \in Nat)
    BY DEF Numbers
  <2>8. CASE S \ {x} = {}
    <3>1. \A k \in S : k = x
      BY <2>8
    <3> QED
      BY <2>2, <2>3, <2>7, <3>1
  <2>9. CASE S \ {x} # {}
    <3>1. Cardinality(S \ {x}) \notin Bad
      <4> HIDE DEF Bad
      <4> QED
        BY <2>1, <2>4, <2>5, <2>6
    <3>2. Topped(S \ {x})
      BY <2>6, <2>9, <3>1
    <3>3. PICK y \in S \ {x} : \A k \in S \ {x} : k.place <= y.place
      BY <3>2
    <3>4. CASE x.place <= y.place
      <4>1. \A k \in S : k.place <= y.place
        BY <3>3, <3>4
      <4> QED
        BY <2>2, <3>3, <4>1
    <3>5. CASE ~(x.place <= y.place)
      <4>1. \A k \in S : k.place <= x.place
        BY <2>7, <3>3, <3>5
      <4> QED
        BY <2>2, <2>3, <4>1
    <3> QED
      BY <3>4, <3>5
  <2> QED
    BY <2>8, <2>9
<1>2. Cardinality(T) \in Nat
  BY FS_CardinalityType
<1>3. Topped(T)
  BY <1>1, <1>2
<1> QED
  BY <1>3

\* The highest number in use is in use, and none is higher.
LEMMA LastIsHighest ==
  ASSUME NEW ns, ns \subseteq Numbers, IsFiniteSet(ns), ns # {}
  PROVE LastOf(ns) \in ns /\ (\A k \in ns : k.place <= LastOf(ns).place)
<1>1. \E n \in ns : \A k \in ns : k.place <= n.place
  BY TopExists
<1> QED
  BY <1>1 DEF LastOf

LEMMA NextIsNumber ==
  ASSUME MatricsRead
  PROVE NextNumber(Matrics) \in Numbers
<1>1. Matrics \subseteq Numbers /\ IsFiniteSet(Matrics)
  BY DEF MatricsRead, Matrics, Enrolled
<1>2. CASE Matrics = {}
  BY <1>2, PaddedIsNumber DEF NextNumber
<1>3. CASE Matrics # {} /\ LastOf(Matrics).read = NaN
  BY <1>3, PeopleAssumption DEF NextNumber
<1>4. CASE Matrics # {} /\ LastOf(Matrics).read # NaN
  <2>1. LastOf(Matrics) \in Numbers
    BY <1>1, <1>4, LastIsHighest
  <2>2. LastOf(Matrics).read + 1 \in Nat
    BY <1>4, <2>1 DEF Numbers
  <2> QED
    BY <1>4, <2>2, PaddedIsNumber DEF NextNumber
<1> QED
  BY <1>2, <1>3, <1>4

\* A step that gives one student a number, or takes numbers away.
LEMMA MatricsChange ==
  ASSUME MatricsRead, NEW s, NEW n \in Numbers \cup {NoRow},
         matric' = [r \in Students |-> IF r = s THEN n ELSE matric[r]]
  PROVE MatricsRead'
<1>1. \A r \in Students : matric'[r] = IF r = s THEN n ELSE matric[r]
  OBVIOUS
<1>2. Matrics' \subseteq Matrics \cup {n}
  BY <1>1 DEF Matrics, Enrolled
<1>3. IsFiniteSet(Matrics \cup {n})
  BY FS_AddElement DEF MatricsRead
<1>4. IsFiniteSet(Matrics')
  BY <1>2, <1>3, FS_Subset
<1>5. \A r \in Students : matric'[r] \in Numbers \cup {NoRow}
  BY <1>1 DEF MatricsRead
<1>6. matric' = [r \in Students |-> matric'[r]]
  BY <1>1
<1> QED
  BY <1>4, <1>5, <1>6 DEF MatricsRead

LEMMA NumbersInvInit == PeopleInit => NumbersInv
<1> SUFFICES ASSUME PeopleInit
             PROVE NumbersInv
  OBVIOUS
<1>1. NumbersRead
  BY DEF PeopleInit, DepartmentsInit, Free, NumbersRead
<1>2. matric = [s \in Students |-> NoRow]
  BY DEF PeopleInit
<1>3. Matrics = {}
  BY <1>2 DEF Matrics, Enrolled
<1>4. IsFiniteSet(Matrics)
  BY <1>3, FS_EmptySet
<1> QED
  BY <1>1, <1>2, <1>4 DEF NumbersInv, MatricsRead

LEMMA NumbersInvStep == HeadInv /\ NumbersInv /\ [PeopleNext]_vars => NumbersInv'
<1> SUFFICES ASSUME HeadInv, NumbersInv, [PeopleNext]_vars
             PROVE NumbersInv'
  OBVIOUS
<1>0. Requests /\ matric = [s \in Students |-> matric[s]] /\ MatricsRead
  BY DEF HeadInv, NumbersInv, MatricsRead
<1>1. ASSUME UNCHANGED matric, \A k \in Handlers : req'[k].pc = "numbered" => req'[k] = req[k]
      PROVE NumbersInv'
  BY <1>1 DEF NumbersInv, NumbersRead, MatricsRead, Matrics, Enrolled
<1>2. ASSUME NEW h \in Handlers, NEW v, req' = [req EXCEPT ![h] = v],
             v.pc = "numbered" => v.number \in Numbers, MatricsRead'
      PROVE NumbersInv'
  <2>1. \A k \in Handlers : req'[k] = IF k = h THEN v ELSE req[k]
    BY <1>0, <1>2 DEF Requests
  <2> QED
    BY <1>2, <2>1 DEF NumbersInv, NumbersRead
<1>3. ASSUME UNCHANGED matric
      PROVE MatricsRead'
  BY <1>3, <1>0 DEF MatricsRead, Matrics, Enrolled
<1>4. ASSUME NEW h \in Handlers, UserStep(h)
      PROVE NumbersInv'
  <2>1. CASE NumberStudent(h)
    <3> DEFINE v == [pc |-> "numbered", number |-> NextNumber(Matrics)]
    <3>1. req' = [req EXCEPT ![h] = v] /\ v.number \in Numbers
      BY <1>0, <2>1, NextIsNumber DEF NumberStudent, Begin
    <3>2. UNCHANGED matric
      BY <2>1 DEF NumberStudent, userVars
    <3> HIDE DEF v
    <3> QED
      BY <1>2, <1>3, <3>1, <3>2
  <2>2. ASSUME NEW s \in Students, InsertStudent(h, s)
        PROVE NumbersInv'
    <3>1. req' = [req EXCEPT ![h] = Free] /\ req[h].number \in Numbers
      BY <2>2 DEF InsertStudent, NumbersInv, NumbersRead
    <3>2. \/ UNCHANGED matric
          \/ matric' = [matric EXCEPT ![s] = req[h].number]
      BY <2>2 DEF InsertStudent, Enroll
    <3>3. MatricsRead'
      <4>1. CASE matric' = [matric EXCEPT ![s] = req[h].number]
        <5>1. matric' = [r \in Students |-> IF r = s THEN req[h].number ELSE matric[r]]
          BY <1>0, <4>1
        <5> QED
          BY <1>0, <3>1, <5>1, MatricsChange
      <4> QED
        BY <1>3, <3>2, <4>1
    <3> QED
      BY <1>2, <3>1, <3>3 DEF Free
  <2>3. ASSUME NEW s \in Students, ReadWard(h, s)
        PROVE NumbersInv'
    <3>1. \A k \in Handlers : req'[k].pc = "numbered" => req'[k] = req[k]
      BY <1>0, <2>3 DEF ReadWard, Requests, Free
    <3> QED
      BY <1>1, <2>3, <3>1 DEF ReadWard, userVars
  <2>4. ASSUME NEW g \in Guardians, NEW id \in Customs \cup Guardians, NEW ws \in SUBSET Students,
               NEW sp \in SUBSET ws, CreateGuardian(h, g, id, ws, sp)
        PROVE NumbersInv'
    <3>1. \A k \in Handlers : req'[k].pc = "numbered" => req'[k] = req[k]
      BY <1>0, <2>4 DEF CreateGuardian, Begin, Requests
    <3> QED
      BY <1>1, <2>4, <3>1 DEF CreateGuardian, userVars
  <2>5. CASE WriteWard(h)
    <3>1. \A k \in Handlers : req'[k].pc = "numbered" => req'[k] = req[k]
      BY <1>0, <2>5 DEF WriteWard, Requests, Free
    <3> QED
      BY <1>1, <2>5, <3>1 DEF WriteWard, userVars
  <2>6. CASE CommitGuardian(h)
    <3>1. ASSUME NEW k \in Handlers, req'[k].pc = "numbered"
          PROVE req'[k] = req[k]
      <4>1. CASE k = h
        BY <2>6, <3>1, <4>1 DEF CommitGuardian, Free
      <4>2. CASE k # h /\ req[k].pc = "writing" /\ req[k].ward \in req[h].done
        <5>1. req'[k] = [req[k] EXCEPT !.stale = TRUE]
          BY <2>6, <4>2 DEF CommitGuardian
        <5>2. req'[k].pc = req[k].pc
          BY <5>1
        <5> QED
          BY <3>1, <4>2, <5>2
      <4>3. CASE k # h /\ ~(req[k].pc = "writing" /\ req[k].ward \in req[h].done)
        BY <2>6, <4>3 DEF CommitGuardian
      <4> QED
        BY <4>1, <4>2, <4>3
    <3> QED
      BY <1>1, <2>6, <3>1 DEF CommitGuardian
  <2>7. CASE \E g \in Guardians, id \in Customs \cup Guardians, ws \in SUBSET Students : \E sp \in SUBSET ws :
               CreateGuardian(h, g, id, ws, sp)
    BY <2>4, <2>7
  <2>8. CASE \E s \in Students : InsertStudent(h, s) \/ ReadWard(h, s)
    BY <2>2, <2>3, <2>8
  <2> QED
    BY ONLY <1>4, <2>1, <2>5, <2>6, <2>7, <2>8 DEF UserStep
<1>5. ASSUME NEW h \in Handlers, Die(h)
      PROVE NumbersInv'
  <2>1. UNCHANGED matric /\ req' = [req EXCEPT ![h] = Free]
    BY <1>5 DEF Die, userVars
  <2> QED
    BY <1>2, <1>3, <2>1 DEF Free
<1>6. ASSUME NEW h \in Handlers, DepartmentStep(h), UNCHANGED userVars
      PROVE NumbersInv'
  BY <1>1, <1>6, DepartmentsApart DEF Aside, userVars
<1>7. ASSUME NEW s \in Students, NEW number \in Customs, AdmitStudent(s, number)
      PROVE NumbersInv'
  <2>2. number \in Numbers
    BY PeopleAssumption
  <2>3. matric' = [r \in Students |-> IF r = s THEN number ELSE matric[r]] /\ UNCHANGED req
    BY <1>0, <1>7 DEF AdmitStudent, Enroll
  <2>4. MatricsRead'
    BY <1>0, <2>2, <2>3, MatricsChange
  <2> QED
    BY <2>3, <2>4 DEF NumbersInv, NumbersRead
<1>8. ASSUME NEW u \in Users, Remove(u)
      PROVE NumbersInv'
  <2>1. matric' = [s \in Students |-> IF s = u THEN NoRow ELSE matric[s]] /\ UNCHANGED req
    BY <1>8 DEF Remove
  <2>2. MatricsRead'
    BY <1>0, <2>1, MatricsChange
  <2> QED
    BY <2>1, <2>2 DEF NumbersInv, NumbersRead
<1>9. CASE DepartmentWrite /\ UNCHANGED userVars
  <2>1. UNCHANGED <<matric, req>>
    BY <1>9 DEF DepartmentWrite, CreateDepartment, DismissHead, DeleteDepartment, userVars
  <2> QED
    BY <1>1, <2>1
<1>10. CASE UNCHANGED vars
  BY <1>1, <1>10 DEF vars
<1> QED
  BY <1>4, <1>5, <1>6, <1>7, <1>8, <1>9, <1>10 DEF PeopleNext

\* "Auto-generates when not provided": the number after the highest is free if the
\* highest is one of those that are made, and not the last of them, unless
\* somebody is known by one that is no student's matric number.  If it were taken
\* it would be a matric number, and higher than the highest.
THEOREM NumbersRunOnHolds == PeopleSpec => []NumbersRunOn
<1>1. NumbersInv => NumbersRunOn
  <2> SUFFICES ASSUME NumbersInv, NextNumber(Matrics) \in Taken,
                      ~\E u \in Users : identifier[u] \notin Matrics \cup {NoRow},
                      LastOf(Matrics) \in {Padded(k) : k \in 1..Wide - 2}
               PROVE FALSE
    BY DEF NumbersRunOn
  <2>1. Taken \subseteq Matrics
    BY DEF Taken
  <2>2. Matrics \subseteq Numbers /\ IsFiniteSet(Matrics) /\ Matrics # {}
    BY <2>1 DEF NumbersInv, MatricsRead, Matrics, Enrolled
  <2>3. \A k \in Matrics : k.place <= LastOf(Matrics).place
    BY <2>2, LastIsHighest
  <2>4. PICK n \in 1..Wide - 2 : LastOf(Matrics) = Padded(n)
    OBVIOUS
  <2>5. n \in Nat /\ n < Wide /\ n + 1 < Wide /\ n # NaN
    BY <2>4, PeopleAssumption
  <2>6. LastOf(Matrics).place = Rank(n) /\ LastOf(Matrics).read = n
    BY <2>4 DEF Padded
  <2>7. NextNumber(Matrics) = Padded(n + 1)
    BY <2>2, <2>5, <2>6 DEF NextNumber
  <2>8. Padded(n + 1) \in Matrics /\ Padded(n + 1).place = Rank(n + 1)
    BY <2>1, <2>7 DEF Padded
  <2>9. Rank(n + 1) <= Rank(n)
    BY <2>3, <2>6, <2>8
  <2>10. Rank(n + 1) = 2 * Base * (n + 1) /\ Rank(n) = 2 * Base * n
    BY <2>5 DEF Rank
  <2>11. 2 * Base * (n + 1) = 2 * Base * n + 2 * Base
    BY <2>5, PeopleAssumption
  <2>12. Base \in Nat /\ Base > 0 /\ 2 * Base * n \in Nat
    BY <2>5, <2>10, PeopleAssumption, RankNatural
  <2> QED
    BY <2>9, <2>10, <2>11, <2>12
<1> QED
  BY <1>1, HeadInvInit, HeadInvStep, NumbersInvInit, NumbersInvStep, PTL DEF PeopleSpec
================================================================================
