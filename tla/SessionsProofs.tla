----------------------------- MODULE SessionsProofs -----------------------------
(***************************************************************************)
(* Proofs about Sessions, for any number of tokens and of overlapping      *)
(* requests.                                                               *)
(***************************************************************************)
EXTENDS Sessions, TLAPS

\* A request that is about to issue a token is the only heir of its login, and
\* no stored token descends from that login meanwhile.
OneHeirPerLogin ==
  /\ \A g, h \in Handlers :
       (work[g].pc = "issuing" /\ work[h].pc = "issuing"
          /\ work[g].root = work[h].root /\ work[g].root # NewLogin) => g = h
  /\ \A h \in Handlers, t \in Live :
       work[h].pc = "issuing" => session[t].root # work[h].root

\* A login is named by a token that was issued, and requests hold such tokens.
NamesAreTaken ==
  /\ \A t \in Live : session[session[t].root] # Unused
  /\ \A h \in Handlers :
       /\ work[h].pc = "issuing" /\ work[h].root # NewLogin => session[work[h].root] # Unused
       /\ work[h].pc \in {"rotating", "purging"} => session[work[h].token] # Unused

\* What is about to be issued is as current as what is stored.
IssuesCurrent ==
  (deaths = 0 /\ \A h \in Handlers : work[h].pc # "revoking") =>
    \A h \in Handlers : work[h].pc = "issuing" /\ ~work[h].overlapped =>
      status # "SUSPENDED" /\ work[h].secret = secret

Lineage == OneTokenPerLogin /\ OneHeirPerLogin /\ NamesAreTaken

\* The inductive invariant.
SessionsInv ==
  /\ SessionsTypeOK
  /\ Lineage
  /\ GoneHasNoSession
  /\ RevokedUnlessOverlapped /\ IssuesCurrent

--------------------------------------------------------------------------------
\* Every piece of work is done in a record with a pc.
LEMMA WorkKinds ==
  /\ Free \in Work
  /\ Free.pc = "free"
  /\ \A p \in {"suspending", "revoking", "reactivating", "changing"} : [pc |-> p] \in Work
  /\ \A p \in {"rotating", "purging"}, t \in Tokens : [pc |-> p, token |-> t] \in Work
  /\ \A r \in Tokens \cup {NewLogin}, s \in Nat, o \in BOOLEAN :
       [pc |-> "issuing", root |-> r, secret |-> s, overlapped |-> o] \in Work
BY DEF Work, Free

LEMMA WorkFields ==
  ASSUME NEW w \in Work
  PROVE  /\ w.pc \in {"rotating", "purging"} => w.token \in Tokens
         /\ w.pc = "issuing" =>
              /\ w \in [pc : {"issuing"}, root : Tokens \cup {NewLogin}, secret : Nat,
                         overlapped : BOOLEAN]
              /\ w.root \in Tokens \cup {NewLogin} /\ w.secret \in Nat /\ w.overlapped \in BOOLEAN
<1>1. CASE w = Free
  BY <1>1 DEF Free
<1>2. CASE w \in [pc : {"rotating", "purging"}, token : Tokens]
  BY <1>2
<1>3. CASE w \in [pc : {"issuing"}, root : Tokens \cup {NewLogin}, secret : Nat,
                  overlapped : BOOLEAN]
  BY <1>3
<1>4. CASE w \in [pc : {"suspending", "revoking", "reactivating", "changing"}]
  BY <1>4
<1> QED
  BY <1>1, <1>2, <1>3, <1>4 DEF Work

LEMMA Marking ==
  ASSUME NEW w \in [pc : {"issuing"}, root : Tokens \cup {NewLogin}, secret : Nat,
                    overlapped : BOOLEAN]
  PROVE  LET v == [w EXCEPT !.overlapped = TRUE]
         IN  v \in Work /\ v.pc = "issuing" /\ v.root = w.root /\ v.overlapped
<1>1. [w EXCEPT !.overlapped = TRUE] \in [pc : {"issuing"}, root : Tokens \cup {NewLogin},
                                         secret : Nat, overlapped : BOOLEAN]
  OBVIOUS
<1> QED
  BY <1>1 DEF Work

\* What is stored for a token, and what it means to live.
LEMMA SessionKinds ==
  ASSUME SessionsTypeOK
  PROVE  /\ Live \subseteq Tokens
         /\ \A t \in Live : /\ session[t] \in Session
                            /\ session[t].root \in Tokens /\ session[t].secret \in Nat
                            /\ session[t].overlapped \in BOOLEAN
         /\ \A t \in Tokens \ Live : session[t] \in {Unused, Spent}
         /\ Unused \notin Session /\ Spent \notin Session
         /\ Unused # Spent /\ NewLogin \notin Tokens
BY SessionsAssumption DEF SessionsTypeOK, Live, Session, NewLogin

\* Overlapped keeps everything of a request but its mark.
LEMMA OverlappedKeeps ==
  ASSUME SessionsTypeOK, NEW h \in Handlers
  PROVE  /\ Overlapped(h) \in Work
         /\ Overlapped(h).pc = work[h].pc
         /\ work[h].pc = "issuing" => /\ Overlapped(h).root = work[h].root
                                      /\ Overlapped(h).overlapped
         /\ work[h].pc # "issuing" => Overlapped(h) = work[h]
<1>1. work[h] \in Work
  BY DEF SessionsTypeOK
<1> QED
  BY <1>1, WorkFields, Marking DEF Overlapped, Issuing

LEMMA RevokedKinds ==
  ASSUME SessionsTypeOK
  PROVE  /\ Revoked \in [Tokens -> Session \cup {Unused, Spent}]
         /\ \A t \in Tokens : Revoked[t] \in {Unused, Spent}
         /\ \A t \in Tokens : Revoked[t] = session[t] \/ (session[t] # Unused /\ Revoked[t] = Spent)
BY DEF SessionsTypeOK, Revoked, Live

--------------------------------------------------------------------------------
\* Steps that only spend tokens and finish requests keep the lineage.
LEMMA SpendingKeepsLineage ==
  ASSUME SessionsTypeOK, SessionsTypeOK', Lineage,
         \A t \in Tokens : session'[t] = session[t] \/ (session[t] # Unused /\ session'[t] = Spent),
         \A h \in Handlers :
           /\ work'[h].pc = "issuing" => work[h].pc = "issuing" /\ work'[h].root = work[h].root
           /\ work'[h].pc \in {"rotating", "purging"} => session[work'[h].token] # Unused
  PROVE  Lineage'
<1>1. Live' \subseteq Live /\ \A t \in Live' : session'[t] = session[t]
  BY DEF Live
<1>2. \A t \in Tokens : session[t] # Unused => session'[t] # Unused
  BY SessionsAssumption
<1>3. \A h \in Handlers : work'[h] \in Work
  BY DEF SessionsTypeOK
<1>4. OneTokenPerLogin'
  BY <1>1 DEF Lineage, OneTokenPerLogin
<1>5. OneHeirPerLogin'
  BY <1>1 DEF Lineage, OneHeirPerLogin
<1>6. NamesAreTaken'
  <2>1. ASSUME NEW t \in Live' PROVE session'[session'[t].root] # Unused
    BY <1>1, <1>2, <2>1, SessionKinds DEF Lineage, NamesAreTaken
  <2>2. ASSUME NEW h \in Handlers, work'[h].pc = "issuing", work'[h].root # NewLogin
        PROVE  session'[work'[h].root] # Unused
    <3>1. work'[h].root \in Tokens
      BY <1>3, <2>2, WorkFields
    <3> QED
      BY <1>2, <2>2, <3>1 DEF Lineage, NamesAreTaken
  <2>3. ASSUME NEW h \in Handlers, work'[h].pc \in {"rotating", "purging"}
        PROVE  session'[work'[h].token] # Unused
    <3>1. work'[h].token \in Tokens
      BY <1>3, <2>3, WorkFields
    <3> QED
      BY <1>2, <2>3, <3>1
  <2> QED
    BY <2>1, <2>2, <2>3 DEF NamesAreTaken, NewLogin
<1> QED
  BY <1>4, <1>5, <1>6 DEF Lineage

LEMMA InitSessionsInv == SessionsInit => SessionsInv
<1> SUFFICES ASSUME SessionsInit PROVE SessionsInv
  OBVIOUS
<1>1. Live = {}
  BY DEF SessionsInit, Live
<1>2. \A h \in Handlers : work[h] = Free
  BY DEF SessionsInit
<1>3. SessionsTypeOK
  BY WorkKinds DEF SessionsInit, SessionsTypeOK
<1>4. Lineage
  BY <1>1, <1>2, WorkKinds DEF Lineage, OneTokenPerLogin, OneHeirPerLogin, NamesAreTaken
<1> QED
  BY <1>1, <1>2, <1>3, <1>4, WorkKinds
     DEF SessionsInv, GoneHasNoSession, RevokedUnlessOverlapped, IssuesCurrent

--------------------------------------------------------------------------------
\* Preservation of each part, one step per action.
LEMMA NextSessionsType ==
  ASSUME SessionsTypeOK, Lineage, [SessionsNext]_vars PROVE SessionsTypeOK'
<1> USE DEF SessionsTypeOK
<1>0. \A h \in Handlers : work[h] \in Work
  OBVIOUS
<1>1. CASE UNCHANGED vars
  BY <1>1 DEF vars
<1>2. ASSUME NEW h \in Handlers, Login(h) PROVE SessionsTypeOK'
  BY <1>2, WorkKinds DEF Login, Begin
<1>3. ASSUME NEW h \in Handlers, NEW t \in Tokens, Refresh(h, t) PROVE SessionsTypeOK'
  BY <1>3, WorkKinds DEF Refresh, Begin
<1>4. ASSUME NEW h \in Handlers, NEW t \in Tokens, Issue(h, t) PROVE SessionsTypeOK'
  <2>1. /\ work[h].root \in Tokens \cup {NewLogin} /\ work[h].secret \in Nat
        /\ work[h].overlapped \in BOOLEAN
    BY <1>0, <1>4, WorkFields DEF Issue
  <2>2. [root |-> IF work[h].root = NewLogin THEN t ELSE work[h].root,
         secret |-> work[h].secret, overlapped |-> work[h].overlapped] \in Session
    BY <2>1 DEF Session
  <2> QED
    BY <1>4, <2>2, WorkKinds DEF Issue, Finish
<1>5. ASSUME NEW h \in Handlers, Purge(h) PROVE SessionsTypeOK'
  BY <1>5, WorkKinds DEF Purge, Finish
<1>6. ASSUME NEW h \in Handlers, Rotate(h) PROVE SessionsTypeOK'
  <2>1. CASE work[h].token \in Live
    <3>1. [pc |-> "issuing", root |-> session[work[h].token].root,
           secret |-> session[work[h].token].secret,
           overlapped |-> session[work[h].token].overlapped] \in Work
      BY <2>1, SessionKinds, WorkKinds
    <3> QED
      BY <1>6, <2>1, <3>1 DEF Rotate
  <2>2. CASE work[h].token \notin Live
    BY <1>6, <2>2, WorkKinds DEF Rotate, Finish
  <2> QED
    BY <2>1, <2>2
<1>7. ASSUME NEW h \in Handlers,
             Suspend(h) \/ Reactivate(h) \/ ChangePassword(h) \/ AdminResetPassword(h)
      PROVE  SessionsTypeOK'
  BY <1>7, WorkKinds DEF Suspend, Reactivate, ChangePassword, AdminResetPassword, Begin
<1>8. ASSUME NEW h \in Handlers, MarkSuspended(h) PROVE SessionsTypeOK'
  BY <1>8, WorkKinds DEF MarkSuspended, Finish
<1>9. ASSUME NEW h \in Handlers, MarkActive(h) PROVE SessionsTypeOK'
  BY <1>9, WorkKinds DEF MarkActive, Finish
<1>10. ASSUME NEW h \in Handlers, StorePassword(h) PROVE SessionsTypeOK'
  BY <1>10, WorkKinds DEF StorePassword, Finish
<1>11. ASSUME NEW h \in Handlers, Revoke(h) PROVE SessionsTypeOK'
  <2>1. work' \in [Handlers -> Work]
    BY <1>11, OverlappedKeeps, WorkKinds DEF Revoke
  <2> QED
    BY <1>11, <2>1, RevokedKinds DEF Revoke
<1>12. ASSUME NEW h \in Handlers, Die(h) PROVE SessionsTypeOK'
  BY <1>12, WorkKinds DEF Die, Finish
<1>13. ASSUME NEW t \in Tokens, Logout(t) \/ Expire(t) PROVE SessionsTypeOK'
  BY <1>13 DEF Logout, Expire
<1>14. CASE LogoutAllDevices \/ Remove
  BY <1>14, RevokedKinds DEF LogoutAllDevices, Remove
<1> QED
  BY <1>1, <1>2, <1>3, <1>4, <1>5, <1>6, <1>7, <1>8, <1>9, <1>10, <1>11, <1>12, <1>13, <1>14
     DEF SessionsNext

LEMMA NextLineage ==
  ASSUME SessionsTypeOK, SessionsTypeOK', Lineage, [SessionsNext]_vars PROVE Lineage'
<1>0. \A h \in Handlers : work[h] \in Work
  BY DEF SessionsTypeOK
<1>H. \A h \in Handlers : work[h].pc \in {"rotating", "purging"} =>
        work[h].token \in Tokens /\ session[work[h].token] # Unused
  BY <1>0, WorkFields DEF Lineage, NamesAreTaken
<1>W. work \in [Handlers -> Work] /\ session \in [Tokens -> Session \cup {Unused, Spent}]
  BY DEF SessionsTypeOK
<1>L. \A t \in Live : t \in Tokens /\ session[t] # Unused
  BY DEF Live
<1>1. CASE UNCHANGED vars
  BY <1>1, <1>H, SpendingKeepsLineage DEF vars
<1>2. ASSUME NEW h \in Handlers, Login(h) PROVE Lineage'
  <2>1. /\ session' = session /\ Live' = Live
        /\ work'[h].pc = "issuing" /\ work'[h].root = NewLogin
        /\ \A g \in Handlers : g = h \/ work'[g] = work[g]
    BY <1>2, <1>W DEF Login, Begin, Live
  <2>2. OneHeirPerLogin'
    BY <2>1, SessionKinds DEF Lineage, OneHeirPerLogin
  <2>3. NamesAreTaken' /\ OneTokenPerLogin'
    BY <2>1 DEF Lineage, NamesAreTaken, OneTokenPerLogin
  <2> QED
    BY <2>2, <2>3 DEF Lineage
<1>3. ASSUME NEW h \in Handlers, NEW t \in Tokens, Refresh(h, t) PROVE Lineage'
  <2>1. /\ session' = session /\ session[t] # Unused
        /\ work'[h].pc \in {"rotating", "purging"} /\ work'[h].token = t
        /\ \A g \in Handlers : g = h \/ work'[g] = work[g]
    BY <1>3, <1>W, <1>L DEF Refresh, Begin
  <2> QED
    BY <2>1, <1>H, SpendingKeepsLineage
<1>4. ASSUME NEW h \in Handlers, NEW t \in Tokens, Issue(h, t) PROVE Lineage'
  <2>1. /\ work'[h].pc = "free"
        /\ \A g \in Handlers : g = h \/ work'[g] = work[g]
    BY <1>4, <1>W, WorkKinds DEF Issue, Finish
  <2>2. CASE status = "GONE"
    BY <1>4, <2>1, <2>2, <1>H, SpendingKeepsLineage DEF Issue
  <2>3. CASE status # "GONE"
    <3> DEFINE r == IF work[h].root = NewLogin THEN t ELSE work[h].root
    <3>1. work[h].root \in Tokens \cup {NewLogin} /\ work[h].pc = "issuing"
      BY <1>4, <1>0, WorkFields DEF Issue
    <3>2. session'[t] = [root |-> r, secret |-> work[h].secret, overlapped |-> work[h].overlapped]
      BY <1>4, <2>3, <1>W DEF Issue
    <3>3. session'[t].root = r
      BY <3>2
    <3>4. session'[t] \in Session
      <4>1. work[h].secret \in Nat /\ work[h].overlapped \in BOOLEAN /\ r \in Tokens
        BY <3>1, <1>0, WorkFields
      <4> QED
        BY <3>2, <4>1 DEF Session
    <3>5. \A u \in Tokens : u # t => session'[u] = session[u]
      BY <1>4, <2>3, <1>W DEF Issue
    <3>6. session[t] = Unused /\ t \notin Live /\ session'[t] \notin {Unused, Spent}
      BY <1>4, <3>4, SessionKinds DEF Issue, Live
    <3>7. Live' = Live \cup {t}
      BY <3>5, <3>6 DEF Live
    <3>8. \A u \in Tokens : session[u] # Unused => session'[u] # Unused
      BY <3>5, <3>6
    <3>9. \A u \in Live : session[u].root # r
      BY <3>1, <3>6 DEF Lineage, OneHeirPerLogin, NamesAreTaken
    <3>10. \A g \in Handlers : work'[g].pc = "issuing" => work'[g].root # r
      <4> SUFFICES ASSUME NEW g \in Handlers, work'[g].pc = "issuing" PROVE work'[g].root # r
        OBVIOUS
      <4>1. g # h /\ work'[g] = work[g]
        BY <2>1
      <4>2. CASE work[h].root = NewLogin
        <5>1. r = t /\ t # NewLogin
          BY <4>2, SessionKinds
        <5> QED
          BY <4>1, <5>1, <3>6 DEF Lineage, NamesAreTaken
      <4>3. CASE work[h].root # NewLogin
        BY <4>1, <4>3, <3>1 DEF Lineage, OneHeirPerLogin
      <4> QED
        BY <4>2, <4>3
    <3>11. session'[r] # Unused
      BY <3>1, <3>6, <3>8 DEF Lineage, NamesAreTaken
    <3> HIDE DEF r
    <3>12. OneTokenPerLogin'
      BY <3>3, <3>5, <3>7, <3>9, SessionKinds DEF Lineage, OneTokenPerLogin
    <3>13. OneHeirPerLogin'
      BY <2>1, <3>3, <3>5, <3>7, <3>10, SessionKinds DEF Lineage, OneHeirPerLogin
    <3>14. NamesAreTaken'
      <4>1. ASSUME NEW u \in Live' PROVE session'[session'[u].root] # Unused
        <5>1. CASE u = t
          BY <5>1, <3>3, <3>11
        <5>2. CASE u # t
          BY <5>2, <3>5, <3>7, <3>8, SessionKinds DEF Lineage, NamesAreTaken
        <5> QED
          BY <5>1, <5>2
      <4>2. ASSUME NEW g \in Handlers, work'[g].pc = "issuing", work'[g].root # NewLogin
            PROVE  session'[work'[g].root] # Unused
        <5>1. work'[g] = work[g] /\ work[g].root \in Tokens
          BY <2>1, <4>2, <1>0, WorkFields
        <5> QED
          BY <5>1, <4>2, <3>8 DEF Lineage, NamesAreTaken
      <4>3. ASSUME NEW g \in Handlers, work'[g].pc \in {"rotating", "purging"}
            PROVE  session'[work'[g].token] # Unused
        BY <2>1, <4>3, <1>H, <3>8
      <4> QED
        BY <4>1, <4>2, <4>3 DEF NamesAreTaken, NewLogin
    <3> QED
      BY <3>12, <3>13, <3>14 DEF Lineage
  <2> QED
    BY <2>2, <2>3
<1>5. ASSUME NEW h \in Handlers, Purge(h) PROVE Lineage'
  <2>1. /\ work'[h].pc = "free"
        /\ \A g \in Handlers : g = h \/ work'[g] = work[g]
    BY <1>5, <1>W, WorkKinds DEF Purge, Finish
  <2>2. \A t \in Tokens : session'[t] = session[t] \/ (session[t] # Unused /\ session'[t] = Spent)
    BY <1>5, <1>W, <1>H DEF Purge
  <2> QED
    BY <2>1, <2>2, <1>H, SpendingKeepsLineage
<1>6. ASSUME NEW h \in Handlers, Rotate(h) PROVE Lineage'
  <2> DEFINE t == work[h].token
  <2>1. CASE t \notin Live
    <3>1. /\ work'[h].pc = "free" /\ session' = session
          /\ \A g \in Handlers : g = h \/ work'[g] = work[g]
      BY <1>6, <2>1, <1>W, WorkKinds DEF Rotate, Finish
    <3> QED
      BY <3>1, <1>H, SpendingKeepsLineage
  <2>2. CASE t \in Live
    <3>1. /\ work'[h].pc = "issuing" /\ work'[h].root = session[t].root
          /\ \A g \in Handlers : g = h \/ work'[g] = work[g]
      BY <1>6, <2>2, <1>W DEF Rotate
    <3>2. session'[t] = Spent /\ \A u \in Tokens : u # t => session'[u] = session[u]
      BY <1>6, <2>2, <1>W, <1>L DEF Rotate
    <3>3. Live' = Live \ {t} /\ t \in Tokens
      BY <3>2, <2>2 DEF Live
    <3>4. \A u \in Tokens : session[u] # Unused => session'[u] # Unused
      BY <3>2, SessionsAssumption
    <3>5. session[t].root \in Tokens /\ session[session[t].root] # Unused
      BY <2>2, SessionKinds DEF Lineage, NamesAreTaken
    <3>6. t \in Live
      BY <2>2
    <3> HIDE DEF t
    <3>7. OneTokenPerLogin'
      BY <3>2, <3>3 DEF Lineage, OneTokenPerLogin, Live
    <3>8. OneHeirPerLogin'
      <4>1. ASSUME NEW g \in Handlers, NEW u \in Live', work'[g].pc = "issuing"
            PROVE  session'[u].root # work'[g].root
        <5>1. u \in Live /\ u # t /\ session'[u] = session[u]
          BY <3>2, <3>3 DEF Live
        <5>2. CASE g = h
          BY <5>1, <5>2, <3>1, <3>6 DEF Lineage, OneTokenPerLogin
        <5>3. CASE g # h
          BY <5>1, <5>3, <3>1, <4>1 DEF Lineage, OneHeirPerLogin
        <5> QED
          BY <5>2, <5>3
      <4>2. ASSUME NEW g \in Handlers, NEW k \in Handlers,
                   work'[g].pc = "issuing", work'[k].pc = "issuing",
                   work'[g].root = work'[k].root, work'[g].root # NewLogin
            PROVE  g = k
        BY <4>2, <3>1, <3>6 DEF Lineage, OneHeirPerLogin
      <4> QED
        BY <4>1, <4>2 DEF OneHeirPerLogin, NewLogin
    <3>9. NamesAreTaken'
      <4>1. ASSUME NEW u \in Live' PROVE session'[session'[u].root] # Unused
        BY <3>2, <3>3, <3>4, SessionKinds DEF Lineage, NamesAreTaken
      <4>2. ASSUME NEW g \in Handlers, work'[g].pc = "issuing", work'[g].root # NewLogin
            PROVE  session'[work'[g].root] # Unused
        <5>1. CASE g = h
          BY <5>1, <3>1, <3>4, <3>5
        <5>2. CASE g # h
          <6>1. work'[g] = work[g] /\ work[g].root \in Tokens
            BY <5>2, <3>1, <4>2, <1>0, WorkFields
          <6> QED
            BY <6>1, <4>2, <3>4 DEF Lineage, NamesAreTaken
        <5> QED
          BY <5>1, <5>2
      <4>3. ASSUME NEW g \in Handlers, work'[g].pc \in {"rotating", "purging"}
            PROVE  session'[work'[g].token] # Unused
        BY <3>1, <4>3, <1>H, <3>4
      <4> QED
        BY <4>1, <4>2, <4>3 DEF NamesAreTaken, NewLogin
    <3> QED
      BY <3>7, <3>8, <3>9 DEF Lineage
  <2> QED
    BY <2>1, <2>2
<1>7. ASSUME NEW h \in Handlers,
             \/ Suspend(h) \/ Reactivate(h) \/ ChangePassword(h) \/ AdminResetPassword(h)
             \/ MarkSuspended(h) \/ MarkActive(h) \/ StorePassword(h) \/ Die(h)
      PROVE  Lineage'
  <2>1. /\ session' = session
        /\ work'[h].pc \in {"free", "suspending", "reactivating", "changing", "revoking"}
        /\ \A g \in Handlers : g = h \/ work'[g] = work[g]
    BY <1>7, <1>W, WorkKinds
       DEF Suspend, Reactivate, ChangePassword, AdminResetPassword, MarkSuspended, MarkActive,
           StorePassword, Die, Begin, Finish
  <2> QED
    BY <2>1, <1>H, SpendingKeepsLineage
<1>8. ASSUME NEW h \in Handlers, Revoke(h) PROVE Lineage'
  <2>1. \A g \in Handlers : work'[g] = IF g = h THEN Free ELSE Overlapped(g)
    BY <1>8 DEF Revoke
  <2>2. \A g \in Handlers :
          /\ work'[g].pc = "issuing" => work[g].pc = "issuing" /\ work'[g].root = work[g].root
          /\ work'[g].pc \in {"rotating", "purging"} => session[work'[g].token] # Unused
    BY <2>1, <1>H, OverlappedKeeps, WorkKinds
  <2>3. \A t \in Tokens : session'[t] = session[t] \/ (session[t] # Unused /\ session'[t] = Spent)
    BY <1>8, RevokedKinds DEF Revoke
  <2> QED
    BY <2>2, <2>3, SpendingKeepsLineage
<1>9. ASSUME NEW t \in Tokens, Logout(t) \/ Expire(t) PROVE Lineage'
  <2>1. work' = work /\ \A u \in Tokens :
          session'[u] = session[u] \/ (session[u] # Unused /\ session'[u] = Spent)
    BY <1>9, <1>W, <1>L DEF Logout, Expire
  <2> QED
    BY <2>1, <1>H, SpendingKeepsLineage
<1>10. CASE LogoutAllDevices \/ Remove
  <2>1. work' = work /\ session' = Revoked
    BY <1>10 DEF LogoutAllDevices, Remove
  <2> QED
    BY <2>1, <1>H, RevokedKinds, SpendingKeepsLineage
<1> QED
  BY <1>1, <1>2, <1>3, <1>4, <1>5, <1>6, <1>7, <1>8, <1>9, <1>10 DEF SessionsNext

\* No step brings back an account that is gone, and no token is
\* stored for an account that is gone.
LEMMA NextGone ==
  ASSUME SessionsTypeOK, GoneHasNoSession, [SessionsNext]_vars PROVE GoneHasNoSession'
<1>1. CASE session' = session /\ (status' = "GONE" => status = "GONE")
  BY <1>1 DEF GoneHasNoSession, Live
<1>2. ASSUME NEW h \in Handlers, NEW t \in Tokens, Issue(h, t) PROVE GoneHasNoSession'
  BY <1>2 DEF Issue, GoneHasNoSession, Live
<1>3. ASSUME NEW h \in Handlers, Purge(h) \/ Rotate(h) \/ Revoke(h) PROVE GoneHasNoSession'
  <2>1. status' = status /\ Live' \subseteq Live
    BY <1>3, RevokedKinds DEF Purge, Rotate, Revoke, Live, SessionsTypeOK
  <2> QED
    BY <2>1 DEF GoneHasNoSession
<1>4. CASE LogoutAllDevices \/ Remove
  <2>1. Live' = {}
    BY <1>4, RevokedKinds DEF LogoutAllDevices, Remove, Live
  <2> QED
    BY <2>1 DEF GoneHasNoSession
<1>5. ASSUME NEW t \in Tokens, Logout(t) PROVE GoneHasNoSession'
  BY <1>5 DEF Logout, GoneHasNoSession
<1>6. ASSUME NEW h \in Handlers,
             \/ Login(h) \/ (\E t \in Tokens : Refresh(h, t))
             \/ Suspend(h) \/ Reactivate(h) \/ ChangePassword(h) \/ AdminResetPassword(h)
             \/ MarkSuspended(h) \/ MarkActive(h) \/ StorePassword(h) \/ Die(h)
      PROVE  GoneHasNoSession'
  BY <1>1, <1>6 DEF Login, Refresh, Begin, Suspend, Reactivate, ChangePassword,
       AdminResetPassword, MarkSuspended, MarkActive, StorePassword, Die
<1> QED
  BY <1>1, <1>2, <1>3, <1>4, <1>5, <1>6 DEF SessionsNext, vars, Expire

\* Steps that issue nothing, store nothing and change neither the password nor
\* the suspension leave everything as current as it was.
LEMMA QuietKeepsCurrent ==
  ASSUME SessionsTypeOK, RevokedUnlessOverlapped, IssuesCurrent,
         secret' = secret, deaths' = deaths,
         status' = "SUSPENDED" => status = "SUSPENDED",
         \A t \in Live' : t \in Live /\ session'[t] = session[t],
         \A h \in Handlers :
           /\ work'[h].pc = "issuing" => work'[h] = work[h]
           /\ work[h].pc = "revoking" => work'[h].pc = "revoking"
  PROVE  RevokedUnlessOverlapped' /\ IssuesCurrent'
<1>1. (deaths = 0 /\ \A h \in Handlers : work[h].pc # "revoking")' =>
        (deaths = 0 /\ \A h \in Handlers : work[h].pc # "revoking")
  OBVIOUS
<1>2. RevokedUnlessOverlapped'
  BY <1>1 DEF RevokedUnlessOverlapped
<1>3. IssuesCurrent'
  BY <1>1 DEF IssuesCurrent
<1> QED
  BY <1>2, <1>3

LEMMA NextCurrent ==
  ASSUME SessionsTypeOK, SessionsTypeOK', RevokedUnlessOverlapped, IssuesCurrent,
         [SessionsNext]_vars
  PROVE  RevokedUnlessOverlapped' /\ IssuesCurrent'
<1>W. work \in [Handlers -> Work] /\ session \in [Tokens -> Session \cup {Unused, Spent}]
  BY DEF SessionsTypeOK
<1>1. CASE UNCHANGED vars
  BY <1>1, QuietKeepsCurrent DEF vars, Live
<1>2. ASSUME NEW h \in Handlers, Login(h) PROVE RevokedUnlessOverlapped' /\ IssuesCurrent'
  <2>1. /\ UNCHANGED <<status, secret, session, deaths>> /\ status = "ACTIVE"
        /\ work[h].pc = "free" /\ work'[h].pc = "issuing" /\ work'[h].secret = secret
        /\ \A g \in Handlers : g = h \/ work'[g] = work[g]
    BY <1>2, <1>W, WorkKinds DEF Login, Begin
  <2>2. Live' = Live
    BY <2>1 DEF Live
  <2> QED
    BY <2>1, <2>2 DEF RevokedUnlessOverlapped, IssuesCurrent
<1>3. ASSUME NEW h \in Handlers,
             \/ (\E t \in Tokens : Refresh(h, t))
             \/ Suspend(h) \/ Reactivate(h) \/ ChangePassword(h) \/ AdminResetPassword(h)
             \/ MarkActive(h)
      PROVE  RevokedUnlessOverlapped' /\ IssuesCurrent'
  <2>1. /\ UNCHANGED <<secret, session, deaths>>
        /\ status' = "SUSPENDED" => status = "SUSPENDED"
        /\ work[h].pc # "revoking" /\ work'[h].pc # "issuing"
        /\ \A g \in Handlers : g = h \/ work'[g] = work[g]
    BY <1>3, <1>W, WorkKinds
       DEF Refresh, Suspend, Reactivate, ChangePassword, AdminResetPassword, MarkActive,
           Begin, Finish
  <2>2. Live' = Live
    BY <2>1 DEF Live
  <2> QED
    BY <2>1, <2>2, QuietKeepsCurrent
<1>4. ASSUME NEW h \in Handlers, NEW t \in Tokens, Issue(h, t)
      PROVE  RevokedUnlessOverlapped' /\ IssuesCurrent'
  <2>1. /\ UNCHANGED <<status, secret, deaths>>
        /\ work[h].pc = "issuing" /\ work'[h].pc = "free"
        /\ \A g \in Handlers : g = h \/ work'[g] = work[g]
    BY <1>4, <1>W, WorkKinds DEF Issue, Finish
  <2>2. CASE status = "GONE"
    BY <1>4, <2>1, <2>2, QuietKeepsCurrent DEF Issue, Live
  <2>3. CASE status # "GONE"
    <3>1. /\ session'[t].secret = work[h].secret /\ session'[t].overlapped = work[h].overlapped
          /\ \A u \in Tokens : u = t \/ session'[u] = session[u]
      BY <1>4, <2>3, <1>W DEF Issue
    <3>2. \A u \in Live' : u = t \/ (u \in Live /\ session'[u] = session[u])
      BY <3>1 DEF Live
    <3>3. IssuesCurrent'
      BY <2>1 DEF IssuesCurrent
    <3>4. RevokedUnlessOverlapped'
      BY <2>1, <3>1, <3>2 DEF RevokedUnlessOverlapped, IssuesCurrent
    <3> QED
      BY <3>3, <3>4
  <2> QED
    BY <2>2, <2>3
<1>5. ASSUME NEW h \in Handlers, Purge(h) PROVE RevokedUnlessOverlapped' /\ IssuesCurrent'
  <2>1. /\ UNCHANGED <<status, secret, deaths>>
        /\ work[h].pc = "purging" /\ work'[h].pc = "free"
        /\ \A g \in Handlers : g = h \/ work'[g] = work[g]
    BY <1>5, <1>W, WorkKinds DEF Purge, Finish
  <2>2. \A t \in Live' : t \in Live /\ session'[t] = session[t]
    BY <1>5, <1>W DEF Purge, Live
  <2> QED
    BY <2>1, <2>2, QuietKeepsCurrent
<1>6. ASSUME NEW h \in Handlers, Rotate(h) PROVE RevokedUnlessOverlapped' /\ IssuesCurrent'
  <2> DEFINE t == work[h].token
  <2>1. CASE t \notin Live
    <3>1. /\ UNCHANGED <<status, secret, session, deaths>>
          /\ work[h].pc = "rotating" /\ work'[h].pc = "free"
          /\ \A g \in Handlers : g = h \/ work'[g] = work[g]
      BY <1>6, <2>1, <1>W, WorkKinds DEF Rotate, Finish
    <3> QED
      BY <3>1, QuietKeepsCurrent DEF Live
  <2>2. CASE t \in Live
    <3>1. /\ UNCHANGED <<status, secret, deaths>>
          /\ work[h].pc = "rotating" /\ work'[h].pc = "issuing"
          /\ work'[h].secret = session[t].secret /\ work'[h].overlapped = session[t].overlapped
          /\ \A g \in Handlers : g = h \/ work'[g] = work[g]
      BY <1>6, <2>2, <1>W DEF Rotate
    <3>2. \A u \in Live' : u \in Live /\ session'[u] = session[u]
      BY <1>6, <2>2, <1>W DEF Rotate, Live
    <3>3. t \in Live
      BY <2>2
    <3> HIDE DEF t
    <3>4. RevokedUnlessOverlapped'
      BY <3>1, <3>2 DEF RevokedUnlessOverlapped
    <3>5. IssuesCurrent'
      BY <3>1, <3>3 DEF IssuesCurrent, RevokedUnlessOverlapped
    <3> QED
      BY <3>4, <3>5
  <2> QED
    BY <2>1, <2>2
<1>7. ASSUME NEW h \in Handlers, MarkSuspended(h) \/ StorePassword(h)
      PROVE  RevokedUnlessOverlapped' /\ IssuesCurrent'
  <2>1. CASE status = "GONE"
    <3>1. /\ UNCHANGED <<status, secret, session, deaths>>
          /\ work[h].pc # "revoking" /\ work'[h].pc = "free"
          /\ \A g \in Handlers : g = h \/ work'[g] = work[g]
      BY <1>7, <2>1, <1>W, WorkKinds DEF MarkSuspended, StorePassword, Finish
    <3> QED
      BY <3>1, QuietKeepsCurrent DEF Live
  <2>2. CASE status # "GONE"
    <3>1. work'[h].pc = "revoking"
      BY <1>7, <2>2, <1>W DEF MarkSuspended, StorePassword
    <3> QED
      BY <3>1 DEF RevokedUnlessOverlapped, IssuesCurrent
  <2> QED
    BY <2>1, <2>2
<1>8. ASSUME NEW h \in Handlers, Revoke(h) PROVE RevokedUnlessOverlapped' /\ IssuesCurrent'
  <2>1. Live' = {}
    BY <1>8, RevokedKinds DEF Revoke, Live
  <2>2. \A g \in Handlers : work'[g].pc = "issuing" => work'[g].overlapped
    BY <1>8, OverlappedKeeps, WorkKinds DEF Revoke
  <2> QED
    BY <2>1, <2>2 DEF RevokedUnlessOverlapped, IssuesCurrent
<1>9. ASSUME NEW h \in Handlers, Die(h) PROVE RevokedUnlessOverlapped' /\ IssuesCurrent'
  <2>1. deaths' # 0
    <3>1. deaths \in Nat /\ deaths' = deaths + 1
      BY <1>9 DEF Die, SessionsTypeOK
    <3> QED
      BY <3>1
  <2> QED
    BY <2>1 DEF RevokedUnlessOverlapped, IssuesCurrent
<1>10. ASSUME NEW t \in Tokens, Logout(t) \/ Expire(t)
       PROVE  RevokedUnlessOverlapped' /\ IssuesCurrent'
  <2>1. UNCHANGED <<status, secret, work, deaths>>
    BY <1>10 DEF Logout, Expire
  <2>2. \A u \in Live' : u \in Live /\ session'[u] = session[u]
    BY <1>10, <1>W DEF Logout, Expire, Live
  <2> QED
    BY <2>1, <2>2, QuietKeepsCurrent
<1>11. CASE LogoutAllDevices \/ Remove
  <2>1. Live' = {} /\ UNCHANGED <<secret, work, deaths>>
    BY <1>11, RevokedKinds DEF LogoutAllDevices, Remove, Live
  <2>2. status' = "SUSPENDED" => status = "SUSPENDED"
    BY <1>11 DEF LogoutAllDevices, Remove
  <2> QED
    BY <2>1, <2>2, QuietKeepsCurrent
<1> QED
  BY <1>1, <1>2, <1>3, <1>4, <1>5, <1>6, <1>7, <1>8, <1>9, <1>10, <1>11 DEF SessionsNext

LEMMA SessionsInvariant == SessionsSpec => []SessionsInv
<1>1. SessionsInv /\ [SessionsNext]_vars => SessionsInv'
  BY NextSessionsType, NextLineage, NextGone, NextCurrent DEF SessionsInv
<1> QED
  BY <1>1, InitSessionsInv, PTL DEF SessionsSpec

--------------------------------------------------------------------------------
\* The types of the component, for any number of tokens and requests.
THEOREM SessionsTypeCorrect == SessionsSpec => []SessionsTypeOK
<1>1. SessionsInv => SessionsTypeOK
  BY DEF SessionsInv
<1> QED
  BY <1>1, SessionsInvariant, PTL

\* The rotation in refreshTokens: a login never has two tokens, however many
\* refreshes with one token race.
THEOREM OneTokenPerLoginHolds == SessionsSpec => []OneTokenPerLogin
<1>1. SessionsInv => OneTokenPerLogin
  BY DEF SessionsInv, Lineage
<1> QED
  BY <1>1, SessionsInvariant, PTL

\* suspend, changePassword and adminResetPassword: what survives them is a
\* token whose request overlapped the revocation, or one of a later login.
THEOREM RevokedUnlessOverlappedHolds == SessionsSpec => []RevokedUnlessOverlapped
<1>1. SessionsInv => RevokedUnlessOverlapped
  BY DEF SessionsInv
<1> QED
  BY <1>1, SessionsInvariant, PTL

\* remove: no session of a deleted account, not even one that was in the making.
THEOREM GoneHasNoSessionHolds == SessionsSpec => []GoneHasNoSession
<1>1. SessionsInv => GoneHasNoSession
  BY DEF SessionsInv
<1> QED
  BY <1>1, SessionsInvariant, PTL

================================================================================
