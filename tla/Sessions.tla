-------------------------------- MODULE Sessions --------------------------------
(***************************************************************************)
(* The refresh tokens of one account: login, rotation and logout           *)
(* (auth.service.ts) against suspension, reactivation, deletion and        *)
(* password changes (users.service.ts).                                    *)
(*                                                                         *)
(* work[h] is what request h still has to do after what it read.  The      *)
(* access tokens are stateless; that every guarded call reads the status   *)
(* of the account is part of the guards below.                             *)
(***************************************************************************)
EXTENDS Naturals

CONSTANTS
  Tokens,      \* rows of refresh_tokens, never used twice
  Unused,      \* a token that was not issued yet
  Spent,       \* a token whose row was deleted
  Handlers,    \* requests in flight at the same time
  MaxSecret,   \* bound: password changes
  MaxDeaths    \* bound: requests that die half way

ASSUME SessionsAssumption ==
  /\ MaxSecret \in Nat /\ MaxDeaths \in Nat
  /\ Unused # Spent
  /\ Unused \notin Tokens
  /\ {Unused, Spent} \cap [root : Tokens, secret : Nat, overlapped : BOOLEAN] = {}

VARIABLES
  status,    \* users.status, or GONE when the row is deleted
  secret,    \* how often the password was changed
  session,   \* the refresh tokens
  expired,   \* the tokens past expires_at
  work,      \* the requests in flight
  deaths     \* requests that died half way

vars == <<status, secret, session, expired, work, deaths>>

--------------------------------------------------------------------------------
\* A stored token: the login it descends from (named by its first token), the
\* password of that login, and whether the request that made it overlapped the
\* revocation of a suspension or of a password change.
Session == [root : Tokens, secret : Nat, overlapped : BOOLEAN]

NewLogin == Unused
Free == [pc |-> "free"]
Work ==
  {Free} \cup [pc : {"rotating", "purging"}, token : Tokens]
         \cup [pc : {"issuing"}, root : Tokens \cup {NewLogin}, secret : Nat,
               overlapped : BOOLEAN]
         \cup [pc : {"suspending", "revoking", "reactivating", "changing"}]

\* The type invariant of the component.
SessionsTypeOK ==
  /\ status \in {"ACTIVE", "SUSPENDED", "GONE"}
  /\ secret \in Nat
  /\ session \in [Tokens -> Session \cup {Unused, Spent}]
  /\ expired \subseteq Tokens
  /\ work \in [Handlers -> Work]
  /\ deaths \in Nat

Live == {t \in Tokens : session[t] \notin {Unused, Spent}}
Issuing == {h \in Handlers : work[h].pc = "issuing"}

--------------------------------------------------------------------------------
SessionsInit ==
  /\ status = "ACTIVE"
  /\ secret = 0
  /\ session = [t \in Tokens |-> Unused]
  /\ expired = {}
  /\ work = [h \in Handlers |-> Free]
  /\ deaths = 0

Begin(h, next) ==
  /\ work[h] = Free
  /\ work' = [work EXCEPT ![h] = next]
  /\ UNCHANGED <<status, secret, session, expired, deaths>>

Finish(h) == work' = [work EXCEPT ![h] = Free]

\* login reads an active account and compares the password with what it read.
Login(h) ==
  /\ status = "ACTIVE"
  /\ Begin(h, [pc |-> "issuing", root |-> NewLogin, secret |-> secret, overlapped |-> FALSE])

\* refreshTokens looks the token up together with its account.
Refresh(h, t) ==
  /\ t \in Live
  /\ IF t \in expired
     THEN Begin(h, [pc |-> "purging", token |-> t])
     ELSE /\ status = "ACTIVE"
          /\ Begin(h, [pc |-> "rotating", token |-> t])

\* The expired row is deleted, unless someone else already did.
Purge(h) ==
  /\ work[h].pc = "purging"
  /\ session' = [session EXCEPT ![work[h].token] = Spent]
  /\ Finish(h)
  /\ UNCHANGED <<status, secret, expired, deaths>>

\* Slip: deleteMany instead of delete, which does not mind a row that is gone.
RotateAnyway(h) ==
  /\ work[h].pc = "rotating"
  /\ LET t == work[h].token
         old == IF t \in Live THEN session[t] ELSE [root |-> t, secret |-> secret, overlapped |-> FALSE]
     IN  /\ session' = [session EXCEPT ![t] = Spent]
         /\ work' = [work EXCEPT ![h] = [pc |-> "issuing", root |-> old.root,
                                         secret |-> old.secret, overlapped |-> old.overlapped]]
  /\ UNCHANGED <<status, secret, expired, deaths>>

\* The rotation deletes the old row by id; P2025 ends a request whose token is
\* gone by now.
Rotate(h) ==
  /\ work[h].pc = "rotating"
  /\ LET t == work[h].token
     IN  IF t \in Live
         THEN /\ session' = [session EXCEPT ![t] = Spent]
              /\ work' = [work EXCEPT ![h] =
                   [pc |-> "issuing", root |-> session[t].root, secret |-> session[t].secret,
                    overlapped |-> session[t].overlapped]]
         ELSE Finish(h) /\ UNCHANGED session
  /\ UNCHANGED <<status, secret, expired, deaths>>

\* Slip: the foreign key of refresh_tokens is missing.
IssueToGone(h, t) ==
  /\ work[h].pc = "issuing"
  /\ session[t] = Unused
  /\ session' = [session EXCEPT ![t] =
       [root |-> IF work[h].root = NewLogin THEN t ELSE work[h].root,
        secret |-> work[h].secret, overlapped |-> work[h].overlapped]]
  /\ Finish(h)
  /\ UNCHANGED <<status, secret, expired, deaths>>

\* generateTokens inserts the new row; the foreign key refuses it when the
\* account was deleted.
Issue(h, t) ==
  /\ work[h].pc = "issuing"
  /\ session[t] = Unused
  /\ session' = IF status = "GONE" THEN session
                ELSE [session EXCEPT ![t] =
                        [root |-> IF work[h].root = NewLogin THEN t ELSE work[h].root,
                         secret |-> work[h].secret, overlapped |-> work[h].overlapped]]
  /\ Finish(h)
  /\ UNCHANGED <<status, secret, expired, deaths>>

\* One deleteMany, with an access token of the account.
Logout(t) ==
  /\ status = "ACTIVE"
  /\ t \in Live
  /\ session' = [session EXCEPT ![t] = Spent]
  /\ UNCHANGED <<status, secret, expired, work, deaths>>

\* deleteMany over the tokens of the account.  It does not see the tokens that
\* requests are about to insert; after a suspension or a password change these
\* are marked.
Revoked == [t \in Tokens |-> IF t \in Live THEN Spent ELSE session[t]]
Overlapped(h) == IF h \in Issuing THEN [work[h] EXCEPT !.overlapped = TRUE] ELSE work[h]

LogoutAllDevices ==
  /\ status = "ACTIVE"
  /\ Live # {}
  /\ session' = Revoked
  /\ UNCHANGED <<status, secret, expired, work, deaths>>

\* suspend, reactivate and the two password endpoints read the account ...
Suspend(h) == status = "ACTIVE" /\ Begin(h, [pc |-> "suspending"])
Reactivate(h) == status = "SUSPENDED" /\ Begin(h, [pc |-> "reactivating"])
ChangePassword(h) == status = "ACTIVE" /\ Begin(h, [pc |-> "changing"])
AdminResetPassword(h) == status # "GONE" /\ Begin(h, [pc |-> "changing"])

\* ... update it by id (P2025 if it is gone) ...
MarkSuspended(h) ==
  /\ work[h].pc = "suspending"
  /\ IF status = "GONE"
     THEN Finish(h) /\ UNCHANGED status
     ELSE status' = "SUSPENDED" /\ work' = [work EXCEPT ![h] = [pc |-> "revoking"]]
  /\ UNCHANGED <<secret, session, expired, deaths>>

MarkActive(h) ==
  /\ work[h].pc = "reactivating"
  /\ status' = IF status = "GONE" THEN status ELSE "ACTIVE"
  /\ Finish(h)
  /\ UNCHANGED <<secret, session, expired, deaths>>

StorePassword(h) ==
  /\ work[h].pc = "changing"
  /\ secret < MaxSecret
  /\ IF status = "GONE"
     THEN Finish(h) /\ UNCHANGED secret
     ELSE secret' = secret + 1 /\ work' = [work EXCEPT ![h] = [pc |-> "revoking"]]
  /\ UNCHANGED <<status, session, expired, deaths>>

\* Slip: the tokens of a suspended account stay.
RevokeUnlessSuspended(h) ==
  /\ work[h].pc = "revoking"
  /\ session' = IF status = "SUSPENDED" THEN session ELSE Revoked
  /\ work' = [g \in Handlers |-> IF g = h THEN Free ELSE Overlapped(g)]
  /\ UNCHANGED <<status, secret, expired, deaths>>

\* ... and revoke its tokens in a later statement.
Revoke(h) ==
  /\ work[h].pc = "revoking"
  /\ session' = Revoked
  /\ work' = [g \in Handlers |-> IF g = h THEN Free ELSE Overlapped(g)]
  /\ UNCHANGED <<status, secret, expired, deaths>>

\* remove deletes the account; its tokens go by cascade.
Remove ==
  /\ status # "GONE"
  /\ status' = "GONE"
  /\ session' = Revoked
  /\ UNCHANGED <<secret, expired, work, deaths>>

Expire(t) ==
  /\ t \in Live \ expired
  /\ expired' = expired \cup {t}
  /\ UNCHANGED <<status, secret, session, work, deaths>>

\* A request dies at an await: an error of PostgreSQL (two tokens of one
\* account signed in the same second are equal), or the end of the process.
Die(h) ==
  /\ work[h] # Free
  /\ deaths < MaxDeaths
  /\ deaths' = deaths + 1
  /\ Finish(h)
  /\ UNCHANGED <<status, secret, session, expired>>

SessionsNext ==
  \/ \E h \in Handlers :
       \/ Login(h)
       \/ \E t \in Tokens : Refresh(h, t) \/ Issue(h, t)
       \/ Purge(h) \/ Rotate(h)
       \/ Suspend(h) \/ Reactivate(h) \/ ChangePassword(h) \/ AdminResetPassword(h)
       \/ MarkSuspended(h) \/ MarkActive(h) \/ StorePassword(h) \/ Revoke(h)
       \/ Die(h)
  \/ \E t \in Tokens : Logout(t) \/ Expire(t)
  \/ LogoutAllDevices
  \/ Remove

SessionsSpec == SessionsInit /\ [][SessionsNext]_vars

--------------------------------------------------------------------------------
(***************************************************************************)
(* Properties                                                              *)
(***************************************************************************)

\* "delete the old token so it can never be used again": however refreshes
\* race, a login has at most one token at any time.
OneTokenPerLogin ==
  \A t, u \in Live : session[t].root = session[u].root => t = u

\* "Invalidate all their refresh tokens", "Please login again": a revocation
\* misses nothing but the requests it overlapped.  Once suspend or a password
\* change is through, every other token that lives belongs to an account that
\* is not suspended, and descends from a login with its password.
RevokedUnlessOverlapped ==
  (deaths = 0 /\ \A h \in Handlers : work[h].pc # "revoking") =>
    \A t \in Live : ~session[t].overlapped =>
      status # "SUSPENDED" /\ session[t].secret = secret

\* Deleting an account ends its sessions for good, those in the making too.
GoneHasNoSession == status = "GONE" => Live = {}

================================================================================
