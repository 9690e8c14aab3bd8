---------------------------- MODULE RefreshSessions ----------------------------
(***************************************************************************)
(* The sessions of one account: signing in, refreshing, signing out,       *)
(* changing or recovering the password, suspension, and the sign-in by     *)
(* phone, which goes through a browser and comes back with a code.         *)
(*                                                                         *)
(* Statements are the steps of requests.  A transaction keeps the rows it  *)
(* has locked, and its connection, until it ends; every other statement    *)
(* takes a connection of the pool for itself.  What a request waits for it *)
(* may wait for too long: connections have a timeout, and circles of locks *)
(* are broken by PostgreSQL.                                               *)
(*                                                                         *)
(* Signatures, hashes and mail are left out: a token is the name of its    *)
(* row.  A session that expired cannot be told from one that was revoked.  *)
(***************************************************************************)
EXTENDS Integers, FiniteSets, Relation

CONSTANTS
  Clients,     \* concurrent requests
  None,
  Pool,        \* DATABASE_POOL_MAX
  MaxSessions, \* bound: rows of refresh_sessions
  MaxTokens,   \* bound: rows of auth_action_tokens
  MaxVersion   \* bound on token_version

ASSUME SessionsAssumption ==
  /\ None \notin Clients /\ IsFiniteSet(Clients)
  /\ Pool \in Nat \ {0} /\ MaxSessions \in Nat /\ MaxTokens \in Nat /\ MaxVersion \in Nat

VARIABLES
  user,      \* users: token_version, and whether the status is active
  session,   \* refresh_sessions
  token,     \* auth_action_tokens, of password recoveries
  phone,     \* the row of phone_signin_states
  rowLock,   \* who has locked each session
  tokenLock, \* who has locked each recovery token
  userLock,  \* who has locked the account
  txn        \* the requests

vars == <<user, session, token, phone, rowLock, tokenLock, userLock, txn>>
locks == <<rowLock, tokenLock, userLock>>
rows == <<user, session, token, phone>>

-----------------------------------------------------------------------------
Sessions == 1..MaxSessions
Tokens == 1..MaxTokens
Versions == 0..MaxVersion

\* family: the session the chain of rotations began with.  version: the one
\* the token was signed for.
Session == [family: 0..MaxSessions, version: Versions, status: {"none", "live", "rotated", "over"}]
NoSession == [family |-> 0, version |-> 0, status |-> "none"]

Ops == {"login", "refresh", "logout", "change", "recover", "suspend", "callback", "handoff"}

\* row: the session or token it is about, or 0.  version, family: those of the
\* session it will insert.  hits: the sessions its UPDATE has found.
Txn == [op: Ops,
        at: {"idle", "read", "touch", "insert", "session", "account", "family",
             "revoke", "token", "sweep", "apply", "consume", "mark", "exchange"},
        row: Sessions \cup Tokens \cup {0}, family: 0..MaxSessions, version: Versions,
        hits: SUBSET Sessions, connected: BOOLEAN]
Idle == [op |-> "login", at |-> "idle", row |-> 0, family |-> 0, version |-> 0,
         hits |-> {}, connected |-> FALSE]

Init ==
  /\ user = [version |-> 0, active |-> TRUE]
  /\ session = [s \in Sessions |-> NoSession]
  /\ token = [t \in Tokens |-> "none"]
  /\ phone = "none"
  /\ rowLock = [s \in Sessions |-> None]
  /\ tokenLock = [t \in Tokens |-> None]
  /\ userLock = None
  /\ txn = [c \in Clients |-> Idle]

-----------------------------------------------------------------------------
(* Connections and locks *)

Free == Cardinality({c \in Clients : txn[c].connected}) < Pool

At(c, op, at) == txn[c].op \in op /\ txn[c].at = at

\* FOR UPDATE conflicts with the key-share lock of a foreign key; the lock of
\* an UPDATE does not.
Strong(c) == txn[c].op \in {"refresh", "suspend"}

OthersRows(c, set) == {rowLock[s] : s \in set} \ {None, c}

\* Variant: findSessionForUpdate() locks the session, not the account.
SessionOnly(c) ==
  CASE At(c, {"refresh"}, "session") -> OthersRows(c, {txn[c].row})
    [] txn[c].at = "account" /\ txn[c].op # "refresh" -> {d \in {userLock} \ {None} : txn[d].op # "refresh"}
    [] OTHER -> {}

\* Variant: it locks nothing.
NothingOfRefresh(c) ==
  IF txn[c].at = "account" /\ txn[c].op # "refresh" THEN {userLock} \ {None} ELSE {}

\* Whom the statement of c waits for.
Blockers(c) ==
  CASE At(c, {"refresh"}, "session") -> OthersRows(c, {txn[c].row})
    [] At(c, {"recover"}, "token") -> {tokenLock[txn[c].row]} \ {None}
    [] At(c, {"logout"}, "revoke") -> OthersRows(c, {txn[c].row})
    [] txn[c].at \in {"account", "touch"} -> {userLock} \ {None}
    [] txn[c].at = "insert" /\ txn[c].op # "refresh" -> {d \in {userLock} \ {None} : Strong(d)}
    [] txn[c].at = "apply" -> OthersRows(c, txn[c].hits)
    [] OTHER -> {}

Runs(c, op, at) == At(c, op, at) /\ txn[c].connected /\ Blockers(c) = {}

\* A statement outside a transaction gives its connection back.
Proceed(c, t) == txn' = [txn EXCEPT ![c] = t]
Query(c, t) == Proceed(c, [t EXCEPT !.connected = FALSE])

Unlocked(c) ==
  /\ rowLock' = [s \in Sessions |-> IF rowLock[s] = c THEN None ELSE rowLock[s]]
  /\ tokenLock' = [t \in Tokens |-> IF tokenLock[t] = c THEN None ELSE tokenLock[t]]
  /\ userLock' = IF userLock = c THEN None ELSE userLock

\* COMMIT or ROLLBACK, and what the request does next.
End(c, t) == Unlocked(c) /\ Query(c, t)
Rollback(c, t) == End(c, t) /\ UNCHANGED rows

Connect(c) ==
  /\ txn[c].at # "idle" /\ ~txn[c].connected /\ Free
  /\ Proceed(c, [txn[c] EXCEPT !.connected = TRUE])
  /\ UNCHANGED <<rows, locks>>

\* Bounds: a request begins only if there are rows, and versions, for all.
RowsLeft ==
  Cardinality({c \in Clients : txn[c].at # "idle"}) < Cardinality({s \in Sessions : session[s].status = "none"})

Raises(op) == op \in {"change", "recover", "suspend"}
VersionsLeft ==
  user.version + Cardinality({c \in Clients : txn[c].at # "idle" /\ Raises(txn[c].op)}) < MaxVersion

Begin(c, op, row, at) ==
  /\ txn[c].at = "idle" /\ RowsLeft
  /\ Raises(op) => VersionsLeft
  /\ Proceed(c, [Idle EXCEPT !.op = op, !.row = row, !.at = at])
  /\ UNCHANGED <<rows, locks>>

Requests(c) ==
  \/ \E s \in Sessions : session[s].status # "none" /\ Begin(c, "refresh", s, "session")
  \/ \E s \in Sessions : session[s].status # "none" /\ Begin(c, "logout", s, "revoke")
  \/ \E t \in Tokens : token[t] # "none" /\ Begin(c, "recover", t, "token")
  \/ Begin(c, "login", 0, "read")
  \/ Begin(c, "change", 0, "account")
  \/ Begin(c, "suspend", 0, "account")
  \/ phone # "none" /\ (Begin(c, "callback", 0, "consume") \/ Begin(c, "handoff", 0, "exchange"))

-----------------------------------------------------------------------------
(* Signing in *)

New(s) == session[s].status = "none" /\ \A r \in Sessions : r < s => session[r].status # "none"

\* family 0: a new family.
Inserted(c, s) ==
  [family |-> IF txn[c].family = 0 THEN s ELSE txn[c].family,
   version |-> txn[c].version, status |-> "live"]

\* login() and completePhoneHandoff(): the account, as it is now.
ReadAccount(c) ==
  /\ Runs(c, {"login", "handoff"}, "read")
  /\ Query(c, IF user.active THEN [txn[c] EXCEPT !.version = user.version, !.at = "touch"] ELSE Idle)
  /\ UNCHANGED <<rows, locks>>

TouchLastLogin(c) ==
  /\ Runs(c, {"login", "handoff"}, "touch")
  /\ Query(c, [txn[c] EXCEPT !.at = "insert"])
  /\ UNCHANGED <<rows, locks>>

\* createSession() outside a transaction.
CreateSession(c, s) ==
  /\ Runs(c, {"login", "handoff", "change"}, "insert")
  /\ New(s)
  /\ session' = [session EXCEPT ![s] = Inserted(c, s)]
  /\ Query(c, Idle)
  /\ UNCHANGED <<user, token, phone, locks>>

-----------------------------------------------------------------------------
(* refresh() *)

LockSession(c) ==
  LET s == txn[c].row
  IN /\ Runs(c, {"refresh"}, "session")
     /\ rowLock' = [rowLock EXCEPT ![s] = c]
     /\ Proceed(c, [txn[c] EXCEPT !.at = "account"])
     /\ UNCHANGED <<rows, tokenLock, userLock>>

\* RefreshFamilyCompromised: roll back, then revoke the family.
Compromised(c) ==
  Rollback(c, [Idle EXCEPT !.op = "refresh", !.at = "family", !.row = txn[c].row])

CheckSession(c) ==
  LET s == session[txn[c].row]
  IN /\ Runs(c, {"refresh"}, "account")
     /\ IF s.status = "over" THEN Rollback(c, Idle)
        ELSE IF s.status = "rotated" \/ user.version # s.version THEN Compromised(c)
        ELSE /\ userLock' = c
             /\ Proceed(c, [txn[c] EXCEPT !.at = "read", !.family = s.family, !.version = s.version])
             /\ UNCHANGED <<rows, rowLock, tokenLock>>

\* findActiveAccountById() is not given the transaction: it needs a connection
\* beside the one the request has.
ReadAgain(c) ==
  /\ Runs(c, {"refresh"}, "read") /\ Free
  /\ IF user.active /\ user.version = txn[c].version
     THEN /\ Proceed(c, [txn[c] EXCEPT !.at = "insert"])
          /\ UNCHANGED <<rows, locks>>
     ELSE Compromised(c)

Rotate(c, s) ==
  /\ Runs(c, {"refresh"}, "insert")
  /\ New(s)
  /\ session' = [session EXCEPT ![txn[c].row].status = IF @ = "live" THEN "rotated" ELSE @,
                                ![s] = Inserted(c, s)]
  /\ End(c, Idle)
  /\ UNCHANGED <<user, token, phone>>

\* revokeFamily(): an UPDATE finds its rows when it begins and waits for them.
FindFamily(c) ==
  /\ Runs(c, {"refresh"}, "family")
  /\ Proceed(c, [txn[c] EXCEPT !.at = "apply",
       !.hits = {s \in Sessions : /\ session[s].family = session[txn[c].row].family
                                  /\ session[s].status \in {"live", "rotated"}}])
  /\ UNCHANGED <<rows, locks>>

Over(set) == [s \in Sessions |-> IF s \in set THEN [session[s] EXCEPT !.status = "over"] ELSE session[s]]

RevokeFamily(c) ==
  /\ Runs(c, {"refresh"}, "apply")
  /\ session' = Over(txn[c].hits)
  /\ Query(c, Idle)
  /\ UNCHANGED <<user, token, phone, locks>>

\* logout()
RevokeSession(c) ==
  /\ Runs(c, {"logout"}, "revoke")
  /\ session' = Over({txn[c].row})
  /\ Query(c, Idle)
  /\ UNCHANGED <<user, token, phone, locks>>

-----------------------------------------------------------------------------
(* What ends every session: updatePassword(), completePasswordRecovery() and *)
(* setStatus()                                                               *)

LockToken(c) ==
  LET t == txn[c].row
  IN /\ Runs(c, {"recover"}, "token")
     /\ IF token[t] # "live" THEN Rollback(c, Idle)
        ELSE /\ tokenLock' = [tokenLock EXCEPT ![t] = c]
             /\ Proceed(c, [txn[c] EXCEPT !.at = "account"])
             /\ UNCHANGED <<rows, rowLock, userLock>>

UpdateAccount(c) ==
  /\ Runs(c, {"change", "recover", "suspend"}, "account")
  /\ IF ~user.active /\ txn[c].op # "suspend" THEN Rollback(c, Idle)
     ELSE /\ userLock' = c
          /\ Proceed(c, [txn[c] EXCEPT !.at = "sweep", !.version = user.version + 1])
          /\ UNCHANGED <<rows, rowLock, tokenLock>>

FindSessions(c) ==
  /\ Runs(c, {"change", "recover", "suspend"}, "sweep")
  /\ Proceed(c, [txn[c] EXCEPT !.at = "apply",
       !.hits = {s \in Sessions : session[s].status \in {"live", "rotated"}}])
  /\ UNCHANGED <<rows, locks>>

\* The UPDATE of the sessions, that of the tokens, and the COMMIT.  Who changed
\* the password gets a new session.
RevokeAll(c) ==
  /\ Runs(c, {"change", "recover", "suspend"}, "apply")
  /\ session' = Over(txn[c].hits)
  /\ user' = [version |-> txn[c].version, active |-> txn[c].op # "suspend"]
  /\ token' = [t \in Tokens |-> IF txn[c].op = "recover" /\ token[t] = "live" THEN "used" ELSE token[t]]
  /\ End(c, IF txn[c].op = "change"
            THEN [Idle EXCEPT !.op = "change", !.at = "insert", !.version = txn[c].version] ELSE Idle)
  /\ UNCHANGED phone

-----------------------------------------------------------------------------
(* Sign-in by phone *)

\* Variant: a callback may be repeated.
ConsumableAgain == phone \in {"pending", "failed"}

Consumable == phone = "pending"

ConsumePending(c) ==
  /\ Runs(c, {"callback"}, "consume")
  /\ IF Consumable THEN phone' = "failed" /\ Query(c, [txn[c] EXCEPT !.at = "mark"])
     ELSE UNCHANGED phone /\ Query(c, Idle)
  /\ UNCHANGED <<user, session, token, locks>>

\* The network said yes, and the account exists.
MarkCompleted(c) ==
  /\ Runs(c, {"callback"}, "mark")
  /\ phone' = "completed"
  /\ Query(c, Idle)
  /\ UNCHANGED <<user, session, token, locks>>

ConsumeHandoff(c) ==
  /\ Runs(c, {"handoff"}, "exchange")
  /\ IF phone = "completed" THEN phone' = "consumed" /\ Query(c, [txn[c] EXCEPT !.at = "read"])
     ELSE UNCHANGED phone /\ Query(c, Idle)
  /\ UNCHANGED <<user, session, token, locks>>

-----------------------------------------------------------------------------
(* What is one step *)

\* requestPasswordRecovery(), one at a time: older tokens are used up.
Superseded(t) == IF token[t] = "live" THEN "used" ELSE token[t]

RequestRecovery(t) ==
  /\ token[t] = "none" /\ user.active
  /\ \A o \in Tokens : token[o] = "live" => tokenLock[o] = None
  /\ token' = [o \in Tokens |-> IF o = t THEN "live" ELSE Superseded(o)]
  /\ UNCHANGED <<user, session, phone, locks, txn>>

StartPhone ==
  /\ phone = "none" /\ phone' = "pending"
  /\ UNCHANGED <<user, session, token, locks, txn>>

\* expires_at passes, of a session or of a recovery token.
ExpireSession(s) ==
  /\ session[s].status \in {"live", "rotated"}
  /\ session' = Over({s})
  /\ UNCHANGED <<user, token, phone, locks, txn>>

ExpireToken(t) ==
  /\ token[t] = "live"
  /\ token' = [token EXCEPT ![t] = "used"]
  /\ UNCHANGED <<user, session, phone, locks, txn>>

Reinstate ==
  /\ ~user.active /\ userLock = None
  /\ user' = [user EXCEPT !.active = TRUE]
  /\ UNCHANGED <<session, token, phone, locks, txn>>

-----------------------------------------------------------------------------
(* Waiting too long *)

WaitsForPool(c) ==
  /\ txn[c].at # "idle" /\ ~Free
  /\ ~txn[c].connected \/ At(c, {"refresh"}, "read")

\* connectionTimeoutMillis; a failing handler leaves its row as it is.
TimesOut(c) == WaitsForPool(c) /\ Rollback(c, Idle)

WaitsFor == [p \in Clients \X Clients |-> txn[p[1]].connected /\ p[2] \in Blockers(p[1])]
Deadlocked(c) == TransitiveClosure(WaitsFor, Clients)[c, c]
BreakDeadlock(c) == Deadlocked(c) /\ Rollback(c, Idle)

\* The process or the connection breaks.
Fail(c) == txn[c].at # "idle" /\ Rollback(c, Idle)

-----------------------------------------------------------------------------
Step(c) ==
  \/ Connect(c) \/ ReadAccount(c) \/ TouchLastLogin(c)
  \/ LockSession(c) \/ CheckSession(c) \/ ReadAgain(c) \/ FindFamily(c) \/ RevokeFamily(c)
  \/ RevokeSession(c) \/ LockToken(c) \/ UpdateAccount(c) \/ FindSessions(c) \/ RevokeAll(c)
  \/ ConsumePending(c) \/ MarkCompleted(c) \/ ConsumeHandoff(c)
  \/ \E s \in Sessions : CreateSession(c, s) \/ Rotate(c, s)

Next ==
  \/ \E c \in Clients : Step(c) \/ Requests(c) \/ TimesOut(c) \/ BreakDeadlock(c) \/ Fail(c)
  \/ \E t \in Tokens : RequestRecovery(t) \/ ExpireToken(t)
  \/ \E s \in Sessions : ExpireSession(s)
  \/ StartPhone \/ Reinstate

Spec == Init /\ [][Next]_vars

-----------------------------------------------------------------------------
TypeOK ==
  /\ user \in [version: Versions, active: BOOLEAN]
  /\ session \in [Sessions -> Session]
  /\ token \in [Tokens -> {"none", "live", "used"}]
  /\ phone \in {"none", "pending", "failed", "completed", "consumed"}
  /\ rowLock \in [Sessions -> Clients \cup {None}]
  /\ tokenLock \in [Tokens -> Clients \cup {None}]
  /\ userLock \in Clients \cup {None}
  /\ txn \in [Clients -> Txn]

\* A family is a chain: of its sessions only the last may be refreshed, however
\* often and concurrently their tokens are presented.
OneLivePerFamily ==
  \A s, r \in Sessions :
    session[s].status = "live" /\ session[r].status = "live"
    /\ session[s].family = session[r].family => s = r

\* No refresh is answered on the strength of a password, or a status, that has
\* been changed: from the check to the COMMIT the account stays as it was.
RefreshedIsCurrent ==
  \A c \in Clients :
    At(c, {"refresh"}, "insert") => user.active /\ user.version = session[txn[c].row].version

\* One recovery link works at a time, and a code that comes back from the
\* browser is exchanged by one request only.
CodesWorkOnce ==
  /\ \A t, o \in Tokens : token[t] = "live" /\ token[o] = "live" => t = o
  /\ LET exchanging == {c \in Clients : txn[c].op = "handoff" /\ txn[c].at \in {"read", "touch", "insert"}}
     IN /\ Cardinality(exchanging) <= 1
        /\ exchanging # {} => phone = "consumed"

=============================================================================
