------------------------------- MODULE Sessions -------------------------------
(***************************************************************************)
(* The guard of the management API (internal/session) and the session      *)
(* endpoint (httpserver.handleSession).  Sessions live in memory, each use *)
(* renews them, and a request is judged before it is handled, so that      *)
(* other requests come in between.                                         *)
(***************************************************************************)
EXTENDS Naturals

CONSTANTS
    Clients,      \* concurrent requests to the management API
    SessionIds,   \* session tokens that may be drawn
    NoSession,    \* a request without a cookie, a guard that saw none
    SessionTTL,   \* defaultSessionTTL, in ticks
    MaxClock      \* bound on the clock

ASSUME SessionAssumption ==
    /\ NoSession \notin SessionIds
    /\ SessionTTL \in Nat \ {0}
    /\ MaxClock \in Nat

VARIABLES
    localOnly,  \* Guard.localOnly: loopback clients need no login
    entries,    \* sessionStore.entries: expiry of the sessions it holds
    clock,
    visit,      \* visit[c]: where the request is, and what it carries
    lastUse,    \* history: when the session was issued or last accepted
    over,       \* history: sessions that were logged out or lost
    unknown     \* session tokens not yet drawn

sessionVars == <<localOnly, entries, clock, visit, lastUse, over, unknown>>

Visit == [at : {"idle", "judged", "refused"}, ask : {"login", "logout", "work"},
          cookie : SessionIds \cup {NoSession}, by : SessionIds \cup {NoSession}]
Idle == [at |-> "idle", ask |-> "work", cookie |-> NoSession, by |-> NoSession]

SessionInit ==
    /\ localOnly \in BOOLEAN
    /\ entries = [s \in {} |-> 0]
    /\ clock = 0
    /\ visit = [c \in Clients |-> Idle]
    /\ lastUse = [s \in SessionIds |-> 0]
    /\ over = {}
    /\ unknown = SessionIds

\* Seeded fault: a session is still good at the very moment it expires.
ValidThroughExpiry(s) == s \in DOMAIN entries /\ clock <= entries[s]

\* sessionStore.valid: the store holds the session and it has not expired.
Valid(s) == s \in DOMAIN entries /\ clock < entries[s]

\* The store after valid(s): renewed, or cleared of an expired entry.
Touched(s) ==
    IF s = NoSession THEN entries
    ELSE IF Valid(s)
         THEN [t \in DOMAIN entries \cup {s} |->
                  IF t = s THEN clock + SessionTTL ELSE entries[t]]
         ELSE [t \in DOMAIN entries \ {s} |-> entries[t]]

Judge(c, at, ask, cookie, by) ==
    visit' = [visit EXCEPT ![c] = [at |-> at, ask |-> ask, cookie |-> cookie, by |-> by]]

\* Guard.Authorize on the free path: a loopback client of a local server.
\* Its cookie is not looked at; the Host header and the Origin are.
AuthorizeLocal(c, ask, cookie) ==
    /\ visit[c].at = "idle"
    /\ localOnly
    /\ cookie \notin unknown
    /\ \E hostOK, originOK \in BOOLEAN :
           Judge(c, IF hostOK /\ (ask = "work" \/ originOK) THEN "judged" ELSE "refused",
                 ask, cookie, NoSession)
    /\ UNCHANGED <<localOnly, entries, clock, lastUse, over, unknown>>

\* Guard.Authorize for everybody else: a valid session, or the admin key.
\* The session is renewed even if the Origin of a write is refused after that.
AuthorizeRemote(c, ask, cookie, key) ==
    LET known == cookie # NoSession /\ Valid(cookie)
    IN  /\ visit[c].at = "idle"
        /\ cookie \notin unknown
        /\ entries' = Touched(cookie)
        /\ lastUse' = IF known THEN [lastUse EXCEPT ![cookie] = clock] ELSE lastUse
        /\ \E originOK \in BOOLEAN :
               Judge(c, IF (known \/ key) /\ (ask = "work" \/ originOK)
                        THEN "judged" ELSE "refused",
                     ask, cookie, IF known THEN cookie ELSE NoSession)
        /\ UNCHANGED <<localOnly, clock, over, unknown>>

Leave(c) == visit' = [visit EXCEPT ![c] = Idle]

\* An answer of the guard, or of a handler that does not touch sessions.
AnswerVisit(c) ==
    /\ \/ visit[c].at = "refused"
       \/ visit[c].at = "judged" /\ visit[c].ask = "work"
       \/ visit[c].at = "judged" /\ visit[c].ask = "login" /\ localOnly
    /\ Leave(c)
    /\ UNCHANGED <<localOnly, entries, clock, lastUse, over, unknown>>

\* POST /api/v1/session: IssueSession draws a new token and stores it.
LogIn(c, s) ==
    /\ visit[c].at = "judged" /\ visit[c].ask = "login"
    /\ ~localOnly
    /\ s \in unknown
    /\ unknown' = unknown \ {s}
    /\ entries' = [t \in DOMAIN entries \cup {s} |->
                      IF t = s THEN clock + SessionTTL ELSE entries[t]]
    /\ lastUse' = [lastUse EXCEPT ![s] = clock]
    /\ Leave(c)
    /\ UNCHANGED <<localOnly, clock, over>>

\* DELETE /api/v1/session: RevokeRequestSession removes the cookie's session,
\* which may have expired or been removed since the guard let the request in.
LogOut(c) ==
    /\ visit[c].at = "judged" /\ visit[c].ask = "logout"
    /\ entries' = [t \in DOMAIN entries \ {visit[c].cookie} |-> entries[t]]
    /\ over' = over \cup ({visit[c].cookie} \ {NoSession})
    /\ Leave(c)
    /\ UNCHANGED <<localOnly, clock, lastUse, unknown>>

SessionTick ==
    /\ clock < MaxClock
    /\ clock' = clock + 1
    /\ UNCHANGED <<localOnly, entries, visit, lastUse, over, unknown>>

\* The process restarts, perhaps in the other mode: sessions are not kept,
\* requests are dropped.
SessionRestart ==
    /\ entries' = [s \in {} |-> 0]
    /\ over' = SessionIds \ unknown
    /\ visit' = [c \in Clients |-> Idle]
    /\ localOnly' \in BOOLEAN
    /\ UNCHANGED <<clock, lastUse, unknown>>

SessionNext ==
    \/ \E c \in Clients, ask \in {"login", "logout", "work"},
          cookie \in SessionIds \cup {NoSession} :
           \/ AuthorizeLocal(c, ask, cookie)
           \/ \E key \in BOOLEAN : AuthorizeRemote(c, ask, cookie, key)
    \/ \E c \in Clients :
           \/ AnswerVisit(c)
           \/ \E s \in SessionIds : LogIn(c, s)
           \/ LogOut(c)
    \/ SessionTick
    \/ SessionRestart

SessionSpec == SessionInit /\ [][SessionNext]_sessionVars

-----------------------------------------------------------------------------
(* Properties.                                                              *)

SessionTypeOK ==
    /\ localOnly \in BOOLEAN
    /\ DOMAIN entries \subseteq SessionIds
    /\ entries \in [DOMAIN entries -> Nat]
    /\ clock \in Nat
    /\ visit \in [Clients -> Visit]
    /\ lastUse \in [SessionIds -> Nat]
    /\ over \subseteq SessionIds
    /\ unknown \subseteq SessionIds

\* A session lets a request in only if nobody logged it out, the process that
\* issued it still runs, and it was last used within its idle time - whatever
\* other requests renew, log in and log out between judgement and handling.
SessionsEnd ==
    [][\A c \in Clients :
          LET s == visit'[c].by
          IN  visit[c].at = "idle" /\ visit'[c].at # "idle" /\ s # NoSession
              => /\ s \notin over \cup unknown
                 /\ clock < lastUse[s] + SessionTTL]_sessionVars
=============================================================================
