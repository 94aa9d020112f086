--------------------------- MODULE Services_proofs ---------------------------
(***************************************************************************)
(* Theorems about the parts of Services, one after the other: the schema a *)
(* process starts from (Migration), its sessions (Sessions), its projects  *)
(* and tokens (Projects), the administrators' operations (Administration), *)
(* the relays' streams (ChatStream, MessagesRelay), the health engine      *)
(* (HealthWindow) and the usage summary (Billing); and about their sum.    *)
(***************************************************************************)
EXTENDS Services, Selection_proofs

-----------------------------------------------------------------------------
(* Migrations.                                                              *)

\* Why two migrating processes do not get in each other's way: nobody has seen
\* more than there is; who holds a transaction has the write lock, and has
\* seen everything; who serves has seen what it knows.
MigrationInv ==
    /\ MigrationTypeOK
    /\ SchemaMatchesRecord
    /\ \A p \in Programs :
          /\ applied[p] <= Len(schema)
          /\ phase[p] \in {"changed", "noted"} => writer = p /\ applied[p] = Len(schema)
          /\ phase[p] = "serving" => Known[p] <= Len(schema)

\* MAX(version) is the number of migrations.
LEMMA CurrentVersionIsLength ==
  ASSUME MigrationTypeOK, SchemaMatchesRecord
  PROVE  currentVersion = Len(schema)
<1>1. Len(schema) \in Nat
  BY DEF MigrationTypeOK
<1>2. recorded \cup {0} = 0..Len(schema)
  BY <1>1 DEF SchemaMatchesRecord
<1>3. \A x \in 0..Len(schema) :
         (\A y \in 0..Len(schema) : x >= y) <=> x = Len(schema)
  BY <1>1
<1>4. Max(0..Len(schema)) = Len(schema)
  BY <1>1, <1>3 DEF Max
<1>. QED
  BY <1>2, <1>4 DEF currentVersion

\* A migration whose statements do not fail on the tables is the next one.
LEMMA UpIsNext ==
  ASSUME MigrationInv, NEW p \in Programs, Todo(p) \notin Range(schema)
  PROVE  applied[p] = Len(schema)
<1>1. /\ Len(schema) \in Nat /\ applied[p] \in Nat /\ applied[p] <= Len(schema)
      /\ \A i \in 1..Len(schema) : schema[i] = i
  BY DEF MigrationInv, MigrationTypeOK, SchemaMatchesRecord
<1>2. DOMAIN schema = 1..Len(schema)
  BY DEF MigrationInv, MigrationTypeOK
<1>3. Range(schema) = 1..Len(schema)
  BY <1>1, <1>2 DEF Range
<1>. QED
  BY <1>1, <1>3 DEF Todo

LEMMA MigrationStep ==
  ASSUME MigrationInv, NEW p \in Programs,
         \/ Open(p) \/ ReadVersion(p) \/ RunUp(p) \/ RecordVersion(p)
         \/ StatementFails(p) \/ Serve(p) \/ Die(p)
  PROVE  MigrationInv'
<1> USE DEF MigrationInv, MigrationTypeOK, SchemaMatchesRecord, Phase, GoTo
<1>0. Len(schema) \in Nat /\ \A q \in Programs : Known[q] \in Nat /\ q # NoProgram
  BY MigrationAssumption
<1>1. CASE Open(p)
  BY <1>1 DEF Open
<1>2. CASE ReadVersion(p)
  <2>1. currentVersion = Len(schema)
    BY CurrentVersionIsLength
  <2>. QED
    BY <1>0, <1>2, <2>1 DEF ReadVersion
<1>3. CASE RunUp(p)
  <2>1. CASE Todo(p) \in Range(schema)
    BY <1>3, <2>1 DEF RunUp, UpFails
  <2>2. CASE Todo(p) \notin Range(schema)
    <3>1. applied[p] = Len(schema)
      BY <2>2, UpIsNext
    <3>. QED
      BY <1>0, <1>3, <2>2, <3>1 DEF RunUp, UpFails
  <2>. QED
    BY <2>1, <2>2
<1>4. CASE RecordVersion(p)
  BY <1>0, <1>4 DEF RecordVersion
<1>5. CASE StatementFails(p)
  BY <1>0, <1>5 DEF StatementFails
<1>6. CASE Serve(p)
  BY <1>0, <1>6 DEF Serve, Todo
<1>7. CASE Die(p)
  BY <1>0, <1>7 DEF Die
<1>. QED
  BY <1>1, <1>2, <1>3, <1>4, <1>5, <1>6, <1>7

LEMMA CommitStep ==
  ASSUME MigrationInv, NEW p \in Programs, Commit(p)
  PROVE  MigrationInv'
<1> USE DEF MigrationInv, MigrationTypeOK, SchemaMatchesRecord, Phase, GoTo
<1>1. /\ Len(schema) \in Nat /\ applied[p] = Len(schema) /\ writer = p
      /\ \A q \in Programs : Known[q] \in Nat /\ q # NoProgram
  BY MigrationAssumption DEF Commit
<1>2. /\ schema' = Append(schema, Len(schema) + 1)
      /\ recorded' = recorded \cup {Len(schema) + 1}
      /\ applied' = [applied EXCEPT ![p] = Len(schema) + 1]
      /\ phase' = [phase EXCEPT ![p] = "looping"]
      /\ writer' = NoProgram
  BY <1>1 DEF Commit, Todo
<1>3. /\ Len(schema') = Len(schema) + 1
      /\ \A i \in 1..Len(schema') : schema'[i] = i
      /\ schema' \in Seq(Nat)
  BY <1>1, <1>2
<1>4. recorded' = 1..Len(schema')
  BY <1>1, <1>2, <1>3
<1>5. ASSUME NEW q \in Programs
      PROVE  /\ applied'[q] \in Nat /\ applied'[q] <= Len(schema')
             /\ phase'[q] \notin {"changed", "noted"}
             /\ phase'[q] = "serving" => Known[q] <= Len(schema')
  BY <1>1, <1>2, <1>3
<1>. QED
  BY <1>2, <1>3, <1>4, <1>5

LEMMA MigrationInvHolds == MigrationSpec => []MigrationInv
<1>1. MigrationInit => MigrationInv
  BY DEF MigrationInit, MigrationInv, MigrationTypeOK, SchemaMatchesRecord, Phase
<1>2. MigrationInv /\ [MigrationNext]_migrationVars => MigrationInv'
  <2> SUFFICES ASSUME MigrationInv, [MigrationNext]_migrationVars
               PROVE  MigrationInv'
    OBVIOUS
  <2>1. CASE MigrationNext
    BY <2>1, MigrationStep, CommitStep DEF MigrationNext
  <2>2. CASE UNCHANGED migrationVars
    BY <2>2 DEF migrationVars, MigrationInv, MigrationTypeOK, SchemaMatchesRecord
  <2>. QED
    BY <2>1, <2>2
<1>. QED
  BY <1>1, <1>2, PTL DEF MigrationSpec

\* Tables and record agree, whoever migrates and dies when: for any number of
\* processes of any versions.
THEOREM SchemaMatchesRecordHolds == MigrationSpec => []SchemaMatchesRecord
<1>1. MigrationInv => SchemaMatchesRecord
  BY DEF MigrationInv
<1>. QED
  BY <1>1, MigrationInvHolds, PTL

\* No process serves without the migrations it knows.
THEOREM ServesCompleteSchemaHolds == MigrationSpec => []ServesCompleteSchema
<1>1. MigrationInv => ServesCompleteSchema
  BY DEF MigrationInv, ServesCompleteSchema
<1>. QED
  BY <1>1, MigrationInvHolds, PTL

\* Both together, as the run checks them.
THEOREM SchemaSoundHolds == MigrationSpec => []SchemaSound
<1>1. SchemaMatchesRecord /\ ServesCompleteSchema => SchemaSound
  BY DEF SchemaSound
<1>. QED
  BY <1>1, SchemaMatchesRecordHolds, ServesCompleteSchemaHolds, PTL

-----------------------------------------------------------------------------
(* Sessions.                                                                *)

\* What the store holds is alive: it was issued, nobody ended it, and it
\* expires one idle time after its last use.
SessionInv ==
    /\ SessionTypeOK
    /\ over \cap unknown = {}
    /\ \A c \in Clients : visit[c].cookie \notin unknown
    /\ \A s \in DOMAIN entries : /\ s \notin over
                                 /\ s \notin unknown
                                 /\ entries[s] = lastUse[s] + SessionTTL

\* The cookie that a judged request carries is one it was judged by.
LEMMA JudgedCookie ==
  ASSUME SessionInv, NEW c \in Clients, NEW cookie \in SessionIds \cup {NoSession},
         cookie \notin unknown, NEW place, NEW want, NEW by, Judge(c, place, want, cookie, by)
  PROVE  \A d \in Clients : visit'[d].cookie \notin unknown
  BY DEF SessionInv, SessionTypeOK, Judge

\* A request that has been answered carries none.
LEMMA LeftCookie ==
  ASSUME SessionInv, NEW c \in Clients, Leave(c)
  PROVE  /\ visit' \in [Clients -> Visit]
         /\ \A d \in Clients : visit'[d].cookie \notin unknown
  BY SessionAssumption DEF SessionInv, SessionTypeOK, Leave, Idle, Visit

LEMMA SessionStep ==
  ASSUME SessionInv, [SessionNext]_sessionVars
  PROVE  SessionInv'
<1> USE SessionAssumption DEF SessionInv, SessionTypeOK, Visit, Idle, Judge, Leave
<1>1. ASSUME NEW c \in Clients, NEW want \in {"login", "logout", "work"},
             NEW cookie \in SessionIds \cup {NoSession}, AuthorizeLocal(c, want, cookie)
      PROVE  SessionInv'
  BY <1>1, JudgedCookie DEF AuthorizeLocal
<1>2. ASSUME NEW c \in Clients, NEW want \in {"login", "logout", "work"},
             NEW cookie \in SessionIds \cup {NoSession}, NEW key \in BOOLEAN,
             AuthorizeRemote(c, want, cookie, key)
      PROVE  SessionInv'
  <2>1. /\ visit' \in [Clients -> Visit]
        /\ \A d \in Clients : visit'[d].cookie \notin unknown
    <3>1. \E place \in {"judged", "refused"}, by \in SessionIds \cup {NoSession} :
             Judge(c, place, want, cookie, by)
      BY <1>2 DEF AuthorizeRemote
    <3>2. cookie \notin unknown
      BY <1>2 DEF AuthorizeRemote
    <3>. QED
      BY <3>1, <3>2, JudgedCookie
  <2>2. CASE cookie # NoSession /\ Valid(cookie)
    <3>1. /\ DOMAIN entries' = DOMAIN entries
          /\ entries'[cookie] = clock + SessionTTL
          /\ \A t \in DOMAIN entries \ {cookie} : entries'[t] = entries[t]
          /\ lastUse' = [lastUse EXCEPT ![cookie] = clock]
          /\ UNCHANGED <<localOnly, clock, over, unknown>>
          /\ cookie \in DOMAIN entries
      BY <1>2, <2>2 DEF AuthorizeRemote, Touched, Valid
    <3>2. entries' = [t \in DOMAIN entries' |-> entries'[t]]
      BY <1>2, <2>2 DEF AuthorizeRemote, Touched
    <3>3. \A t \in DOMAIN entries' : entries'[t] \in Nat
      BY <3>1
    <3>. QED
      BY <2>1, <3>1, <3>2, <3>3
  <2>3. CASE ~(cookie # NoSession /\ Valid(cookie))
    <3>1. /\ DOMAIN entries' \subseteq DOMAIN entries
          /\ \A t \in DOMAIN entries' : entries'[t] = entries[t]
          /\ UNCHANGED <<localOnly, lastUse, clock, over, unknown>>
      BY <1>2, <2>3 DEF AuthorizeRemote, Touched
    <3>2. entries' = [t \in DOMAIN entries' |-> entries'[t]]
      BY <1>2, <2>3 DEF AuthorizeRemote, Touched
    <3>. QED
      BY <2>1, <3>1, <3>2
  <2>. QED
    BY <2>2, <2>3
<1>3. ASSUME NEW c \in Clients, AnswerVisit(c)
      PROVE  SessionInv'
  BY <1>3, LeftCookie DEF AnswerVisit
<1>4. ASSUME NEW c \in Clients, NEW s \in SessionIds, LogIn(c, s)
      PROVE  SessionInv'
  <2>1. /\ DOMAIN entries' = DOMAIN entries \cup {s}
        /\ entries'[s] = clock + SessionTTL
        /\ \A t \in DOMAIN entries \ {s} : entries'[t] = entries[t]
        /\ lastUse' = [lastUse EXCEPT ![s] = clock]
        /\ unknown' = unknown \ {s} /\ s \in unknown
        /\ UNCHANGED <<localOnly, clock, over>>
    BY <1>4 DEF LogIn
  <2>2. entries' = [t \in DOMAIN entries' |-> entries'[t]]
    BY <1>4 DEF LogIn
  <2>3. /\ visit' \in [Clients -> Visit]
        /\ \A d \in Clients : visit'[d].cookie \notin unknown
    BY <1>4, LeftCookie DEF LogIn
  <2>4. \A t \in DOMAIN entries' : entries'[t] \in Nat
    BY <2>1
  <2>. QED
    BY <2>1, <2>2, <2>3, <2>4
<1>5. ASSUME NEW c \in Clients, LogOut(c)
      PROVE  SessionInv'
  <2>1. /\ DOMAIN entries' = DOMAIN entries \ {visit[c].cookie}
        /\ \A t \in DOMAIN entries' : entries'[t] = entries[t]
        /\ over' = over \cup ({visit[c].cookie} \ {NoSession})
        /\ UNCHANGED <<localOnly, lastUse, clock, unknown>>
    BY <1>5 DEF LogOut
  <2>2. entries' = [t \in DOMAIN entries' |-> entries'[t]]
    BY <1>5 DEF LogOut
  <2>3. /\ visit' \in [Clients -> Visit]
        /\ \A d \in Clients : visit'[d].cookie \notin unknown
    BY <1>5, LeftCookie DEF LogOut
  <2>4. visit[c].cookie \in SessionIds \cup {NoSession} /\ visit[c].cookie \notin unknown
    BY <1>5 DEF LogOut
  <2>. QED
    BY <2>1, <2>2, <2>3, <2>4
<1>6. CASE SessionTick
  BY <1>6 DEF SessionTick
<1>7. CASE SessionRestart
  BY <1>7 DEF SessionRestart
<1>8. CASE UNCHANGED sessionVars
  BY <1>8 DEF sessionVars
<1>. QED
  BY <1>1, <1>2, <1>3, <1>4, <1>5, <1>6, <1>7, <1>8 DEF SessionNext

LEMMA SessionInvHolds == SessionSpec => []SessionInv
<1>1. SessionInit => SessionInv
  BY SessionAssumption DEF SessionInit, SessionInv, SessionTypeOK, Visit, Idle
<1>. QED
  BY <1>1, SessionStep, PTL DEF SessionSpec

\* No session that was logged out, lost or left idle for too long lets a
\* request in: for any clients, sessions and idle time.
THEOREM SessionsEndHolds == SessionSpec => SessionsEnd
<1> DEFINE A == \A c \in Clients :
                  LET s == visit'[c].by
                  IN  visit[c].at = "idle" /\ visit'[c].at # "idle" /\ s # NoSession
                      => /\ s \notin over \cup unknown
                         /\ clock < lastUse[s] + SessionTTL
<1>1. ASSUME SessionInv, [SessionNext]_sessionVars
      PROVE  [A]_sessionVars
  <2> USE <1>1 DEF SessionInv, SessionTypeOK
  <2>1. ASSUME NEW c \in Clients, NEW want \in {"login", "logout", "work"},
               NEW cookie \in SessionIds \cup {NoSession}, AuthorizeLocal(c, want, cookie)
        PROVE  A
    BY <2>1 DEF AuthorizeLocal, Judge
  <2>2. ASSUME NEW c \in Clients, NEW want \in {"login", "logout", "work"},
               NEW cookie \in SessionIds \cup {NoSession}, NEW key \in BOOLEAN,
               AuthorizeRemote(c, want, cookie, key)
        PROVE  A
    <3>1. ASSUME NEW d \in Clients, visit[d].at = "idle", visit'[d].at # "idle",
                 visit'[d].by # NoSession
          PROVE  /\ visit'[d].by \notin over \cup unknown
                 /\ clock < lastUse[visit'[d].by] + SessionTTL
      <4>1. d = c
        BY <2>2, <3>1 DEF AuthorizeRemote, Judge
      <4>2. visit'[d].by = cookie /\ Valid(cookie)
        BY <2>2, <3>1, <4>1 DEF AuthorizeRemote, Judge
      <4>. QED
        BY <4>2 DEF Valid
    <3>. QED
      BY <3>1
  <2>3. ASSUME NEW c \in Clients, Leave(c)
        PROVE  A
    BY <2>3 DEF Leave, Idle
  <2>4. CASE SessionRestart
    BY <2>4 DEF SessionRestart, Idle
  <2>5. CASE SessionTick
    BY <2>5 DEF SessionTick
  <2>6. CASE UNCHANGED sessionVars
    BY <2>6
  <2>. QED
    BY <2>1, <2>2, <2>3, <2>4, <2>5, <2>6 DEF SessionNext, AnswerVisit, LogIn, LogOut
<1>. QED
  BY <1>1, SessionInvHolds, PTL DEF SessionSpec, SessionsEnd
-----------------------------------------------------------------------------
(* Projects.                                                                *)

\* Why the two checks are enough but for the race: a token that is about to be
\* inserted has its project, unless a deletion went by; a deletion that is about
\* to be carried out has no token in its way that it did not race with.
ProjectsInv ==
    /\ ProjectsTypeOK
    /\ TokenHasProject
    /\ \A d \in Desks : errands[d].write = "insert" =>
          /\ ~tokens[errands[d].token].row
          /\ \A e \in Desks : errands[e].write = "insert" /\ errands[e].token = errands[d].token
                               => e = d
          /\ errands[d].project # NoProject /\ errands[d].token \notin raced
             => errands[d].project \in projects
    /\ \A d \in Desks, t \in TokenIds :
          errands[d].write = "delete" /\ tokens[t].row /\ tokens[t].project = errands[d].project
          => t \in raced

\* One step per action.
LEMMA ProjectsStep == ProjectsInv /\ [ProjectsNext]_projectsVars => ProjectsInv'
<1> SUFFICES ASSUME ProjectsInv, [ProjectsNext]_projectsVars PROVE ProjectsInv'
  OBVIOUS
<1> USE ProjectsAssumption
    DEF ProjectsInv, ProjectsTypeOK, TokenHasProject, Errand, Free, Absent
<1>1. ASSUME NEW j \in ProjectIds, CreateProject(j) PROVE ProjectsInv'
  BY <1>1 DEF CreateProject
<1>2. ASSUME NEW t \in TokenIds, DeleteTokenRow(t) PROVE ProjectsInv'
  BY <1>2 DEF DeleteTokenRow
<1>3. ASSUME NEW d \in Desks, NEW j \in ProjectIds, ListTokens(d, j) PROVE ProjectsInv'
  BY <1>3 DEF ListTokens
<1>4. ASSUME NEW d \in Desks, NEW t \in TokenIds, NEW j \in ProjectIds \cup {NoProject},
             GetProject(d, t, j)
      PROVE  ProjectsInv'
  BY <1>4 DEF GetProject
<1>5. ASSUME NEW d \in Desks, RemoveProject(d) PROVE ProjectsInv'
  BY <1>5 DEF RemoveProject, Coming
<1>6. ASSUME NEW d \in Desks, InsertToken(d) PROVE ProjectsInv'
  BY <1>6 DEF InsertToken
<1>7. ASSUME NEW d \in Desks, Abandon(d) PROVE ProjectsInv'
  BY <1>7 DEF Abandon
<1>8. CASE UNCHANGED projectsVars
  BY <1>8 DEF projectsVars
<1>. QED
  BY <1>1, <1>2, <1>3, <1>4, <1>5, <1>6, <1>7, <1>8 DEF ProjectsNext

LEMMA ProjectsInvHolds == ProjectsSpec => []ProjectsInv
<1>1. ProjectsInit => ProjectsInv
  BY DEF ProjectsInit, ProjectsInv, ProjectsTypeOK, TokenHasProject, Errand, Free, Absent
<1>. QED
  BY <1>1, ProjectsStep, PTL DEF ProjectsSpec

\* A token without its project was created while the project was being deleted,
\* for any number of projects, tokens and requests.
THEOREM TokenHasProjectHolds == ProjectsSpec => []TokenHasProject
<1>1. ProjectsInv => TokenHasProject
  BY DEF ProjectsInv
<1>. QED
  BY <1>1, ProjectsInvHolds, PTL

-----------------------------------------------------------------------------
(* Administration.                                                          *)

\* The handlers' positions, as far as the properties need them.
CallsTyped ==
    /\ calls \in [Calls -> HandlerCall]
    /\ \A c \in Calls : calls[c].at \notin {"idle", "removeProvider"} => calls[c].on \in Accounts
    /\ rows \in [Accounts -> AccountRow]
    /\ vault \in [Accounts -> [VaultEntry -> Keys \cup {NoKey}]]
    /\ rotations \in [Accounts -> 0..2]

\* Why a deletion that began with usage does not end with one: usage only
\* grows, so the count still finds it - unless the count fails.
HistoryInv ==
    \A c \in Calls :
      /\ calls[c].saw \subseteq usage
      /\ calls[c].at = "remove" /\ calls[c].on \in calls[c].saw => calls[c].blind

Rotates(c, a) == calls[c].on = a /\ calls[c].at \in {"validate", "switch", "activate"}

\* Why one rotation is safe: until the switch the row names the entry that
\* rotation does not touch, and from the switch on nobody touches the other.
AccountSound(a) ==
    /\ rows[a].status = "unborn" => rotations[a] = 0
    /\ rotations[a] = 0 => /\ rows[a].entry = "first"
                           /\ \A c \in Calls : ~Rotates(c, a)
    /\ rotations[a] <= 1 => \A c, d \in Calls : Rotates(c, a) /\ Rotates(d, a) => c = d
    /\ rotations[a] <= 1 /\ Exists(a) => HasCredential(a)
    /\ rotations[a] <= 1 /\ rows[a].entry = "rot" =>
          \A c \in Calls : calls[c].on = a => calls[c].at \notin {"validate", "switch"}

\* A creation that has not inserted its row is alone with the account.
InsertSound(c) ==
    calls[c].at = "insert" =>
      /\ calls[c].on \in Accounts
      /\ rows[calls[c].on].status = "unborn"
      /\ calls[c].key \in Keys
      /\ vault[calls[c].on]["first"] = calls[c].key
      /\ \A d \in Calls : calls[d].at = "insert" /\ calls[d].on = calls[c].on => c = d

\* The first rotation's key is in the entry until the row names it.
RotationSound(c) ==
    calls[c].at \in {"validate", "switch", "activate"} =>
      /\ calls[c].on \in Accounts
      /\ calls[c].key \in Keys
      /\ rotations[calls[c].on] <= 1 /\ calls[c].at # "activate"
         => vault[calls[c].on]["rot"] = calls[c].key

RotationInv ==
    /\ \A a \in Accounts : AccountSound(a)
    /\ \A c \in Calls : InsertSound(c) /\ RotationSound(c)

AdminInv == CallsTyped /\ HistoryInv /\ RotationInv

\* What the helpers of the steps do, field by field.
OthersKept(c) == \A d \in Calls : d # c => calls'[d] = calls[d]

LEMMA GoesMeans ==
  ASSUME CallsTyped, NEW c \in Calls, NEW step \in HandlerStep, Goes(c, step)
  PROVE  /\ calls' \in [Calls -> HandlerCall]
         /\ OthersKept(c)
         /\ calls'[c].at = step
         /\ calls'[c].on = calls[c].on
         /\ calls'[c].key = calls[c].key
         /\ calls'[c].saw = calls[c].saw
         /\ calls'[c].blind = calls[c].blind
<1>1. calls[c] \in HandlerCall
  BY DEF CallsTyped
<1>2. calls' = [calls EXCEPT ![c] = [calls[c] EXCEPT !.at = step]]
  BY DEF Goes
<1>3. calls'[c] = [calls[c] EXCEPT !.at = step]
  BY <1>2 DEF CallsTyped
<1>4. [calls[c] EXCEPT !.at = step] \in HandlerCall
  BY <1>1 DEF HandlerCall
<1>. QED
  BY <1>1, <1>2, <1>3, <1>4 DEF CallsTyped, OthersKept, HandlerCall

LEMMA EndsMeans ==
  ASSUME CallsTyped, NEW c \in Calls, Ends(c)
  PROVE  /\ calls' \in [Calls -> HandlerCall]
         /\ OthersKept(c)
         /\ calls'[c].at = "idle" /\ calls'[c].saw = {}
<1>1. NoCall \in HandlerCall /\ NoCall.at = "idle" /\ NoCall.saw = {}
  BY DEF NoCall, HandlerCall, HandlerStep
<1>. QED
  BY <1>1 DEF CallsTyped, Ends, OthersKept

LEMMA CountMeans ==
  ASSUME CallsTyped, NEW c \in Calls, NEW n, NEW next \in HandlerStep, CountOrIgnore(c, n, next)
  PROVE  /\ calls' \in [Calls -> HandlerCall]
         /\ OthersKept(c)
         /\ \/ calls'[c].at = "idle" /\ calls'[c].saw = {}
            \/ /\ calls'[c].at = next
               /\ calls'[c].on = calls[c].on
               /\ calls'[c].saw = calls[c].saw
               /\ n = 0 \/ calls'[c].blind
<1>1. calls[c] \in HandlerCall
  BY DEF CallsTyped
<1>2. CASE calls' = [calls EXCEPT ![c].at = next, ![c].blind = TRUE]
  <2>1. calls' = [calls EXCEPT ![c] = [[calls[c] EXCEPT !.at = next] EXCEPT !.blind = TRUE]]
    BY <1>1, <1>2 DEF CallsTyped
  <2>2. calls'[c] = [[calls[c] EXCEPT !.at = next] EXCEPT !.blind = TRUE]
    BY <2>1 DEF CallsTyped
  <2>3. [[calls[c] EXCEPT !.at = next] EXCEPT !.blind = TRUE] \in HandlerCall
    BY <1>1 DEF HandlerCall
  <2>. QED
    BY <1>1, <2>1, <2>2, <2>3 DEF CallsTyped, OthersKept, HandlerCall
<1>3. CASE n = 0 /\ Goes(c, next)
  BY <1>3, GoesMeans
<1>4. CASE Ends(c)
  BY <1>4, EndsMeans
<1>. QED
  BY <1>2, <1>3, <1>4 DEF CountOrIgnore

LEMMA StartsMeans ==
  ASSUME CallsTyped, NEW c \in Calls, NEW r \in HandlerCall, Starts(c, r)
  PROVE  /\ calls' \in [Calls -> HandlerCall]
         /\ OthersKept(c)
         /\ calls[c].at = "idle" /\ calls'[c] = r
BY DEF CallsTyped, Starts, OthersKept

LEMMA StatusMeans ==
  ASSUME CallsTyped, NEW a \in Accounts, NEW s \in AccountStatus, SetStatus(a, s)
  PROVE  /\ rows' \in [Accounts -> AccountRow]
         /\ \A b \in Accounts : /\ rows'[b].entry = rows[b].entry
                                /\ rows'[b].print = rows[b].print
                                /\ (rows'[b].status = "unborn") = (rows[b].status = "unborn")
                                /\ Exists(b)' = Exists(b)
<1>1. \A b \in Accounts : rows[b] \in AccountRow
  BY DEF CallsTyped
<1>2. \A t \in AccountStatus \cup {"unborn", "gone"} : [rows[a] EXCEPT !.status = t] \in AccountRow
  BY <1>1 DEF AccountRow
<1>3. rows[a].status \in AccountStatus \cup {"unborn", "gone"}
  BY <1>1 DEF AccountRow
<1>4. PICK t \in AccountStatus \cup {"unborn", "gone"} :
         /\ rows' = [rows EXCEPT ![a] = [rows[a] EXCEPT !.status = t]]
         /\ t = IF Exists(a) THEN s ELSE rows[a].status
  BY <1>3 DEF SetStatus
<1>5. /\ rows'[a].status = t /\ rows'[a].entry = rows[a].entry /\ rows'[a].print = rows[a].print
      /\ \A b \in Accounts \ {a} : rows'[b] = rows[b]
  BY <1>1, <1>4 DEF CallsTyped, AccountRow
<1>6. rows' \in [Accounts -> AccountRow]
  BY <1>2, <1>4 DEF CallsTyped
<1>7. /\ (rows'[a].status = "unborn") = (rows[a].status = "unborn")
      /\ Exists(a)' = Exists(a)
  BY <1>4, <1>5 DEF Exists, AccountStatus
<1>8. \A b \in Accounts \ {a} : Exists(b)' = Exists(b)
  BY <1>5 DEF Exists
<1>. QED
  BY <1>5, <1>6, <1>7, <1>8

LEMMA EntryMeans ==
  ASSUME CallsTyped, NEW a \in Accounts, NEW e \in VaultEntry, NEW k \in Keys \cup {NoKey},
         PutEntry(a, e, k)
  PROVE  /\ vault' \in [Accounts -> [VaultEntry -> Keys \cup {NoKey}]]
         /\ vault'[a][e] = k
         /\ \A b \in Accounts, f \in VaultEntry : <<b, f>> # <<a, e>> => vault'[b][f] = vault[b][f]
BY DEF CallsTyped, PutEntry

\* What there is to know of a call in hand.
LEMMA CallFields ==
  ASSUME CallsTyped, NEW c \in Calls
  PROVE  /\ calls[c].at \in HandlerStep
         /\ calls[c].at \notin {"idle", "removeProvider"} => calls[c].on \in Accounts
         /\ calls[c].under \in Providers \cup {Nothing}
         /\ calls[c].key \in Keys \cup {NoKey}
<1>1. calls[c] \in HandlerCall
  BY DEF CallsTyped
<1>. QED
  BY <1>1 DEF HandlerCall, CallsTyped

\* An account that a step does not touch, and that no new rotation enters,
\* stays sound.
LEMMA UntouchedSound ==
  ASSUME AdminInv, NEW b \in Accounts,
         rows'[b] = rows[b], rotations'[b] = rotations[b],
         vault'[b]["first"] = vault[b]["first"], vault'[b]["rot"] = vault[b]["rot"],
         \A d \in Calls : calls'[d].on = b /\ calls'[d].at \in {"validate", "switch", "activate"}
                         => \/ calls'[d] = calls[d]
                            \/ /\ calls[d].on = b /\ calls[d].at = "switch"
                               /\ calls'[d].at = "activate"
  PROVE  AccountSound(b)'
<1>1. rows[b].entry \in {"first", "rot"}
  BY DEF AdminInv, CallsTyped, AccountRow, VaultEntry
<1>2. vault'[b][rows'[b].entry] = vault[b][rows[b].entry]
  BY <1>1
<1>3. HasCredential(b)' <=> HasCredential(b)
  BY <1>2 DEF HasCredential
<1>4. Exists(b)' <=> Exists(b)
  BY DEF Exists
<1>5. \A d \in Calls : Rotates(d, b)' => Rotates(d, b)
  BY DEF Rotates
<1>6. \A d \in Calls : calls'[d].on = b /\ calls'[d].at \in {"validate", "switch"}
                       => calls[d].on = b /\ calls[d].at \in {"validate", "switch"}
  OBVIOUS
<1>7. AccountSound(b)
  BY DEF AdminInv, RotationInv
<1>. QED
  BY <1>3, <1>4, <1>5, <1>6, <1>7 DEF AccountSound

LEMMA CreateAccountStep ==
  ASSUME AdminInv, NEW c \in Calls, NEW a \in Accounts, NEW p \in Providers, NEW k \in Keys,
         CreateAccount(c, a, p, k)
  PROVE  AdminInv'
<1> DEFINE r == [NoCall EXCEPT !.at = "insert", !.on = a, !.under = p, !.key = k]
<1>1. r \in HandlerCall /\ r.at = "insert" /\ r.on = a /\ r.key = k /\ r.saw = {}
  BY DEF NoCall, HandlerCall, HandlerStep
<1>2. Starts(c, r) /\ PutEntry(a, "first", k)
      /\ rows[a].status = "unborn" /\ (\A d \in Calls : calls[d].on # a)
      /\ UNCHANGED <<rows, rotations, usage>>
  BY DEF CreateAccount
<1> HIDE DEF r
<1>3. /\ calls' \in [Calls -> HandlerCall] /\ calls'[c] = r /\ calls[c].at = "idle"
      /\ \A d \in Calls : d # c => calls'[d] = calls[d]
  BY <1>1, <1>2, StartsMeans DEF AdminInv, OthersKept
<1>4. /\ vault' \in [Accounts -> [VaultEntry -> Keys \cup {NoKey}]]
      /\ vault'[a]["first"] = k /\ vault'[a]["rot"] = vault[a]["rot"]
      /\ \A b \in Accounts : b # a => vault'[b]["first"] = vault[b]["first"]
                                     /\ vault'[b]["rot"] = vault[b]["rot"]
  BY <1>2, EntryMeans DEF AdminInv, VaultEntry
<1>5. CallsTyped' /\ HistoryInv'
  <2>1. CallsTyped'
    BY <1>1, <1>2, <1>3, <1>4 DEF AdminInv, CallsTyped
  <2>2. HistoryInv'
    BY <1>1, <1>2, <1>3 DEF AdminInv, HistoryInv
  <2>. QED
    BY <2>1, <2>2
<1>6. ASSUME NEW b \in Accounts PROVE AccountSound(b)'
  <2>1. CASE b = a
    <3>1. AccountSound(a) /\ rows'[a] = rows[a] /\ rotations'[a] = rotations[a]
      BY <1>2 DEF AdminInv, RotationInv
    <3>2. ~Exists(a) /\ ~Exists(a)'
      BY <1>2 DEF Exists, AccountStatus
    <3>3. rotations[a] = 0 /\ rows[a].entry = "first"
      BY <1>2, <3>1 DEF AccountSound
    <3>4. ASSUME NEW d \in Calls PROVE ~Rotates(d, a)'
      <4>1. CASE d = c
        BY <1>1, <1>3, <4>1 DEF Rotates
      <4>2. CASE d # c
        BY <1>2, <1>3, <4>2 DEF Rotates
      <4>. QED
        BY <4>1, <4>2
    <3>. QED
      BY <2>1, <3>1, <3>2, <3>3, <3>4 DEF AccountSound
  <2>2. CASE b # a
    <3>1. /\ rows'[b] = rows[b] /\ rotations'[b] = rotations[b]
          /\ vault'[b]["first"] = vault[b]["first"] /\ vault'[b]["rot"] = vault[b]["rot"]
      BY <1>2, <1>4, <2>2
    <3>2. \A d \in Calls : calls'[d].on = b => calls'[d] = calls[d]
      BY <1>1, <1>3, <2>2
    <3>. QED
      BY <3>1, <3>2, UntouchedSound
  <2>. QED
    BY <2>1, <2>2
<1>7. RotationInv'
  <2>1. ASSUME NEW d \in Calls PROVE InsertSound(d)'
    <3>1. CASE d = c
      <4>1. ASSUME NEW e \in Calls, calls'[e].on = a PROVE e = c
        BY <1>2, <1>3, <4>1
      <4>. QED
        BY <1>1, <1>2, <1>3, <1>4, <3>1, <4>1 DEF InsertSound
    <3>2. CASE d # c
      <4>1. calls'[d] = calls[d] /\ calls[d].on # a /\ InsertSound(d)
        BY <1>2, <1>3, <3>2 DEF AdminInv, RotationInv
      <4>2. ASSUME calls[d].at = "insert", NEW e \in Calls, calls'[e].at = "insert",
                   calls'[e].on = calls[d].on
            PROVE  d = e
        <5>1. e # c
          BY <1>1, <1>3, <4>1, <4>2
        <5>2. calls'[e] = calls[e]
          BY <1>3, <5>1
        <5>. QED
          BY <4>1, <4>2, <5>2 DEF InsertSound
      <4>. QED
        BY <1>2, <1>4, <4>1, <4>2 DEF InsertSound
    <3>. QED
      BY <3>1, <3>2
  <2>2. ASSUME NEW d \in Calls PROVE RotationSound(d)'
    <3>1. CASE d = c
      BY <1>1, <1>3, <3>1 DEF RotationSound
    <3>2. CASE d # c
      <4>1. calls'[d] = calls[d] /\ RotationSound(d)
        BY <1>3, <3>2 DEF AdminInv, RotationInv
      <4>. QED
        BY <1>2, <1>4, <4>1 DEF RotationSound
    <3>. QED
      BY <3>1, <3>2
  <2>. QED
    BY <1>6, <2>1, <2>2 DEF RotationInv
<1>. QED
  BY <1>5, <1>7 DEF AdminInv

LEMMA StoreNewKeyStep ==
  ASSUME AdminInv, NEW c \in Calls, NEW a \in Accounts, NEW k \in Keys, StoreNewKey(c, a, k)
  PROVE  AdminInv'
<1> DEFINE r == [NoCall EXCEPT !.at = "validate", !.on = a, !.key = k]
<1>1. r \in HandlerCall /\ r.at = "validate" /\ r.on = a /\ r.key = k /\ r.saw = {}
  BY DEF NoCall, HandlerCall, HandlerStep
<1>2. /\ Starts(c, r) /\ PutEntry(a, "rot", k) /\ Exists(a)
      /\ rotations' = [rotations EXCEPT ![a] = Least(rotations[a] + 1, 2)]
      /\ UNCHANGED <<rows, usage>>
  BY DEF StoreNewKey
<1> HIDE DEF r
<1>3. /\ rotations' \in [Accounts -> 0..2]
      /\ \A b \in Accounts \ {a} : rotations'[b] = rotations[b]
      /\ rotations'[a] # 0 /\ (rotations'[a] <= 1 => rotations[a] = 0)
  BY <1>2 DEF AdminInv, CallsTyped, Least
<1>4. /\ calls' \in [Calls -> HandlerCall] /\ calls'[c] = r /\ calls[c].at = "idle"
      /\ \A d \in Calls : d # c => calls'[d] = calls[d]
  BY <1>1, <1>2, StartsMeans DEF AdminInv, OthersKept
<1>5. /\ vault' \in [Accounts -> [VaultEntry -> Keys \cup {NoKey}]]
      /\ vault'[a]["rot"] = k /\ vault'[a]["first"] = vault[a]["first"]
      /\ \A b \in Accounts : b # a => vault'[b]["first"] = vault[b]["first"]
                                     /\ vault'[b]["rot"] = vault[b]["rot"]
  BY <1>2, EntryMeans DEF AdminInv, VaultEntry
<1>6. CallsTyped' /\ HistoryInv'
  BY <1>1, <1>2, <1>3, <1>4, <1>5 DEF AdminInv, CallsTyped, HistoryInv
<1>7. \A b \in Accounts : rows[b].entry \in {"first", "rot"} /\ rotations[b] \in 0..2
  BY DEF AdminInv, CallsTyped, AccountRow, VaultEntry
<1> USE DEF AdminInv, RotationInv, AccountSound, InsertSound, RotationSound, Rotates
<1>8. /\ rows[a].status # "unborn" /\ rows[a].status \in {"active", "disabled", "error"}
      /\ rotations'[a] <= 1 => /\ rows[a].entry = "first" /\ HasCredential(a)
                               /\ \A d \in Calls : ~Rotates(d, a)
  BY <1>2, <1>3, <1>7 DEF Exists, AccountStatus
<1>9. ASSUME NEW b \in Accounts PROVE AccountSound(b)'
  <2>1. CASE b = a
    BY <1>1, <1>2, <1>3, <1>4, <1>5, <1>8, <2>1 DEF HasCredential
  <2>2. CASE b # a
    <3>1. /\ rows'[b] = rows[b] /\ rotations'[b] = rotations[b]
          /\ vault'[b]["first"] = vault[b]["first"] /\ vault'[b]["rot"] = vault[b]["rot"]
      BY <1>2, <1>3, <1>5, <2>2
    <3>2. \A d \in Calls : calls'[d].on = b => calls'[d] = calls[d]
      BY <1>1, <1>4, <2>2
    <3>3. \A d \in Calls : calls'[d].on = b /\ calls'[d].at \in {"validate", "switch", "activate"}
                           => \/ calls'[d] = calls[d]
                              \/ /\ calls[d].on = b /\ calls[d].at = "switch"
                                 /\ calls'[d].at = "activate"
      BY <3>2
    <3> HIDE DEF AdminInv, RotationInv, AccountSound, InsertSound, RotationSound, Rotates
    <3>. QED
      BY <3>1, <3>3, UntouchedSound
  <2>. QED
    BY <2>1, <2>2
<1>10. ASSUME NEW d \in Calls PROVE InsertSound(d)'
  BY <1>1, <1>2, <1>4, <1>5, <1>8
<1>11. ASSUME NEW d \in Calls PROVE RotationSound(d)'
  BY <1>1, <1>3, <1>4, <1>5, <1>8
<1>. QED
  BY <1>6, <1>9, <1>10, <1>11

\* A handler that begins without touching credentials.
LEMMA QuietStart ==
  ASSUME AdminInv, NEW c \in Calls, NEW r \in HandlerCall, Starts(c, r),
         r.at \notin {"insert", "validate", "switch", "activate", "remove"},
         r.at \notin {"idle", "removeProvider"} => r.on \in Accounts,
         r.saw \subseteq usage,
         UNCHANGED <<rows, vault, usage, rotations>>
  PROVE  AdminInv'
<1>1. /\ calls' \in [Calls -> HandlerCall] /\ calls'[c] = r
      /\ \A d \in Calls : d # c => calls'[d] = calls[d]
  BY StartsMeans DEF AdminInv, OthersKept
<1>2. CallsTyped' /\ HistoryInv'
  BY <1>1 DEF AdminInv, CallsTyped, HistoryInv
<1>3. RotationInv'
  BY <1>1
  DEF AdminInv, RotationInv, AccountSound, InsertSound, RotationSound, Rotates, Exists, HasCredential
<1>. QED
  BY <1>2, <1>3 DEF AdminInv

LEMMA ResolveTargetStep ==
  ASSUME AdminInv, NEW c \in Calls, NEW a \in Accounts,
         NEW purpose \in {"verify", "discover", "serve"}, ResolveTarget(c, a, purpose)
  PROVE  AdminInv'
<1> DEFINE r == [NoCall EXCEPT !.at = purpose, !.on = a, !.under = rows[a].provider]
<1>1. rows[a].provider \in Providers \cup {Nothing}
  BY DEF AdminInv, CallsTyped, AccountRow
<1>2. r \in HandlerCall /\ r.at = purpose /\ r.on = a /\ r.saw = {}
  BY <1>1 DEF NoCall, HandlerCall, HandlerStep
<1>3. Starts(c, r) /\ UNCHANGED <<rows, vault, usage, rotations>>
  BY DEF ResolveTarget
<1> HIDE DEF r
<1>. QED
  BY <1>2, <1>3, QuietStart

LEMMA DeleteStep ==
  ASSUME AdminInv, NEW c \in Calls,
         \/ \E a \in Accounts : DeleteAccount(c, a)
         \/ \E p \in Providers : DeleteProvider(c, p)
  PROVE  AdminInv'
<1>1. ASSUME NEW a \in Accounts, DeleteAccount(c, a) PROVE AdminInv'
  <2> DEFINE r == [NoCall EXCEPT !.at = "policies", !.on = a, !.saw = usage \cap {a}]
  <2>1. r \in HandlerCall /\ r.at = "policies" /\ r.on = a /\ r.saw = usage \cap {a}
    BY DEF NoCall, HandlerCall, HandlerStep
  <2>2. Starts(c, r) /\ UNCHANGED <<rows, vault, usage, rotations>>
    BY <1>1 DEF DeleteAccount
  <2> HIDE DEF r
  <2>. QED
    BY <2>1, <2>2, QuietStart
<1>2. ASSUME NEW p \in Providers, DeleteProvider(c, p) PROVE AdminInv'
  <2> DEFINE r == [NoCall EXCEPT !.at = "removeProvider", !.on = p]
  <2>1. r \in HandlerCall /\ r.at = "removeProvider" /\ r.saw = {}
    BY DEF NoCall, HandlerCall, HandlerStep
  <2>2. Starts(c, r) /\ UNCHANGED <<rows, vault, usage, rotations>>
    BY <1>2 DEF DeleteProvider
  <2> HIDE DEF r
  <2>. QED
    BY <2>1, <2>2, QuietStart
<1>. QED
  BY <1>1, <1>2

\* The row of an account changes its status only.
LEMMA StatusStep ==
  ASSUME AdminInv, NEW a \in Accounts, NEW s \in AccountStatus, SetStatus(a, s),
         UNCHANGED <<vault, usage, rotations>>,
         \/ UNCHANGED calls
         \/ \E c \in Calls : Ends(c)
  PROVE  AdminInv'
<1>1. /\ rows' \in [Accounts -> AccountRow]
      /\ \A b \in Accounts : /\ rows'[b].entry = rows[b].entry
                             /\ rows'[b].print = rows[b].print
                             /\ (rows'[b].status = "unborn") = (rows[b].status = "unborn")
                             /\ Exists(b)' = Exists(b)
  BY StatusMeans DEF AdminInv
<1>2. CASE UNCHANGED calls
  <2>1. CallsTyped' /\ HistoryInv'
    BY <1>1, <1>2 DEF AdminInv, CallsTyped, HistoryInv
  <2>2. RotationInv'
    BY <1>1, <1>2
    DEF AdminInv, RotationInv, AccountSound, InsertSound, RotationSound, Rotates, HasCredential
  <2>. QED
    BY <2>1, <2>2 DEF AdminInv
<1>3. ASSUME NEW c \in Calls, Ends(c) PROVE AdminInv'
  <2>1. /\ calls' \in [Calls -> HandlerCall]
        /\ calls'[c].at = "idle" /\ calls'[c].saw = {}
        /\ \A d \in Calls : d # c => calls'[d] = calls[d]
    BY <1>3, EndsMeans DEF AdminInv, OthersKept
  <2>2. CallsTyped' /\ HistoryInv'
    BY <1>1, <2>1 DEF AdminInv, CallsTyped, HistoryInv
  <2>3. RotationInv'
    BY <1>1, <2>1
    DEF AdminInv, RotationInv, AccountSound, InsertSound, RotationSound, Rotates, HasCredential
  <2>. QED
    BY <2>2, <2>3 DEF AdminInv
<1>. QED
  BY <1>2, <1>3

\* Statements that touch neither handlers nor credentials.
LEMMA StatementStep == AdminInv /\ Statement => AdminInv'
<1> SUFFICES ASSUME AdminInv, Statement PROVE AdminInv'
  OBVIOUS
<1>1. CASE UNCHANGED <<calls, rows, vault, rotations, usage>>
  BY <1>1 DEF AdminInv, CallsTyped, HistoryInv, RotationInv, AccountSound, InsertSound,
              RotationSound, Rotates, Exists, HasCredential
<1>2. ASSUME NEW a \in Accounts, NEW s \in AccountStatus, UpdateAccount(a, s) PROVE AdminInv'
  <2>1. SetStatus(a, s)
    BY <1>2 DEF UpdateAccount, SetStatus
  <2>2. UNCHANGED <<calls, vault, rotations, usage>>
    BY <1>2 DEF UpdateAccount
  <2>. QED
    BY <2>1, <2>2, StatusStep
<1>. QED
  BY <1>1, <1>2 DEF Statement, CreateProvider, SavePolicy, AttachRow, SavePool

LEMMA InsertAccountStep ==
  ASSUME AdminInv, NEW c \in Calls, InsertAccount(c)
  PROVE  AdminInv'
<1> DEFINE a == calls[c].on
<1>1. /\ calls[c].at = "insert" /\ a \in Accounts /\ rows[a].status = "unborn"
      /\ calls[c].key \in Keys /\ vault[a]["first"] = calls[c].key
      /\ \A d \in Calls : calls[d].at = "insert" /\ calls[d].on = a => c = d
      /\ rotations[a] = 0 /\ rows[a].entry = "first" /\ \A d \in Calls : ~Rotates(d, a)
  BY DEF InsertAccount, AdminInv, RotationInv, AccountSound, InsertSound
<1>2. UNCHANGED <<usage, rotations>>
  BY DEF InsertAccount
<1>3. /\ calls' \in [Calls -> HandlerCall] /\ calls'[c].at = "idle" /\ calls'[c].saw = {}
      /\ \A d \in Calls : d # c => calls'[d] = calls[d]
  BY EndsMeans DEF InsertAccount, AdminInv, OthersKept
<1>4. CASE UNCHANGED rows /\ PutEntry(a, "first", NoKey)
  <2>1. /\ vault' \in [Accounts -> [VaultEntry -> Keys \cup {NoKey}]]
        /\ vault'[a]["rot"] = vault[a]["rot"]
        /\ \A b \in Accounts : b # a => vault'[b]["first"] = vault[b]["first"]
                                       /\ vault'[b]["rot"] = vault[b]["rot"]
    BY <1>1, <1>4, EntryMeans DEF AdminInv, VaultEntry
  <2>2. \A b \in Accounts : rows[b].entry \in {"first", "rot"}
    BY DEF AdminInv, CallsTyped, AccountRow, VaultEntry
  <2>3. CallsTyped' /\ HistoryInv'
    BY <1>2, <1>3, <1>4, <2>1 DEF AdminInv, CallsTyped, HistoryInv
  <2>4. rows'[a].status \notin AccountStatus
    BY <1>1, <1>4 DEF Exists, AccountStatus
  <2>5. ASSUME NEW b \in Accounts PROVE AccountSound(b)'
    BY <1>1, <1>2, <1>3, <1>4, <2>1, <2>2, <2>4
    DEF AdminInv, RotationInv, AccountSound, Rotates, Exists, HasCredential
  <2>6. ASSUME NEW d \in Calls PROVE InsertSound(d)' /\ RotationSound(d)'
    BY <1>1, <1>2, <1>3, <1>4, <2>1 DEF AdminInv, RotationInv, InsertSound, RotationSound
  <2>. QED
    BY <2>3, <2>5, <2>6 DEF AdminInv, RotationInv
<1>5. CASE /\ calls[c].under \in providers
           /\ rows' = [rows EXCEPT ![a] = [status |-> "active", provider |-> calls[c].under,
                                           entry |-> "first", print |-> calls[c].key]]
           /\ UNCHANGED vault
  <2>1. /\ rows' \in [Accounts -> AccountRow]
        /\ \A b \in Accounts \ {a} : rows'[b] = rows[b]
        /\ rows'[a].status = "active" /\ rows'[a].entry = "first" /\ rows'[a].print = calls[c].key
    <3>1. calls[c].under \in Providers \cup {Nothing}
      BY CallFields DEF AdminInv
    <3>. QED
      BY <1>1, <1>5, <3>1 DEF AdminInv, CallsTyped, AccountRow, AccountStatus, VaultEntry
  <2>2. CallsTyped' /\ HistoryInv'
    BY <1>2, <1>3, <1>5, <2>1 DEF AdminInv, CallsTyped, HistoryInv
  <2>3. calls[c].key # NoKey
    BY <1>1, AdministrationAssumption
  <2>4. RotationInv'
    BY <1>1, <1>2, <1>3, <1>5, <2>1, <2>3
    DEF AdminInv, RotationInv, AccountSound, InsertSound, RotationSound, Rotates, Exists, HasCredential
  <2>. QED
    BY <2>2, <2>4 DEF AdminInv
<1>. QED
  BY <1>4, <1>5 DEF InsertAccount

\* A rotation that fails before its switch: its entry is not the row's, unless
\* there was a rotation before.
LEMMA RotationFails ==
  ASSUME AdminInv, NEW c \in Calls, calls[c].at \in {"validate", "switch"},
         PutEntry(calls[c].on, "rot", NoKey), Ends(c), UNCHANGED <<rows, usage, rotations>>
  PROVE  AdminInv'
<1> DEFINE a == calls[c].on
<1>1. /\ a \in Accounts /\ Rotates(c, a) /\ rotations[a] # 0
      /\ rotations[a] <= 1 => rows[a].entry # "rot"
  BY DEF AdminInv, RotationInv, AccountSound, RotationSound, Rotates
<1>2. /\ calls' \in [Calls -> HandlerCall] /\ calls'[c].at = "idle" /\ calls'[c].saw = {}
      /\ \A d \in Calls : d # c => calls'[d] = calls[d]
  BY EndsMeans DEF AdminInv, OthersKept
<1>3. /\ vault' \in [Accounts -> [VaultEntry -> Keys \cup {NoKey}]]
      /\ vault'[a]["first"] = vault[a]["first"]
      /\ \A b \in Accounts : b # a => vault'[b]["first"] = vault[b]["first"]
                                     /\ vault'[b]["rot"] = vault[b]["rot"]
  BY <1>1, EntryMeans DEF AdminInv, VaultEntry
<1>4. \A b \in Accounts : rows[b].entry \in {"first", "rot"}
  BY DEF AdminInv, CallsTyped, AccountRow, VaultEntry
<1>5. CallsTyped' /\ HistoryInv'
  BY <1>2, <1>3 DEF AdminInv, CallsTyped, HistoryInv
<1>6. ASSUME NEW b \in Accounts PROVE AccountSound(b)'
  BY <1>1, <1>2, <1>3, <1>4
  DEF AdminInv, RotationInv, AccountSound, Rotates, Exists, HasCredential
<1>7. ASSUME NEW d \in Calls PROVE InsertSound(d)'
  BY <1>1, <1>2, <1>3 DEF AdminInv, RotationInv, InsertSound
<1>8. ASSUME NEW d \in Calls PROVE RotationSound(d)'
  BY <1>1, <1>2, <1>3 DEF AdminInv, RotationInv, AccountSound, RotationSound, Rotates
<1>. QED
  BY <1>5, <1>6, <1>7, <1>8 DEF AdminInv, RotationInv

LEMMA ValidateNewKeyStep ==
  ASSUME AdminInv, NEW c \in Calls, ValidateNewKey(c)
  PROVE  AdminInv'
<1>1. CASE Goes(c, "switch") /\ UNCHANGED vault
  <2>1. calls[c].at = "validate" /\ UNCHANGED <<rows, usage, rotations>>
    BY DEF ValidateNewKey
  <2>2. /\ calls' \in [Calls -> HandlerCall] /\ calls'[c].at = "switch"
        /\ calls'[c].on = calls[c].on /\ calls'[c].key = calls[c].key
        /\ calls'[c].saw = calls[c].saw
        /\ \A d \in Calls : d # c => calls'[d] = calls[d]
    BY <1>1, GoesMeans DEF AdminInv, OthersKept, HandlerStep
  <2>3. CallsTyped' /\ HistoryInv'
    BY <1>1, <2>1, <2>2 DEF AdminInv, CallsTyped, HistoryInv
  <2>4. RotationInv'
    BY <1>1, <2>1, <2>2
    DEF AdminInv, RotationInv, AccountSound, InsertSound, RotationSound, Rotates, Exists, HasCredential
  <2>. QED
    BY <2>3, <2>4 DEF AdminInv
<1>2. CASE PutEntry(calls[c].on, "rot", NoKey) /\ Ends(c)
  BY <1>2, RotationFails DEF ValidateNewKey
<1>. QED
  BY <1>1, <1>2 DEF ValidateNewKey

\* The row of account a is switched over to the entry of call c.
LEMMA SwitchedOver ==
  ASSUME AdminInv, NEW c \in Calls, NEW a, a = calls[c].on, SwitchCredential(c),
         Exists(a), Goes(c, "activate"), UNCHANGED vault,
         rows' = [rows EXCEPT ![a].entry = "rot", ![a].print = calls[c].key]
  PROVE  AdminInv'
<1>1. /\ calls[c].at = "switch" /\ UNCHANGED <<usage, rotations>>
      /\ a \in Accounts /\ calls[c].key \in Keys /\ calls[c].key # NoKey
  BY AdministrationAssumption DEF SwitchCredential, AdminInv, RotationInv, RotationSound
<1>2. Rotates(c, a) /\ AccountSound(a) /\ RotationSound(c)
  BY <1>1 DEF AdminInv, RotationInv, Rotates
<1>3. /\ rotations[a] \in 0..2 /\ rotations[a] # 0
      /\ rotations[a] <= 1 => /\ vault[a]["rot"] = calls[c].key
                              /\ \A d \in Calls : Rotates(d, a) => d = c
  BY <1>1, <1>2 DEF AdminInv, CallsTyped, AccountSound, RotationSound
<1>4. /\ calls' \in [Calls -> HandlerCall] /\ calls'[c].at = "activate"
      /\ calls'[c].on = a /\ calls'[c].key = calls[c].key
      /\ calls'[c].saw = calls[c].saw
      /\ \A d \in Calls : d # c => calls'[d] = calls[d]
  BY GoesMeans DEF AdminInv, OthersKept, HandlerStep
<1>5. /\ rows' \in [Accounts -> AccountRow]
      /\ \A b \in Accounts \ {a} : rows'[b] = rows[b]
      /\ rows'[a].status = rows[a].status
      /\ rows'[a].entry = "rot" /\ rows'[a].print = calls[c].key
  <2> DEFINE new == [[rows[a] EXCEPT !.entry = "rot"] EXCEPT !.print = calls[c].key]
  <2>1. rows[a] \in AccountRow
    BY <1>1 DEF AdminInv, CallsTyped
  <2>2. rows' = [rows EXCEPT ![a] = new]
    BY <1>1, <2>1 DEF AdminInv, CallsTyped
  <2>3. /\ new \in AccountRow /\ new.status = rows[a].status
        /\ new.entry = "rot" /\ new.print = calls[c].key
    BY <1>1, <2>1 DEF AccountRow, VaultEntry
  <2> HIDE DEF new
  <2>. QED
    BY <1>1, <2>2, <2>3 DEF AdminInv, CallsTyped
<1>6. CallsTyped' /\ HistoryInv'
  <2>1. /\ vault' \in [Accounts -> [VaultEntry -> Keys \cup {NoKey}]]
        /\ rotations' \in [Accounts -> 0..2]
        /\ \A d \in Calls : calls[d].at \notin {"idle", "removeProvider"} => calls[d].on \in Accounts
    BY <1>1 DEF AdminInv, CallsTyped
  <2>2. CallsTyped'
    BY <1>1, <1>4, <1>5, <2>1 DEF CallsTyped
  <2>3. \A d \in Calls : /\ calls'[d].saw = calls[d].saw
                         /\ calls'[d].at = "remove" => calls'[d] = calls[d]
    BY <1>4
  <2>4. HistoryInv'
    BY <1>1, <2>3 DEF AdminInv, HistoryInv
  <2>. QED
    BY <2>2, <2>4
<1>7. rows[a].status # "unborn"
  BY DEF Exists, AccountStatus
<1>8. ASSUME NEW b \in Accounts PROVE AccountSound(b)'
  <2>1. CASE b = a
    <3>1. rows'[a].status # "unborn" /\ rotations'[a] # 0 /\ rotations'[a] = rotations[a]
      BY <1>1, <1>3, <1>5, <1>7
    <3>2. rotations'[a] <= 1 => HasCredential(a)'
      BY <1>1, <1>3, <1>5, <3>1 DEF HasCredential
    <3>3. rotations'[a] <= 1 => \A d \in Calls : Rotates(d, a)' => d = c
      BY <1>3, <1>4, <3>1 DEF Rotates
    <3>4. rotations'[a] <= 1 =>
             \A d \in Calls : calls'[d].on = a => calls'[d].at \notin {"validate", "switch"}
      BY <1>4, <3>3 DEF Rotates
    <3>5. AccountSound(a)'
      BY <3>1, <3>2, <3>3, <3>4 DEF AccountSound
    <3>. QED
      BY <2>1, <3>5
  <2>2. CASE b # a
    <3>1. /\ rows'[b] = rows[b] /\ rotations'[b] = rotations[b]
          /\ vault'[b]["first"] = vault[b]["first"] /\ vault'[b]["rot"] = vault[b]["rot"]
      BY <1>1, <1>5, <2>2
    <3>2. \A d \in Calls : calls'[d].on = b /\ calls'[d].at \in {"validate", "switch", "activate"}
                           => \/ calls'[d] = calls[d]
                              \/ /\ calls[d].on = b /\ calls[d].at = "switch"
                                 /\ calls'[d].at = "activate"
      BY <1>4, <2>2
    <3>. QED
      BY <3>1, <3>2, UntouchedSound
  <2>. QED
    BY <2>1, <2>2
<1>9. ASSUME NEW d \in Calls PROVE InsertSound(d)'
  <2>1. InsertSound(d)
    BY DEF AdminInv, RotationInv
  <2>2. calls'[d].at = "insert" => d # c /\ calls'[d] = calls[d]
    BY <1>4
  <2>3. calls'[d].at = "insert" =>
           /\ calls[d].on # a
           /\ \A e \in Calls : calls'[e].at = "insert" => calls'[e] = calls[e]
    BY <1>4, <1>7, <2>1, <2>2 DEF InsertSound
  <2>. QED
    BY <1>5, <2>1, <2>2, <2>3 DEF InsertSound
<1>10. ASSUME NEW d \in Calls PROVE RotationSound(d)'
  <2>1. RotationSound(d)
    BY DEF AdminInv, RotationInv
  <2>2. CASE d = c
    BY <1>1, <1>4, <2>2 DEF RotationSound
  <2>3. CASE d # c
    BY <1>1, <1>4, <2>1, <2>3 DEF RotationSound
  <2>. QED
    BY <2>2, <2>3
<1>. QED
  BY <1>6, <1>8, <1>9, <1>10 DEF AdminInv, RotationInv

LEMMA SwitchCredentialStep ==
  ASSUME AdminInv, NEW c \in Calls, SwitchCredential(c)
  PROVE  AdminInv'
<1> DEFINE a == calls[c].on
<1>1. CASE /\ Exists(a)
           /\ rows' = [rows EXCEPT ![a].entry = "rot", ![a].print = calls[c].key]
           /\ Goes(c, "activate")
           /\ UNCHANGED vault
  BY <1>1, SwitchedOver
<1>2. CASE PutEntry(a, "rot", NoKey) /\ Ends(c) /\ UNCHANGED rows
  BY <1>2, RotationFails DEF SwitchCredential
<1>. QED
  BY <1>1, <1>2 DEF SwitchCredential

\* A handler that goes on or ends without touching rows or entries.
LEMMA QuietStep ==
  ASSUME AdminInv, NEW c \in Calls, UNCHANGED <<rows, vault, rotations>>, usage \subseteq usage',
         calls[c].at \notin {"idle", "removeProvider"},
         calls' \in [Calls -> HandlerCall], OthersKept(c),
         \/ calls'[c].at = "idle" /\ calls'[c].saw = {}
         \/ /\ calls'[c].at \in {"list", "usage", "remove"}
            /\ calls'[c].on = calls[c].on /\ calls'[c].saw = calls[c].saw
            /\ calls'[c].at = "remove" => calls[c].on \notin usage \/ calls'[c].blind
  PROVE  AdminInv'
<1>1. CallsTyped'
  BY DEF AdminInv, CallsTyped, OthersKept
<1>2. ASSUME NEW d \in Calls
      PROVE  /\ calls'[d].saw \subseteq usage'
             /\ calls'[d].at = "remove" /\ calls'[d].on \in calls'[d].saw => calls'[d].blind
  <2>1. CASE d = c
    BY <2>1 DEF AdminInv, HistoryInv
  <2>2. CASE d # c
    BY <2>2 DEF AdminInv, HistoryInv, OthersKept
  <2>. QED
    BY <2>1, <2>2
<1>3. RotationInv'
  BY DEF AdminInv, RotationInv, AccountSound, InsertSound, RotationSound, Rotates, Exists,
         HasCredential, OthersKept
<1>. QED
  BY <1>1, <1>2, <1>3 DEF AdminInv, HistoryInv

LEMMA RemoveStep ==
  ASSUME AdminInv, NEW c \in Calls, RemoveAccount(c) \/ RemoveProvider(c)
  PROVE  AdminInv'
<1>1. /\ calls' \in [Calls -> HandlerCall] /\ calls'[c].at = "idle" /\ calls'[c].saw = {}
      /\ \A d \in Calls : d # c => calls'[d] = calls[d]
  BY EndsMeans DEF RemoveAccount, RemoveProvider, AdminInv, OthersKept
<1>2. UNCHANGED <<vault, usage, rotations>>
  BY DEF RemoveAccount, RemoveProvider
<1>3. /\ rows' \in [Accounts -> AccountRow]
      /\ \A b \in Accounts : /\ rows'[b].entry = rows[b].entry
                             /\ rows'[b].print = rows[b].print
                             /\ (rows'[b].status = "unborn") = (rows[b].status = "unborn")
                             /\ Exists(b)' => Exists(b)
  <2>1. CASE UNCHANGED rows
    BY <2>1 DEF AdminInv, CallsTyped, Exists
  <2>2. CASE /\ Exists(calls[c].on) /\ calls[c].at = "remove"
             /\ rows' = [rows EXCEPT ![calls[c].on].status = "gone"]
    <3> DEFINE a == calls[c].on
    <3>1. a \in Accounts /\ rows[a] \in AccountRow /\ rows[a].status # "unborn"
      BY <2>2, CallFields DEF AdminInv, CallsTyped, Exists, AccountStatus
    <3> HIDE DEF a
    <3>2. /\ rows' = [rows EXCEPT ![a] = [rows[a] EXCEPT !.status = "gone"]]
          /\ [rows[a] EXCEPT !.status = "gone"] \in AccountRow
      BY <2>2, <3>1 DEF AccountRow, a
    <3>3. /\ rows'[a].status = "gone" /\ rows'[a].entry = rows[a].entry
          /\ rows'[a].print = rows[a].print
          /\ \A b \in Accounts \ {a} : rows'[b] = rows[b]
      BY <3>1, <3>2 DEF AdminInv, CallsTyped, AccountRow
    <3>4. Exists(a)
      BY <2>2 DEF a
    <3>5. rows' \in [Accounts -> AccountRow]
      BY <3>1, <3>2 DEF AdminInv, CallsTyped
    <3>. QED
      BY <3>1, <3>3, <3>4, <3>5 DEF Exists
  <2>. QED
    BY <2>1, <2>2 DEF RemoveAccount, RemoveProvider
<1>4. CallsTyped' /\ HistoryInv'
  BY <1>1, <1>2, <1>3 DEF AdminInv, CallsTyped, HistoryInv
<1>5. ASSUME NEW b \in Accounts PROVE AccountSound(b)'
  <2>1. HasCredential(b)' = HasCredential(b)
    BY <1>2, <1>3 DEF HasCredential
  <2>2. \A d \in Calls : Rotates(d, b)' => Rotates(d, b)
    BY <1>1 DEF Rotates
  <2>. QED
    BY <1>1, <1>2, <1>3, <2>1, <2>2 DEF AdminInv, RotationInv, AccountSound
<1>6. ASSUME NEW d \in Calls PROVE InsertSound(d)' /\ RotationSound(d)'
  BY <1>1, <1>2, <1>3 DEF AdminInv, RotationInv, InsertSound, RotationSound
<1>. QED
  BY <1>4, <1>5, <1>6 DEF AdminInv, RotationInv

LEMMA CallGoesOnStep ==
  ASSUME AdminInv, NEW c \in Calls, CallGoesOn(c)
  PROVE  AdminInv'
<1>0. calls[c].at # "idle" /\ calls[c].at # "removeProvider" => calls[c].on \in Accounts
  BY CallFields DEF AdminInv
<1>1. CASE ActivateRotated(c)
  BY <1>0, <1>1, StatusStep DEF ActivateRotated, AccountStatus
<1>2. CASE Verify(c)
  BY <1>0, <1>2, StatusStep DEF Verify, AccountStatus
<1>3. CASE UpsertModels(c)
  <2>1. CASE Goes(c, "list")
    BY <1>3, <2>1, GoesMeans, QuietStep DEF UpsertModels, AdminInv, HandlerStep
  <2>2. CASE Ends(c)
    BY <1>3, <2>2, EndsMeans, QuietStep DEF UpsertModels, AdminInv
  <2>. QED
    BY <1>3, <2>1, <2>2 DEF UpsertModels
<1>4. CASE SaveAccountModels(c) \/ RecordUsage(c)
  <2>1. /\ Ends(c) /\ UNCHANGED <<rows, vault, rotations>> /\ usage \subseteq usage'
        /\ calls[c].at \notin {"idle", "removeProvider"}
    BY <1>4 DEF SaveAccountModels, RecordUsage
  <2>. QED
    BY <2>1, EndsMeans, QuietStep DEF AdminInv
<1>5. CASE CountCandidates(c)
  <2>1. PICK n : CountOrIgnore(c, n, "usage")
    BY <1>5 DEF CountCandidates
  <2>2. calls[c].at = "policies" /\ UNCHANGED <<rows, vault, usage, rotations>>
    BY <1>5 DEF CountCandidates
  <2>. QED
    BY <2>1, <2>2, CountMeans, QuietStep DEF AdminInv, HandlerStep
<1>6. CASE CountUsage(c)
  <2> DEFINE n == IF calls[c].on \in usage THEN 1 ELSE 0
  <2>1. /\ CountOrIgnore(c, n, "remove") /\ calls[c].at = "usage"
        /\ UNCHANGED <<rows, vault, usage, rotations>>
    BY <1>6 DEF CountUsage
  <2>2. n = 0 => calls[c].on \notin usage
    OBVIOUS
  <2> HIDE DEF n
  <2>. QED
    BY <2>1, <2>2, CountMeans, QuietStep DEF AdminInv, HandlerStep
<1>. QED
  BY <1>1, <1>2, <1>3, <1>4, <1>5, <1>6, InsertAccountStep, ValidateNewKeyStep,
     SwitchCredentialStep, RemoveStep
  DEF CallGoesOn

LEMMA AdminInvHolds == AdminSpec => []AdminInv
<1>1. AdminInit => AdminInv
  <2> SUFFICES ASSUME AdminInit PROVE AdminInv
    OBVIOUS
  <2>1. NoCall \in HandlerCall /\ NoCall.at = "idle" /\ NoCall.saw = {}
    BY DEF NoCall, HandlerCall, HandlerStep
  <2>2. Unborn \in AccountRow /\ Unborn.status = "unborn" /\ Unborn.entry = "first"
    BY DEF Unborn, AccountRow, VaultEntry
  <2>. QED
    BY <2>1, <2>2 DEF AdminInit, AdminInv, CallsTyped, HistoryInv, RotationInv, AccountSound,
       InsertSound, RotationSound, Rotates, Exists, AccountStatus, VaultEntry
<1>2. AdminInv /\ [AdminNext]_adminVars => AdminInv'
  <2> SUFFICES ASSUME AdminInv, [AdminNext]_adminVars PROVE AdminInv'
    OBVIOUS
  <2>1. ASSUME NEW c \in Calls, CallStarts(c) PROVE AdminInv'
    BY <2>1, CreateAccountStep, StoreNewKeyStep, ResolveTargetStep, DeleteStep DEF CallStarts
  <2>2. CASE AdminRestart
    <3>1. NoCall \in HandlerCall /\ NoCall.at = "idle" /\ NoCall.saw = {}
      BY DEF NoCall, HandlerCall, HandlerStep
    <3>2. CallsTyped' /\ HistoryInv'
      BY <2>2, <3>1 DEF AdminRestart, AdminInv, CallsTyped, HistoryInv
    <3>3. RotationInv'
      BY <2>2, <3>1 DEF AdminRestart, AdminInv, RotationInv, AccountSound, InsertSound,
         RotationSound, Rotates, Exists, HasCredential
    <3>. QED
      BY <3>2, <3>3 DEF AdminInv
  <2>3. CASE UNCHANGED adminVars
    BY <2>3 DEF adminVars, AdminInv, CallsTyped, HistoryInv, RotationInv, AccountSound,
       InsertSound, RotationSound, Rotates, Exists, HasCredential
  <2>. QED
    BY <2>1, <2>2, <2>3, StatementStep, CallGoesOnStep DEF AdminNext
<1>. QED
  BY <1>1, <1>2, PTL DEF AdminSpec

\* A first rotation never costs an account its credential: for any accounts,
\* keys and requests, however they interleave, fail or are cut off.
THEOREM FirstRotationIsSafeHolds == AdminSpec => []FirstRotationIsSafe
<1>1. AdminInv => FirstRotationIsSafe
  BY DEF AdminInv, RotationInv, AccountSound, FirstRotationIsSafe
<1>. QED
  BY <1>1, AdminInvHolds, PTL

\* No account that had usage when its deletion began is deleted, unless the
\* count of its usage failed.
THEOREM HistoryProtectsHolds == AdminSpec => HistoryProtects
<1>1. AdminInv /\ [AdminNext]_adminVars =>
        [\A c \in Calls, a \in Accounts :
           (/\ calls[c].at = "remove" /\ calls[c].on = a
            /\ rows[a].status # "gone" /\ rows'[a].status = "gone")
           => a \notin calls[c].saw \/ calls[c].blind]_adminVars
  BY DEF AdminInv, HistoryInv
<1>. QED
  BY <1>1, AdminInvHolds, PTL DEF AdminSpec, HistoryProtects
-----------------------------------------------------------------------------
(* Streams of the chat relay.                                               *)

Marked == \E i \in DOMAIN received : Marks(received[i])

\* While the stream runs the connector's flag says whether the end marker
\* has come; a stream that has ended is judged by what the flag was.
StreamInv ==
    /\ dialect \in Dialect
    /\ received \in Seq(EventKind)
    /\ finished \in BOOLEAN
    /\ ending = "none" => finished = Marked
    /\ SuccessMeansComplete

LEMMA MarkedAfter ==
  ASSUME received \in Seq(EventKind), NEW kind \in EventKind,
         received' = Append(received, kind), UNCHANGED dialect
  PROVE  /\ received' \in Seq(EventKind)
         /\ Marked' = (Marked \/ Marks(kind))
<1>1. /\ received' \in Seq(EventKind)
      /\ DOMAIN received' = 1..(Len(received) + 1)
      /\ DOMAIN received = 1..Len(received) /\ Len(received) \in Nat
      /\ received'[Len(received) + 1] = kind
      /\ \A i \in DOMAIN received : received'[i] = received[i]
  OBVIOUS
<1> DEFINE M(k) == k = "marker" \/ (dialect = "openai" /\ k = "mention")
<1>2. /\ Marked = \E i \in DOMAIN received : M(received[i])
      /\ Marked' = \E i \in DOMAIN received' : M(received'[i])
      /\ Marks(kind) = M(kind)
  BY DEF Marked, Marks
<1>3. /\ (\E i \in DOMAIN received' : M(received'[i]))
            => (\E i \in DOMAIN received : M(received[i])) \/ M(kind)
      /\ (\E i \in DOMAIN received : M(received[i]))
            => \E i \in DOMAIN received' : M(received'[i])
      /\ M(kind) => \E i \in DOMAIN received' : M(received'[i])
  BY <1>1
<1> HIDE DEF M
<1>. QED
  BY <1>1, <1>2, <1>3

\* What an end makes of the outcome, by the flag at that moment.
LEMMA EndJudges ==
  ASSUME dialect \in Dialect, UNCHANGED dialect, NEW how, NEW done \in BOOLEAN, End(how, done)
  PROVE  /\ ending' = how /\ finished' = done
         /\ (outcome' = "ok") = (how = "eof" /\ done)
BY DEF End, Outcome, OpenAIOutcome, TranslatorOutcome, Dialect

LEMMA StreamStep ==
  ASSUME StreamInv, [StreamNext]_streamVars
  PROVE  StreamInv'
<1> USE DEF StreamInv
<1>1. ASSUME NEW kind \in EventKind, Event(kind) PROVE StreamInv'
  <2>1. /\ received' = Append(received, kind) /\ UNCHANGED <<dialect, ending>>
        /\ ending = "none" /\ finished' = (finished \/ Marks(kind))
    BY <1>1 DEF Event
  <2>. QED
    BY <2>1, MarkedAfter DEF SuccessMeansComplete
<1>2. ASSUME NEW kind \in EventKind, WriteFails(kind) PROVE StreamInv'
  <2> DEFINE done == finished \/ (Marks(kind) /\ dialect # "anthropic")
  <2>1. /\ received' = Append(received, kind) /\ UNCHANGED dialect
        /\ End("write", done)
    BY <1>2 DEF WriteFails, End
  <2>2. done \in BOOLEAN
    OBVIOUS
  <2>3. ending' = "write" /\ finished' \in BOOLEAN /\ outcome' # "ok"
    <3> HIDE DEF done
    <3>. QED
      BY <2>1, <2>2, EndJudges
  <2>. QED
    BY <2>1, <2>3, MarkedAfter DEF SuccessMeansComplete
<1>3. ASSUME NEW kind \in EventKind, NEW how \in {"eof", "broken", "canceled"},
             EndsInsideReadable(kind, how)
      PROVE  StreamInv'
  <2>1. /\ received' = Append(received, kind) /\ UNCHANGED dialect
        /\ End(how, finished \/ Marks(kind)) /\ ending = "none"
    BY <1>3 DEF EndsInsideReadable, End
  <2>2. /\ ending' = how /\ finished' \in BOOLEAN
        /\ (outcome' = "ok") = (how = "eof" /\ (finished \/ Marks(kind)))
    BY <2>1, EndJudges DEF Marks
  <2>3. Marked' = (finished \/ Marks(kind)) /\ received' \in Seq(EventKind)
    BY <2>1, MarkedAfter
  <2>. QED
    BY <2>1, <2>2, <2>3 DEF SuccessMeansComplete, Marked
<1>4. ASSUME NEW how \in {"eof", "write", "status", "broken", "canceled"},
             End(how, finished), UNCHANGED received, ending = "none"
      PROVE  StreamInv'
  <2>1. UNCHANGED dialect
    BY <1>4 DEF End
  <2>2. /\ ending' = how /\ finished' = finished
        /\ (outcome' = "ok") = (how = "eof" /\ finished)
    BY <1>4, <2>1, EndJudges
  <2>3. Marked' = Marked
    BY <1>4, <2>1 DEF Marked, Marks
  <2>. QED
    BY <1>4, <2>1, <2>2, <2>3 DEF SuccessMeansComplete, Marked
<1>5. CASE Unreachable
  BY <1>5 DEF Unreachable, SuccessMeansComplete
<1>6. CASE UNCHANGED streamVars
  BY <1>6 DEF streamVars, SuccessMeansComplete, Marked, Marks
<1>. QED
  BY <1>1, <1>2, <1>3, <1>4, <1>5, <1>6
     DEF StreamNext, EndsInsideFragment, Refused, StreamEnds

LEMMA StreamInvHolds == StreamSpec => []StreamInv
<1>1. ASSUME StreamInit PROVE StreamInv
  <2>1. received \in Seq(EventKind) /\ DOMAIN received = {}
    BY <1>1 DEF StreamInit
  <2>2. Marked = FALSE
    BY <2>1 DEF Marked
  <2>. QED
    BY <1>1, <2>1, <2>2 DEF StreamInit, StreamInv, SuccessMeansComplete
<1>. QED
  BY <1>1, StreamStep, PTL DEF StreamSpec

\* A call of the chat relay is a success exactly if its stream ended regularly
\* with the platform's end marker: a reply that was cut off never counts as
\* one (ForwardStream of the three connectors).
THEOREM SuccessMeansCompleteHolds == StreamSpec => []SuccessMeansComplete
<1>1. StreamInv => SuccessMeansComplete
  BY DEF StreamInv
<1>. QED
  BY <1>1, StreamInvHolds, PTL

-----------------------------------------------------------------------------
(* What the client of a stream reads.                                       *)

WireItem == [kind : EventKind \cup {"finish", "fragment", "blank"}, of : 0..MaxEvents]

TextItems == {chunk \in WireItem : IsText(chunk)}

CarryKinds == {kind \in EventKind : Carries(kind)}

\* Every chunk is closed by a blank line before the next one, and at most one
\* chunk says that the reply ends.
WireSound(w) ==
    /\ w \in Seq(WireItem)
    /\ \A i \in 1..(Len(w) - 1) : w[i] = Blank \/ w[i + 1] = Blank
    /\ \A i, j \in DOMAIN w : w[i].kind = "finish" /\ w[j].kind = "finish" => i = j

\* The next chunk starts on a line of its own.
WireOpen(w) == w = <<>> \/ w[Len(w)] = Blank

HasFinish(w) == \E i \in DOMAIN w : w[i].kind = "finish"

HasEnd(events) == \E i \in DOMAIN events : events[i] \in {"marker", "stop"}

\* Why no second chunk says that the reply ends: what says so is due to the
\* platform's marker or to message_stop, which nothing else follows.
ReadsInv ==
    /\ StreamTypeOK
    /\ ClientReadsUpstream
    /\ ending = "none" => /\ WireOpen(wire)
                          /\ HasFinish(wire) => HasEnd(received)

LEMMA Extended ==
  ASSUME NEW T, NEW s \in Seq(T), NEW e \in T
  PROVE  LET t == Append(s, e)
         IN  /\ t \in Seq(T) /\ t # <<>> /\ Len(s) \in Nat /\ Len(t) = Len(s) + 1
             /\ DOMAIN s = 1..Len(s) /\ DOMAIN t = 1..(Len(s) + 1)
             /\ \A k \in DOMAIN s : t[k] = s[k]
             /\ t[Len(s) + 1] = e
<1> DEFINE t == Append(s, e)
<1>1. /\ t \in Seq(T) /\ Len(t) = Len(s) + 1 /\ t[Len(s) + 1] = e /\ Len(s) \in Nat /\ t # <<>>
      /\ \A k \in 1..Len(s) : t[k] = s[k]
  BY AppendProperties
<1> HIDE DEF t
<1>. QED
  BY <1>1 DEF t

LEMMA BlankIsItem == Blank \in WireItem /\ Blank \notin TextItems /\ Blank.kind = "blank"
BY StreamAssumption DEF Blank, WireItem, TextItems, IsText

\* A text is read once more, and what is none is not read.
LEMMA ReadFromGrows ==
  ASSUME NEW w \in Seq(WireItem), NEW chunk \in WireItem
  PROVE  /\ ReadFrom(Append(w, chunk)) = IF IsText(chunk)
                                         THEN Append(ReadFrom(w), chunk.of)
                                         ELSE ReadFrom(w)
         /\ ReadFrom(w) \in Seq(Nat)
<1> DEFINE t == Append(w, chunk)
           places == PlacesOf(w, TextItems)
           more == PlacesOf(t, TextItems)
           n == Len(places)
<1>1. /\ t \in Seq(WireItem) /\ Len(w) \in Nat
      /\ DOMAIN w = 1..Len(w) /\ DOMAIN t = 1..(Len(w) + 1)
      /\ \A k \in DOMAIN w : t[k] = w[k]
      /\ t[Len(w) + 1] = chunk
  BY Extended
<1>2. \A s \in Seq(WireItem) : \A i \in DOMAIN s : s[i] \in TextItems <=> IsText(s[i])
  BY DEF TextItems
<1>3. {i \in DOMAIN w : IsText(w[i])} = {i \in DOMAIN w : w[i] \in TextItems}
  BY <1>2
<1> HIDE DEF t
<1>4. {i \in DOMAIN t : IsText(t[i])} = {i \in DOMAIN t : t[i] \in TextItems}
  BY <1>1, <1>2
<1>5. /\ more = IF chunk \in TextItems THEN Append(places, Len(w) + 1) ELSE places
      /\ places \in Seq(Nat)
      /\ \A k \in DOMAIN places : places[k] \in DOMAIN w
  BY PlacesGrow DEF t
<1>6. ReadFrom(w) = [k \in DOMAIN places |-> w[places[k]].of]
  BY <1>3 DEF ReadFrom, PlacesOf
<1>7. ReadFrom(t) = [k \in DOMAIN more |-> t[more[k]].of]
  BY <1>4 DEF ReadFrom, PlacesOf
<1>8. chunk \in TextItems <=> IsText(chunk)
  BY DEF TextItems
<1> HIDE DEF places, more
<1>9. n \in Nat /\ DOMAIN places = 1..n
  BY <1>5
<1>10. \A item \in WireItem : item.of \in Nat
  BY StreamAssumption DEF WireItem
<1> HIDE DEF n
<1>11. \A k \in 1..n : places[k] \in DOMAIN w /\ t[places[k]] = w[places[k]] /\ w[places[k]] \in WireItem
  <2>1. \A i \in DOMAIN w : w[i] \in WireItem
    BY <1>1, ElementOfSeq
  <2>. QED
    BY <1>1, <1>5, <1>9, <2>1
<1>12. ReadFrom(w) \in [1..n -> Nat]
  BY <1>6, <1>9, <1>10, <1>11
<1>13. ReadFrom(w) \in Seq(Nat) /\ Len(ReadFrom(w)) = n
  BY <1>9, <1>12
<1>14. CASE IsText(chunk)
  <2>1. /\ more \in Seq(Nat) /\ Len(more) = n + 1 /\ DOMAIN more = 1..(n + 1)
        /\ \A k \in 1..n : more[k] = places[k]
        /\ more[n + 1] = Len(w) + 1
    <3>1. more = Append(places, Len(w) + 1) /\ Len(w) + 1 \in Nat
      BY <1>1, <1>5, <1>8, <1>14
    <3>. QED
      BY <1>5, <1>9, <3>1, Extended DEF n
  <2>2. /\ DOMAIN ReadFrom(t) = 1..(n + 1)
        /\ \A k \in 1..(n + 1) : ReadFrom(t)[k] = t[more[k]].of
    BY <1>7, <2>1
  <2>3. \A k \in 1..n : ReadFrom(t)[k] = ReadFrom(w)[k] /\ ReadFrom(w)[k] \in Nat
    <3>1. ASSUME NEW k \in 1..n PROVE ReadFrom(t)[k] = ReadFrom(w)[k]
      <4>1. k \in 1..(n + 1) /\ more[k] = places[k]
        BY <1>9, <2>1
      <4>2. ReadFrom(t)[k] = t[places[k]].of /\ ReadFrom(w)[k] = w[places[k]].of
        BY <1>6, <1>9, <2>2, <4>1
      <4>. QED
        BY <1>11, <4>2
    <3>. QED
      BY <1>12, <3>1
  <2>4. ReadFrom(t)[n + 1] = chunk.of
    BY <1>1, <1>9, <2>1, <2>2
  <2>5. ReadFrom(t) \in [1..(n + 1) -> Nat]
    <3>1. \A k \in 1..(n + 1) : k \in 1..n \/ k = n + 1
      BY <1>9
    <3>2. \A k \in 1..(n + 1) : ReadFrom(t)[k] \in Nat
      BY <1>10, <2>3, <2>4, <3>1
    <3>3. ReadFrom(t) = [k \in 1..(n + 1) |-> ReadFrom(t)[k]]
      BY <1>7, <2>1
    <3>. QED
      BY <3>2, <3>3
  <2>6. ReadFrom(t) \in Seq(Nat) /\ Len(ReadFrom(t)) = n + 1
    BY <1>9, <2>5
  <2> DEFINE read == Append(ReadFrom(w), chunk.of)
  <2>7. /\ read \in Seq(Nat) /\ Len(read) = n + 1
        /\ \A k \in 1..n : read[k] = ReadFrom(w)[k]
        /\ read[n + 1] = chunk.of
    BY <1>10, <1>13, AppendProperties
  <2> HIDE DEF read
  <2>8. \A k \in 1..(n + 1) : ReadFrom(t)[k] = read[k]
    <3>1. \A k \in 1..(n + 1) : k \in 1..n \/ k = n + 1
      BY <1>9
    <3>. QED
      BY <2>3, <2>4, <2>7, <3>1
  <2>9. ReadFrom(t) = read
    BY <2>6, <2>7, <2>8, SeqEqual
  <2>. QED
    BY <1>13, <1>14, <2>9 DEF t, read
<1>15. CASE ~IsText(chunk)
  <2>1. more = places
    BY <1>5, <1>8, <1>15
  <2>2. ReadFrom(t) = ReadFrom(w)
    BY <1>6, <1>7, <1>9, <1>11, <2>1
  <2>. QED
    BY <1>13, <1>15, <2>2 DEF t
<1>. QED
  BY <1>14, <1>15

\* An event that carries text is one more text of the upstream.
LEMMA TextsGrow ==
  ASSUME received \in Seq(EventKind), NEW kind \in EventKind,
         received' = Append(received, kind), dialect' = dialect
  PROVE  /\ TextsOf(received)' = IF Carries(kind)
                                 THEN Append(TextsOf(received), Len(received) + 1)
                                 ELSE TextsOf(received)
         /\ TextsOf(received) \in Seq(Nat)
         /\ Len(received) + 1 \in Nat
<1> DEFINE places == PlacesOf(received, CarryKinds)
           more == PlacesOf(received', CarryKinds)
<1>1. /\ more = IF kind \in CarryKinds THEN Append(places, Len(received) + 1) ELSE places
      /\ places \in Seq(Nat)
  BY PlacesGrow
<1>2. Len(received) + 1 \in Nat /\ received' \in Seq(EventKind)
  BY Extended
<1>3. TextsOf(received) = places
  <2>1. \A i \in DOMAIN received : received[i] \in CarryKinds <=> Carries(received[i])
    BY DEF CarryKinds
  <2>2. {i \in DOMAIN received : received[i] \in CarryKinds} = {i \in DOMAIN received : Carries(received[i])}
    BY <2>1
  <2>. QED
    BY <2>2 DEF TextsOf, PlacesOf
<1>4. TextsOf(received)' = more
  <2>1. \A i \in DOMAIN received' : received'[i] \in EventKind
    BY <1>2
  <2>2. \A i \in DOMAIN received' : received'[i] \in CarryKinds <=> Carries(received[i])'
    BY <2>1 DEF CarryKinds, Carries
  <2>3. {i \in DOMAIN received' : received'[i] \in CarryKinds} = {i \in DOMAIN received : Carries(received[i])}'
    BY <2>2
  <2>. QED
    BY <2>3 DEF TextsOf, PlacesOf
<1>5. kind \in CarryKinds <=> Carries(kind)
  BY DEF CarryKinds
<1> HIDE DEF places, more
<1>. QED
  BY <1>1, <1>2, <1>3, <1>4, <1>5

\* A chunk on a line of its own.
LEMMA ChunkWritten ==
  ASSUME NEW w, WireSound(w), WireOpen(w), NEW chunk \in WireItem,
         chunk.kind = "finish" => ~HasFinish(w)
  PROVE  /\ WireSound(Append(w, chunk))
         /\ HasFinish(Append(w, chunk)) => HasFinish(w) \/ chunk.kind = "finish"
<1> DEFINE t == Append(w, chunk)
<1>1. /\ w \in Seq(WireItem) /\ t \in Seq(WireItem) /\ Len(w) \in Nat
      /\ Len(t) = Len(w) + 1 /\ DOMAIN w = 1..Len(w) /\ DOMAIN t = 1..(Len(w) + 1)
      /\ \A k \in DOMAIN w : t[k] = w[k]
      /\ t[Len(w) + 1] = chunk
  BY Extended DEF WireSound
<1> HIDE DEF t
<1>2. ASSUME NEW i \in 1..(Len(t) - 1) PROVE t[i] = Blank \/ t[i + 1] = Blank
  <2>1. CASE i = Len(w)
    <3>1. w # <<>> /\ i \in DOMAIN w
      BY <1>1, <1>2, <2>1
    <3>. QED
      BY <1>1, <2>1, <3>1 DEF WireOpen
  <2>2. CASE i # Len(w)
    <3>1. i \in 1..(Len(w) - 1) /\ i \in DOMAIN w /\ i + 1 \in DOMAIN w
      <4>1. Len(w) \in Nat /\ i \in 1..((Len(w) + 1) - 1)
        BY <1>1
      <4>2. i \in 1..(Len(w) - 1) /\ i \in 1..Len(w) /\ i + 1 \in 1..Len(w)
        BY <2>2, <4>1
      <4>. QED
        BY <1>1, <4>2
    <3>. QED
      BY <1>1, <3>1 DEF WireSound
  <2>. QED
    BY <2>1, <2>2
<1>3. \A i \in DOMAIN t : i \in DOMAIN w \/ i = Len(w) + 1
  BY <1>1
<1>4. \A i, j \in DOMAIN t : t[i].kind = "finish" /\ t[j].kind = "finish" => i = j
  BY <1>1, <1>3 DEF WireSound, HasFinish
<1>5. HasFinish(t) => HasFinish(w) \/ chunk.kind = "finish"
  BY <1>1, <1>3 DEF HasFinish
<1>. QED
  BY <1>1, <1>2, <1>4, <1>5 DEF WireSound, t

\* The blank line after it.
LEMMA BlankWritten ==
  ASSUME NEW w, WireSound(w)
  PROVE  /\ WireSound(Append(w, Blank)) /\ WireOpen(Append(w, Blank))
         /\ ReadFrom(Append(w, Blank)) = ReadFrom(w)
         /\ HasFinish(Append(w, Blank)) => HasFinish(w)
<1> DEFINE t == Append(w, Blank)
<1>1. /\ w \in Seq(WireItem) /\ t \in Seq(WireItem) /\ Len(w) \in Nat
      /\ Len(t) = Len(w) + 1 /\ DOMAIN w = 1..Len(w) /\ DOMAIN t = 1..(Len(w) + 1)
      /\ \A k \in DOMAIN w : t[k] = w[k]
      /\ t[Len(w) + 1] = Blank
  BY BlankIsItem, Extended DEF WireSound
<1>2. ReadFrom(t) = ReadFrom(w)
  BY <1>1, BlankIsItem, ReadFromGrows DEF TextItems
<1> HIDE DEF t
<1>3. ASSUME NEW i \in 1..(Len(t) - 1) PROVE t[i] = Blank \/ t[i + 1] = Blank
  <2>1. CASE i = Len(w)
    BY <1>1, <2>1
  <2>2. CASE i # Len(w)
    <3>1. i \in 1..(Len(w) - 1) /\ i \in DOMAIN w /\ i + 1 \in DOMAIN w
      <4>1. Len(w) \in Nat /\ i \in 1..((Len(w) + 1) - 1)
        BY <1>1
      <4>2. i \in 1..(Len(w) - 1) /\ i \in 1..Len(w) /\ i + 1 \in 1..Len(w)
        BY <2>2, <4>1
      <4>. QED
        BY <1>1, <4>2
    <3>. QED
      BY <1>1, <3>1 DEF WireSound
  <2>. QED
    BY <2>1, <2>2
<1>4. \A i \in DOMAIN t : t[i].kind = "finish" => i \in DOMAIN w /\ w[i].kind = "finish"
  <2>1. \A i \in DOMAIN t : i \in DOMAIN w \/ i = Len(w) + 1
    BY <1>1
  <2>. QED
    BY <1>1, <2>1, BlankIsItem
<1>5. WireSound(t)
  BY <1>1, <1>3, <1>4 DEF WireSound
<1>6. HasFinish(t) => HasFinish(w)
  BY <1>4 DEF HasFinish
<1>7. WireOpen(t)
  BY <1>1 DEF WireOpen
<1>. QED
  BY <1>2, <1>5, <1>6, <1>7 DEF t

\* What a connector makes of an event: nothing, or one chunk with its blank
\* line, a text exactly if the event carries one.
LEMMA TranslationMeans ==
  ASSUME dialect \in Dialect, finished \in BOOLEAN, NEW kind \in EventKind, NEW n \in 0..MaxEvents
  PROVE  \/ Translation(kind, n) = <<>> /\ ~Carries(kind)
         \/ \E chunk \in WireItem :
               /\ Translation(kind, n) = <<chunk, Blank>>
               /\ chunk.of = n
               /\ IsText(chunk) <=> Carries(kind)
               /\ chunk.kind = "finish" =>
                     /\ kind \in {"marker", "stop"}
                     /\ kind = "stop" => ~finished
<1>1. CASE dialect = "openai"
  <2>1. Translation(kind, n) = <<Chunk(kind, n), Blank>>
    BY <1>1 DEF Translation, OpenAIChunks
  <2>2. /\ Chunk(kind, n) \in WireItem /\ Chunk(kind, n).of = n
        /\ IsText(Chunk(kind, n)) <=> Carries(kind)
        /\ Chunk(kind, n).kind # "finish"
    BY <1>1 DEF Chunk, WireItem, IsText, Carries, EventKind
  <2>. QED
    BY <2>1, <2>2
<1>2. CASE dialect = "anthropic"
  <2>1. Translation(kind, n) = AnthropicChunks(kind, n)
    BY <1>2 DEF Translation
  <2>2. /\ Chunk("text", n) \in WireItem /\ Chunk("text", n).of = n /\ IsText(Chunk("text", n))
        /\ Chunk("text", n).kind # "finish"
        /\ Chunk("finish", n) \in WireItem /\ Chunk("finish", n).of = n /\ ~IsText(Chunk("finish", n))
    BY DEF Chunk, WireItem, IsText, EventKind
  <2>3. Carries(kind) <=> kind \in {"text", "mention"}
    BY <1>2 DEF Carries
  <2>4. CASE kind \in {"text", "mention"}
    <3>1. AnthropicChunks(kind, n) = <<Chunk("text", n), Blank>>
      BY <2>4 DEF AnthropicChunks
    <3>. QED
      BY <2>1, <2>2, <2>3, <2>4, <3>1
  <2>5. CASE kind = "marker" \/ (kind = "stop" /\ ~finished)
    <3>1. AnthropicChunks(kind, n) = <<Chunk("finish", n), Blank>>
      BY <2>5 DEF AnthropicChunks
    <3>. QED
      BY <2>1, <2>2, <2>3, <2>5, <3>1
  <2>6. CASE ~(kind \in {"text", "mention"}) /\ ~(kind = "marker" \/ (kind = "stop" /\ ~finished))
    <3>1. AnthropicChunks(kind, n) = <<>>
      BY <2>6 DEF AnthropicChunks
    <3>. QED
      BY <2>1, <2>3, <2>6, <3>1
  <2>. QED
    BY <2>4, <2>5, <2>6
<1>3. CASE dialect = "gemini"
  <2>1. /\ Translation(kind, n) = IF kind \in {"text", "mention", "marker"}
                                  THEN <<Chunk("text", n), Blank>> ELSE <<>>
        /\ Carries(kind) <=> kind \in {"text", "mention", "marker"}
    BY <1>3 DEF Translation, GeminiChunks, Carries
  <2>2. /\ Chunk("text", n) \in WireItem /\ Chunk("text", n).of = n /\ IsText(Chunk("text", n))
        /\ Chunk("text", n).kind # "finish"
    BY DEF Chunk, WireItem, IsText, EventKind
  <2>. QED
    BY <2>1, <2>2
<1>. QED
  BY <1>1, <1>2, <1>3 DEF Dialect

\* While the stream runs, what is written is sound, and may go on.
Running ==
    /\ StreamInv /\ ReadsInv /\ ending = "none"

LEMMA RunningFacts ==
  ASSUME Running
  PROVE  /\ WireSound(wire) /\ WireOpen(wire) /\ (HasFinish(wire) => HasEnd(received))
         /\ ReadFrom(wire) = TextsOf(received)
         /\ received \in Seq(EventKind) /\ dialect \in Dialect /\ finished \in BOOLEAN
         /\ ReadFrom(wire) \in Seq(Nat)
<1>1. wire \in Seq(WireItem) /\ received \in Seq(EventKind) /\ dialect \in Dialect /\ finished \in BOOLEAN
  BY DEF Running, ReadsInv, StreamTypeOK, WireItem
<1>2. ReadFrom(wire) \in Seq(Nat)
  BY <1>1, BlankIsItem, ReadFromGrows
<1>. QED
  BY <1>1, <1>2 DEF Running, ReadsInv, ClientReadsUpstream, WireSound

\* The number of the next event.
LEMMA NextNumber ==
  ASSUME received \in Seq(EventKind), NEW kind, MaySend(kind)
  PROVE  Len(received) + 1 \in 0..MaxEvents
BY StreamAssumption DEF MaySend

\* The reply has not ended when an event comes that may end it.
LEMMA EndIsNew ==
  ASSUME Running, NEW kind \in {"marker", "stop"}, MaySend(kind), kind = "stop" => ~finished
  PROVE  ~HasEnd(received)
<1>1. ~finished => \A i \in DOMAIN received : received[i] # "marker"
  BY DEF Running, StreamInv, Marked, Marks
<1>2. \A i \in DOMAIN received : received[i] # "stop"
  BY DEF MaySend, Range
<1>3. kind = "marker" => \A i \in DOMAIN received : received[i] # "marker"
  BY DEF MaySend, Range
<1>. QED
  BY <1>1, <1>2, <1>3 DEF HasEnd

\* What an event leaves on the wire.
LEMMA EventWritten ==
  ASSUME Running, NEW kind \in EventKind, MaySend(kind),
         NEW w, w = wire \o Translation(kind, Len(received) + 1)
  PROVE  /\ WireSound(w) /\ WireOpen(w)
         /\ ReadFrom(w) = IF Carries(kind) THEN Append(ReadFrom(wire), Len(received) + 1)
                                           ELSE ReadFrom(wire)
         /\ HasFinish(w) => HasFinish(wire) \/ kind \in {"marker", "stop"}
<1> DEFINE n == Len(received) + 1
<1>1. n \in 0..MaxEvents
  BY NextNumber, RunningFacts
<1>2. /\ WireSound(wire) /\ WireOpen(wire) /\ (HasFinish(wire) => HasEnd(received))
      /\ dialect \in Dialect /\ finished \in BOOLEAN /\ wire \in Seq(WireItem)
  BY RunningFacts DEF WireSound
<1> HIDE DEF n
<1>3. CASE Translation(kind, n) = <<>> /\ ~Carries(kind)
  <2>1. w = wire
    BY <1>2, <1>3, ConcatEmptySeq DEF n
  <2>. QED
    BY <1>2, <1>3, <2>1
<1>4. ASSUME NEW chunk \in WireItem,
             Translation(kind, n) = <<chunk, Blank>>, chunk.of = n,
             IsText(chunk) <=> Carries(kind),
             chunk.kind = "finish" => kind \in {"marker", "stop"} /\ (kind = "stop" => ~finished)
      PROVE  /\ WireSound(w) /\ WireOpen(w)
             /\ ReadFrom(w) = IF Carries(kind) THEN Append(ReadFrom(wire), n) ELSE ReadFrom(wire)
             /\ HasFinish(w) => HasFinish(wire) \/ kind \in {"marker", "stop"}
  <2> DEFINE t == Append(wire, chunk)
  <2>1. w = Append(t, Blank)
    <3>1. <<chunk, Blank>> = <<chunk>> \o <<Blank>>
      BY BlankIsItem
    <3>2. <<chunk>> \in Seq(WireItem) /\ <<Blank>> \in Seq(WireItem)
      BY BlankIsItem
    <3>3. wire \o <<chunk, Blank>> = (wire \o <<chunk>>) \o <<Blank>>
      <4>1. \A q, r \in Seq(WireItem) : (wire \o q) \o r = wire \o (q \o r)
        BY <1>2, ConcatAssociative
      <4>2. (wire \o <<chunk>>) \o <<Blank>> = wire \o (<<chunk>> \o <<Blank>>)
        BY <3>2, <4>1, Zenon
      <4>. QED
        BY <3>1, <4>2, Zenon
    <3>4. t = wire \o <<chunk>> /\ t \in Seq(WireItem)
      BY <1>2, AppendIsConcat, AppendProperties
    <3> HIDE DEF t
    <3>5. Append(t, Blank) = t \o <<Blank>>
      BY <3>4, BlankIsItem, AppendIsConcat
    <3>. QED
      BY <1>4, <3>3, <3>4, <3>5 DEF n
  <2>2. chunk.kind = "finish" => ~HasFinish(wire)
    BY <1>2, <1>4, EndIsNew
  <2>3. WireSound(t) /\ (HasFinish(t) => HasFinish(wire) \/ chunk.kind = "finish")
    BY <1>2, <2>2, ChunkWritten
  <2>4. ReadFrom(t) = IF Carries(kind) THEN Append(ReadFrom(wire), n) ELSE ReadFrom(wire)
    BY <1>2, <1>4, ReadFromGrows
  <2> HIDE DEF t
  <2>5. /\ WireSound(w) /\ WireOpen(w) /\ ReadFrom(w) = ReadFrom(t)
        /\ HasFinish(w) => HasFinish(t)
    BY <2>1, <2>3, BlankWritten
  <2>. QED
    BY <1>4, <2>3, <2>4, <2>5
<1>5. \/ Translation(kind, n) = <<>> /\ ~Carries(kind)
      \/ \E chunk \in WireItem :
               /\ Translation(kind, n) = <<chunk, Blank>>
               /\ chunk.of = n
               /\ IsText(chunk) <=> Carries(kind)
               /\ chunk.kind = "finish" => kind \in {"marker", "stop"} /\ (kind = "stop" => ~finished)
  BY <1>1, <1>2, TranslationMeans
<1>. QED
  BY <1>3, <1>4, <1>5 DEF n

LEMMA PrefixOfMore ==
  ASSUME NEW s \in Seq(Nat), NEW e \in Nat
  PROVE  IsPrefix(s, s) /\ IsPrefix(s, Append(s, e))
<1> DEFINE t == Append(s, e)
<1>1. /\ t \in Seq(Nat) /\ Len(s) \in Nat /\ Len(t) = Len(s) + 1 /\ \A k \in 1..Len(s) : t[k] = s[k]
  BY AppendProperties
<1> HIDE DEF t
<1> DEFINE m == Len(s)
<1>2. m \in Nat /\ m \in Int /\ 1 \in Int /\ (\A i \in 1..m : s[i] \in Nat) /\ (\A i \in 1..m : t[i] \in Nat)
  BY <1>1
<1> HIDE DEF m
<1>3. SubSeq(s, 1, m) \in Seq(Nat) /\ SubSeq(t, 1, m) \in Seq(Nat)
  BY <1>2, SubSeqProperties
<1>4. /\ Len(SubSeq(s, 1, m)) = IF 1 <= m THEN m - 1 + 1 ELSE 0
      /\ Len(SubSeq(t, 1, m)) = IF 1 <= m THEN m - 1 + 1 ELSE 0
      /\ \A i \in 1..(m - 1 + 1) : SubSeq(s, 1, m)[i] = s[1 + i - 1]
      /\ \A i \in 1..(m - 1 + 1) : SubSeq(t, 1, m)[i] = t[1 + i - 1]
  BY <1>2, SubSeqProperties
<1>5. /\ Len(SubSeq(s, 1, m)) = m /\ Len(SubSeq(t, 1, m)) = m
      /\ \A i \in 1..m : SubSeq(s, 1, m)[i] = s[i] /\ SubSeq(t, 1, m)[i] = t[i]
  BY <1>2, <1>4
<1>6. \A i \in 1..m : SubSeq(s, 1, m)[i] = SubSeq(t, 1, m)[i]
  BY <1>1, <1>5 DEF m
<1>7. SubSeq(s, 1, m) = SubSeq(t, 1, m)
  BY <1>3, <1>5, <1>6, SeqEqual
<1>. QED
  BY <1>1, <1>2, <1>7 DEF IsPrefix, m, t

LEMMA EndTyped ==
  ASSUME dialect \in Dialect, NEW how \in {"eof", "broken", "canceled", "status", "write"},
         NEW done \in BOOLEAN, End(how, done)
  PROVE  /\ ending' = how /\ ending' # "none" /\ dialect' = dialect /\ finished' \in BOOLEAN
         /\ outcome' \in {"none", "ok", "truncated", "classified", "raw"}
BY DEF End, Outcome, OpenAIOutcome, TranslatorOutcome

\* An end that leaves the texts as they are.
LEMMA EndsAsIs ==
  ASSUME Running, NEW how \in {"eof", "broken", "canceled", "status", "write"}, End(how, finished),
         received' = received, wire' \in Seq(WireItem), WireSound(wire'),
         ReadFrom(wire') = ReadFrom(wire)
  PROVE  ReadsInv'
<1>1. /\ ending' = how /\ ending' # "none" /\ dialect' = dialect /\ finished' \in BOOLEAN
      /\ outcome' \in {"none", "ok", "truncated", "classified", "raw"}
  BY RunningFacts, EndTyped
<1>2. StreamTypeOK'
  BY <1>1, RunningFacts DEF StreamTypeOK, WireItem
<1>3. TextsOf(received)' = TextsOf(received)
  BY <1>1 DEF TextsOf, Carries
<1>4. ReadFrom(wire') = TextsOf(received)' /\ IsPrefix(ReadFrom(wire'), TextsOf(received)')
  BY <1>3, RunningFacts, PrefixOfMore
<1>5. ClientReadsUpstream'
  BY <1>4 DEF ClientReadsUpstream, WireSound
<1>. QED
  BY <1>1, <1>2, <1>5 DEF ReadsInv

LEMMA ReadsStep ==
  ASSUME StreamInv, ReadsInv, [StreamNext]_streamVars
  PROVE  ReadsInv'
<1>1. ASSUME NEW kind \in EventKind, Event(kind) PROVE ReadsInv'
  <2>1. /\ Running /\ MaySend(kind) /\ received' = Append(received, kind)
        /\ wire' = wire \o Translation(kind, Len(received) + 1)
        /\ UNCHANGED <<dialect, ending, outcome>>
    BY <1>1 DEF Event, Running
  <2>2. finished' \in BOOLEAN
    BY <1>1, RunningFacts, <2>1 DEF Event, Marks
  <2>3. /\ WireSound(wire') /\ WireOpen(wire')
        /\ ReadFrom(wire') = IF Carries(kind) THEN Append(ReadFrom(wire), Len(received) + 1)
                                              ELSE ReadFrom(wire)
        /\ HasFinish(wire') => HasFinish(wire) \/ kind \in {"marker", "stop"}
    BY <2>1, EventWritten
  <2>4. /\ TextsOf(received)' = IF Carries(kind) THEN Append(TextsOf(received), Len(received) + 1)
                                                 ELSE TextsOf(received)
    BY <2>1, RunningFacts, TextsGrow
  <2>5. ReadFrom(wire') = TextsOf(received)'
    BY <2>1, <2>3, <2>4, RunningFacts
  <2>6. /\ received' \in Seq(EventKind)
        /\ HasEnd(received) \/ kind \in {"marker", "stop"} => HasEnd(received')
    <3>1. /\ received' \in Seq(EventKind) /\ Len(received) \in Nat
          /\ DOMAIN received = 1..Len(received) /\ DOMAIN received' = 1..(Len(received) + 1)
          /\ \A k \in DOMAIN received : received'[k] = received[k]
          /\ received'[Len(received) + 1] = kind
      BY <2>1, RunningFacts, Extended
    <3>2. Len(received) + 1 \in DOMAIN received' /\ \A k \in DOMAIN received : k \in DOMAIN received'
      BY <3>1
    <3>. QED
      BY <3>1, <3>2 DEF HasEnd
  <2>7. StreamTypeOK'
    BY <2>1, <2>2, <2>3, <2>6 DEF ReadsInv, StreamTypeOK, WireSound, WireItem
  <2>8. ClientReadsUpstream'
    BY <2>1, <2>3, <2>5 DEF ClientReadsUpstream, WireSound, Running
  <2>9. HasFinish(wire') => HasEnd(received')
    BY <2>1, <2>3, <2>6, RunningFacts
  <2>. QED
    BY <2>3, <2>7, <2>8, <2>9 DEF ReadsInv
<1>2. ASSUME NEW kind \in EventKind, WriteFails(kind) PROVE ReadsInv'
  <2> DEFINE done == finished \/ (Marks(kind) /\ dialect # "anthropic")
  <2>1. /\ Running /\ received' = Append(received, kind) /\ wire' = wire
        /\ End("write", done)
    BY <1>2 DEF WriteFails, Running
  <2>2. done \in BOOLEAN
    BY <2>1, RunningFacts
  <2> HIDE DEF done
  <2>3. /\ ending' = "write" /\ dialect' = dialect /\ finished' \in BOOLEAN
        /\ outcome' \in {"none", "ok", "truncated", "classified", "raw"}
    BY <2>1, <2>2, RunningFacts, EndTyped
  <2>4. /\ TextsOf(received)' = IF Carries(kind) THEN Append(TextsOf(received), Len(received) + 1)
                                                 ELSE TextsOf(received)
        /\ TextsOf(received) \in Seq(Nat) /\ Len(received) + 1 \in Nat
    BY <2>1, <2>3, RunningFacts, TextsGrow
  <2>5. IsPrefix(ReadFrom(wire'), TextsOf(received)')
    BY <2>1, <2>4, RunningFacts, PrefixOfMore
  <2>6. received' \in Seq(EventKind)
    BY <2>1, RunningFacts, Extended
  <2>7. StreamTypeOK'
    BY <2>1, <2>3, <2>6 DEF ReadsInv, StreamTypeOK
  <2>8. WireSound(wire')
    BY <2>1, RunningFacts
  <2>9. ClientReadsUpstream'
    BY <2>3, <2>5, <2>8 DEF ClientReadsUpstream, WireSound
  <2>. QED
    BY <2>3, <2>7, <2>9 DEF ReadsInv
<1>3. ASSUME NEW kind \in EventKind, NEW how \in {"eof", "broken", "canceled"},
             EndsInsideReadable(kind, how)
      PROVE  ReadsInv'
  <2>1. /\ Running /\ MaySend(kind) /\ received' = Append(received, kind)
        /\ wire' = IF dialect = "openai"
                   THEN Append(wire, Chunk(kind, Len(received) + 1))
                   ELSE wire \o Translation(kind, Len(received) + 1)
        /\ End(how, finished \/ Marks(kind))
    BY <1>3 DEF EndsInsideReadable, Running
  <2>2. (finished \/ Marks(kind)) \in BOOLEAN
    BY <2>1, RunningFacts DEF Marks
  <2>3. /\ ending' = how /\ dialect' = dialect /\ finished' \in BOOLEAN
        /\ outcome' \in {"none", "ok", "truncated", "classified", "raw"}
    BY <2>1, <2>2, RunningFacts, EndTyped
  <2>4. /\ TextsOf(received)' = IF Carries(kind) THEN Append(TextsOf(received), Len(received) + 1)
                                                 ELSE TextsOf(received)
    BY <2>1, <2>3, RunningFacts, TextsGrow
  <2>5. /\ WireSound(wire')
        /\ ReadFrom(wire') = IF Carries(kind) THEN Append(ReadFrom(wire), Len(received) + 1)
                                              ELSE ReadFrom(wire)
    <3>1. CASE dialect = "openai"
      <4> DEFINE chunk == Chunk(kind, Len(received) + 1)
      <4>1. /\ chunk \in WireItem /\ chunk.of = Len(received) + 1
            /\ IsText(chunk) <=> Carries(kind)
            /\ chunk.kind # "finish"
        BY <2>1, <3>1, NextNumber, RunningFacts DEF Chunk, WireItem, IsText, Carries, EventKind
      <4> HIDE DEF chunk
      <4>2. wire' = Append(wire, chunk)
        BY <2>1, <3>1 DEF chunk
      <4>3. WireSound(Append(wire, chunk))
        BY <2>1, <4>1, RunningFacts, ChunkWritten
      <4>4. ReadFrom(Append(wire, chunk)) = IF IsText(chunk) THEN Append(ReadFrom(wire), chunk.of)
                                                             ELSE ReadFrom(wire)
        BY <2>1, <4>1, RunningFacts, ReadFromGrows DEF WireSound
      <4>. QED
        BY <4>1, <4>2, <4>3, <4>4
    <3>2. CASE dialect # "openai"
      <4>1. wire' = wire \o Translation(kind, Len(received) + 1)
        BY <2>1, <3>2
      <4>. QED
        BY <2>1, <4>1, EventWritten
    <3>. QED
      BY <3>1, <3>2
  <2>6. ReadFrom(wire') = TextsOf(received)'
    BY <2>1, <2>4, <2>5, RunningFacts
  <2>7. received' \in Seq(EventKind)
    BY <2>1, RunningFacts, Extended
  <2>8. StreamTypeOK'
    BY <2>3, <2>5, <2>7 DEF ReadsInv, StreamTypeOK, WireSound, WireItem, Running
  <2>9. ClientReadsUpstream'
    BY <2>3, <2>5, <2>6 DEF ClientReadsUpstream, WireSound
  <2>. QED
    BY <2>3, <2>8, <2>9 DEF ReadsInv
<1>4. CASE Unreachable
  <2>1. Running /\ ending' = "unreachable" /\ outcome' = "raw"
        /\ UNCHANGED <<dialect, received, wire, finished>>
    BY <1>4 DEF Unreachable, Running
  <2>2. TextsOf(received)' = TextsOf(received)
    BY <2>1 DEF TextsOf, Carries
  <2>3. StreamTypeOK'
    BY <2>1 DEF ReadsInv, StreamTypeOK
  <2>4. ClientReadsUpstream'
    BY <2>1, <2>2, RunningFacts DEF ClientReadsUpstream, WireSound
  <2>. QED
    BY <2>1, <2>3, <2>4 DEF ReadsInv
<1>5. ASSUME NEW how \in {"eof", "broken", "canceled", "status"}, ending = "none",
             End(how, finished), UNCHANGED <<received, wire>>
      PROVE  ReadsInv'
  <2>1. Running
    BY <1>5 DEF Running
  <2>. QED
    BY <1>5, <2>1, RunningFacts, EndsAsIs DEF WireSound
<1>6. ASSUME NEW how \in {"eof", "broken", "canceled"}, EndsInsideFragment(how) PROVE ReadsInv'
  <2>1. Running /\ received' = received
    BY <1>6 DEF EndsInsideFragment, Running
  <2>2. WireSound(wire) /\ WireOpen(wire) /\ wire \in Seq(WireItem)
    BY <2>1, RunningFacts DEF WireSound
  <2>3. CASE End(how, finished) /\ wire' = wire
    BY <2>1, <2>2, <2>3, EndsAsIs
  <2>4. CASE End("write", finished) /\ wire' = wire
    BY <2>1, <2>2, <2>4, EndsAsIs
  <2>5. CASE End(how, finished) /\ wire' = Append(wire, Chunk("fragment", 0))
    <3> DEFINE chunk == Chunk("fragment", 0)
    <3>1. chunk \in WireItem /\ ~IsText(chunk) /\ chunk.kind # "finish"
      BY StreamAssumption DEF Chunk, WireItem, IsText
    <3> HIDE DEF chunk
    <3>2. WireSound(Append(wire, chunk)) /\ ReadFrom(Append(wire, chunk)) = ReadFrom(wire)
      BY <2>2, <3>1, ChunkWritten, ReadFromGrows
    <3>3. wire' = Append(wire, chunk) /\ wire' \in Seq(WireItem)
      BY <2>5, <3>2 DEF chunk, WireSound
    <3>4. End(how, finished)
      BY <2>5
    <3>. QED
      BY <2>1, <3>2, <3>3, <3>4, EndsAsIs
  <2>. QED
    BY <1>6, <2>3, <2>4, <2>5 DEF EndsInsideFragment
<1>7. CASE UNCHANGED streamVars
  <2>1. TextsOf(received)' = TextsOf(received)
    BY <1>7 DEF streamVars, TextsOf, Carries
  <2>. QED
    BY <1>7, <2>1 DEF streamVars, ReadsInv, StreamTypeOK, ClientReadsUpstream
<1>. QED
  BY <1>1, <1>2, <1>3, <1>4, <1>5, <1>6, <1>7 DEF StreamNext, Refused, StreamEnds

LEMMA ReadsInvHolds == StreamSpec => []ReadsInv
<1>1. ASSUME StreamInit PROVE ReadsInv
  <2>1. /\ received = <<>> /\ wire = <<>> /\ ending = "none" /\ DOMAIN received = {} /\ DOMAIN wire = {}
    BY <1>1 DEF StreamInit
  <2>2. StreamTypeOK
    <3>1. <<>> \in Seq(EventKind) /\ <<>> \in Seq(WireItem)
      BY EmptySeq
    <3>2. /\ finished \in BOOLEAN /\ dialect \in Dialect /\ outcome = "none"
      BY <1>1 DEF StreamInit
    <3>. QED
      BY <2>1, <3>1, <3>2 DEF StreamTypeOK, WireItem
  <2>3. ReadFrom(wire) = TextsOf(received)
    <3>1. /\ {i \in DOMAIN wire : IsText(wire[i])} = {}
          /\ {i \in DOMAIN received : Carries(received[i])} = {}
      BY <2>1
    <3>2. DOMAIN InOrder({}) = {}
      BY FS_EmptySet, InOrderLists
    <3>3. InOrder({}) = <<>> /\ [k \in DOMAIN InOrder({}) |-> wire[InOrder({})[k]].of] = <<>>
      BY <3>2
    <3>. QED
      BY <3>1, <3>3 DEF ReadFrom, TextsOf
  <2>4. ClientReadsUpstream
    BY <2>1, <2>3 DEF ClientReadsUpstream
  <2>. QED
    BY <2>1, <2>2, <2>4 DEF ReadsInv, WireOpen, HasFinish
<1>. QED
  BY <1>1, StreamInvHolds, ReadsStep, PTL DEF StreamSpec

\* What the client reads of a stream are the upstream's texts, in their order,
\* none lost or repeated - up to the write that failed, if one did -, every
\* chunk closed by a blank line before the next, and at most one says that the
\* reply ends (consumeSSE, ForwardStream of the three connectors).
THEOREM ClientReadsUpstreamHolds == StreamSpec => []ClientReadsUpstream
<1>1. ReadsInv => ClientReadsUpstream
  BY DEF ReadsInv
<1>. QED
  BY <1>1, ReadsInvHolds, PTL

-----------------------------------------------------------------------------
(* The messages relay.                                                      *)

\* Until a call brings output nothing is written; what is written comes from
\* the candidate in hand, and no call that has written ends retryably.
MessagesInv ==
    /\ queue \in Seq(Answerers)
    /\ passed \in Seq([item : Item, from : Answerers])
    /\ charged \in Seq(Answerers)
    /\ upstream \in Seq(Item)
    /\ at \in {"calling", "streaming", "settling"} => queue # <<>>
    /\ at \in {"new", "choosing", "calling"} => passed = <<>>
    /\ at = "settling" /\ lastErr = "retryable" => passed = <<>>
    /\ at = "streaming" => \A i \in DOMAIN passed : passed[i].from = Head(queue)
    /\ at # "done" => charged = <<>>
    /\ OneAccountAnswers

LEMMA PassMeans ==
  ASSUME MessagesInv, NEW item \in Item, Pass(item), queue # <<>>,
         \A i \in DOMAIN passed : passed[i].from = Head(queue)
  PROVE  /\ passed' \in Seq([item : Item, from : Answerers])
         /\ Head(queue) \in Answerers
         /\ passed' # <<>> /\ 1 \in DOMAIN passed'
         /\ \A i \in DOMAIN passed' : passed'[i].from = Head(queue)
<1> DEFINE e == [item |-> item, from |-> Head(queue)]
<1>1. Head(queue) \in Answerers
  BY DEF MessagesInv
<1>2. e \in [item : Item, from : Answerers] /\ e.from = Head(queue)
  BY <1>1
<1>3. passed' = Append(passed, e)
  BY DEF Pass
<1> HIDE DEF e
<1>4. /\ passed' \in Seq([item : Item, from : Answerers])
      /\ DOMAIN passed' = 1..(Len(passed) + 1) /\ Len(passed) \in Nat
      /\ passed'[Len(passed) + 1] = e
      /\ \A i \in 1..Len(passed) : passed'[i] = passed[i]
  BY <1>2, <1>3 DEF MessagesInv
<1>5. passed' # <<>> /\ 1 \in DOMAIN passed'
  BY <1>4
<1>6. ASSUME NEW i \in DOMAIN passed' PROVE passed'[i].from = Head(queue)
  <2>1. i = Len(passed) + 1 \/ (i \in DOMAIN passed /\ i \in 1..Len(passed))
    BY <1>4 DEF MessagesInv
  <2>2. CASE i = Len(passed) + 1
    BY <1>2, <1>4, <2>2
  <2>3. CASE i \in DOMAIN passed /\ i \in 1..Len(passed)
    <3>1. passed'[i] = passed[i]
      BY <1>4, <2>3
    <3>. QED
      BY <2>3, <3>1
  <2>. QED
    BY <2>1, <2>2, <2>3
<1>. QED
  BY <1>1, <1>4, <1>5, <1>6

LEMMA ItemsTyped ==
  ASSUME MessagesInv
  PROVE  /\ NextEvent <= MaxSent => EventItem(NextEvent) \in Item
         /\ BlankLine \in Item
         /\ WholeBody \in Item
<1>1. Len(upstream) \in Nat
  BY DEF MessagesInv
<1>2. NextEvent \in Nat /\ NextEvent >= 1
  BY <1>1 DEF NextEvent
<1>. QED
  BY <1>2, MessagesAssumption DEF Item, EventItem, BlankLine, WholeBody

LEMMA MessagesStepKeeps ==
  ASSUME MessagesInv, [MessagesNext]_messagesVars
  PROVE  MessagesInv'
<1>1. CASE UNCHANGED messagesVars
  BY <1>1 DEF messagesVars, MessagesInv, OneAccountAnswers
<1>2. CASE RejectMessages \/ RunOutOfAnswerers \/ ClientLeaves
  BY <1>2 DEF RejectMessages, RunOutOfAnswerers, ClientLeaves, Close, MessagesInv, OneAccountAnswers
<1>3. ASSUME NEW order \in Orders, ResolveMessages(order) PROVE MessagesInv'
  BY <1>3, MessagesAssumption DEF ResolveMessages, MessagesInv, OneAccountAnswers
<1>4. CASE SkipAnswerer
  BY <1>4 DEF SkipAnswerer, Close, MessagesInv, OneAccountAnswers
<1>5. CASE CallUpstream
  BY <1>5 DEF CallUpstream, MessagesInv, OneAccountAnswers
<1>6. ASSUME NEW err \in {"retryable", "final"}, CallRefused(err) PROVE MessagesInv'
  BY <1>6 DEF CallRefused, Close, Returns, MessagesInv, OneAccountAnswers
<1>7. CASE BodyArrives
  <2>1. /\ at = "calling" /\ queue # <<>> /\ Pass(WholeBody) /\ at' = "done"
        /\ UNCHANGED <<queue, upstream>>
        /\ passed = <<>> /\ charged = <<>>
        /\ \A i \in DOMAIN passed : passed[i].from = Head(queue)
    BY <1>7 DEF BodyArrives, Close, MessagesInv
  <2>2. /\ passed' \in Seq([item : Item, from : Answerers])
        /\ Head(queue) \in Answerers
        /\ passed' # <<>> /\ 1 \in DOMAIN passed'
        /\ \A i \in DOMAIN passed' : passed'[i].from = Head(queue)
    <3>1. WholeBody \in Item
      BY ItemsTyped
    <3>. QED
      BY <2>1, <3>1, PassMeans
  <2>3. charged' = <<>> \/ charged' = <<Head(queue)>>
    BY <1>7, <2>1, <2>2 DEF BodyArrives
  <2>4. charged' \in Seq(Answerers)
    <3>1. <<Head(queue)>> \in Seq(Answerers)
      BY <2>2
    <3>. QED
      BY <2>1, <2>3, <3>1 DEF MessagesInv
  <2>5. OneAccountAnswers'
    BY <2>2, <2>3 DEF OneAccountAnswers
  <2>. QED
    BY <2>1, <2>2, <2>4, <2>5 DEF MessagesInv
<1>8. CASE BodyBreaks \/ StreamBreaks
  BY <1>8 DEF BodyBreaks, StreamBreaks, Returns, MessagesInv, OneAccountAnswers
<1>9. CASE StreamOpens
  BY <1>9 DEF StreamOpens, MessagesInv, OneAccountAnswers
<1>10. ASSUME at = "streaming", NextEvent <= MaxSent, Pass(EventItem(NextEvent)),
              \/ upstream' = upstream \o <<EventItem(NextEvent), BlankLine>>
              \/ upstream' = Append(upstream, EventItem(NextEvent)),
              at' \in {"streaming", "done"}, UNCHANGED <<queue, charged>>
       PROVE  MessagesInv'
  <2>1. /\ passed' \in Seq([item : Item, from : Answerers])
        /\ \A i \in DOMAIN passed' : passed'[i].from = Head(queue)
    BY <1>10, PassMeans, ItemsTyped DEF MessagesInv
  <2>2. upstream' \in Seq(Item)
    <3>1. EventItem(NextEvent) \in Item /\ BlankLine \in Item /\ upstream \in Seq(Item)
      BY <1>10, ItemsTyped DEF MessagesInv
    <3>2. <<EventItem(NextEvent), BlankLine>> \in Seq(Item)
      BY <3>1
    <3>3. CASE upstream' = upstream \o <<EventItem(NextEvent), BlankLine>>
      BY <3>1, <3>2, <3>3, ConcatProperties
    <3>4. CASE upstream' = Append(upstream, EventItem(NextEvent))
      BY <3>1, <3>4, AppendProperties
    <3>. QED
      BY <1>10, <3>3, <3>4
  <2>3. OneAccountAnswers'
    BY <1>10, <2>1 DEF MessagesInv, OneAccountAnswers
  <2>. QED
    BY <1>10, <2>1, <2>2, <2>3 DEF MessagesInv
<1>11. CASE PassEvent
  BY <1>10, <1>11 DEF PassEvent
<1>12. CASE StreamCompletes
  <2>1. CASE UNCHANGED <<upstream, passed>>
    BY <1>12, <2>1 DEF StreamCompletes, Close, MessagesInv, OneAccountAnswers
  <2>. QED
    BY <1>10, <1>12, <2>1 DEF StreamCompletes, Close
<1>13. CASE SettleMessages
  <2>1. CASE lastErr = "retryable" /\ queue # <<>>
    BY <1>13, <2>1 DEF SettleMessages, MessagesInv, OneAccountAnswers
  <2>2. CASE lastErr # "retryable"
    BY <1>13, <2>2 DEF SettleMessages, Close, MessagesInv, OneAccountAnswers
  <2>. QED
    BY <1>13, <2>1, <2>2 DEF MessagesInv, SettleMessages
<1>. QED
  BY <1>1, <1>2, <1>3, <1>4, <1>5, <1>6, <1>7, <1>8, <1>9, <1>11, <1>12, <1>13
     DEF MessagesNext, MessagesStep

\* What a client of /v1/messages reads, and what it is charged for, is from one
\* account, however calls fail and streams break: there is no failover after
\* output (handleAnthropicMessages and forwardAnthropic together).
THEOREM OneAccountAnswersHolds == MessagesSpec => []OneAccountAnswers
<1>1. MessagesInit => MessagesInv
  BY DEF MessagesInit, MessagesInv, OneAccountAnswers
<1>2. MessagesInv => OneAccountAnswers
  BY DEF MessagesInv
<1>. QED
  BY <1>1, <1>2, MessagesStepKeeps, PTL DEF MessagesSpec

-----------------------------------------------------------------------------
(* The health engine.                                                       *)

Rank(s) == statusRank[s]

\* What the counters mean: downgradeCount is the length of the longest tail
\* of the history that is worse than the status, recoverCount that of the
\* longest tail that is better, as far as they were not yet acted upon.
WorseTail(h, s, n) ==
    /\ n \in 0..(DowngradeSustained - 1)
    /\ n <= Len(h)
    /\ \A i \in (Len(h) - n + 1)..Len(h) : Rank(h[i]) > Rank(s)
    /\ n < Len(h) => ~(Rank(h[Len(h) - n]) > Rank(s))

BetterTail(h, s, n) ==
    /\ n \in 0..(RecoverSustained - 1)
    /\ n <= Len(h)
    /\ \A i \in (Len(h) - n + 1)..Len(h) : Rank(h[i]) < Rank(s)
    /\ n < Len(h) => ~(Rank(h[Len(h) - n]) < Rank(s))

Tails(k) ==
    /\ WorseTail(history[k], currentStatus[k], downgradeCount[k])
    /\ BetterTail(history[k], currentStatus[k], recoverCount[k])

EngineInv == HealthTypeOK /\ \A k \in Subjects : Tails(k)

-----------------------------------------------------------------------------
(* About the verdicts.                                                      *)

\* Every window gets one of the four verdicts.
LEMMA VerdictIsStatus == \A w, limited : Evaluate(w, limited) \in Status
  BY DEF Evaluate, ToStatus, Status

\* The ranks order the statuses: they are numbers, and differ.
LEMMA RanksOrder ==
  /\ \A s \in Status : Rank(s) \in Nat
  /\ \A s, t \in Status : Rank(s) = Rank(t) => s = t
  BY DEF Rank, statusRank, Status

\* A verdict that is worse than the status makes the worse tail longer by one
\* and ends the better one; whether the streak is long enough is a matter of
\* the counter.
LEMMA WorseVerdict ==
  ASSUME NEW h \in Seq(Status), NEW s \in Status, NEW v \in Status,
         NEW d, WorseTail(h, s, d), Rank(v) > Rank(s)
  PROVE  /\ Promise!SustainedWorse(Append(h, v), s) <=> d + 1 >= DowngradeSustained
         /\ ~Promise!SustainedBetter(Append(h, v), s)
         /\ d + 1 < DowngradeSustained => WorseTail(Append(h, v), s, d + 1)
         /\ BetterTail(Append(h, v), s, 0)
<1> DEFINE seen == Append(h, v)
<1>1. /\ Len(h) \in Nat /\ Len(seen) = Len(h) + 1 /\ seen[Len(h) + 1] = v
      /\ \A i \in 1..Len(h) : seen[i] = h[i]
      /\ d \in Nat /\ DowngradeSustained \in Nat \ {0} /\ RecoverSustained \in Nat \ {0}
  BY HealthAssumption DEF WorseTail
<1>2. \A i \in 1..Len(h) : h[i] \in Status /\ Rank(h[i]) \in Nat
  BY RanksOrder
<1>3. Rank(v) \in Nat /\ Rank(s) \in Nat
  BY RanksOrder
<1>4. \A i \in (Len(h) - d + 1)..(Len(h) + 1) : Rank(seen[i]) > Rank(s)
  BY <1>1, <1>2, <1>3 DEF WorseTail
<1>5. d < Len(h) => ~(Rank(seen[Len(h) - d]) > Rank(s))
  BY <1>1 DEF WorseTail
<1>6. Promise!SustainedWorse(seen, s) <=> d + 1 >= DowngradeSustained
  <2>1. ASSUME d + 1 >= DowngradeSustained
        PROVE  Promise!SustainedWorse(seen, s)
    <3>1. \A i \in (Len(seen) - DowngradeSustained + 1)..Len(seen) :
             i \in (Len(h) - d + 1)..(Len(h) + 1)
      BY <1>1, <2>1 DEF WorseTail
    <3>2. DowngradeSustained <= Len(seen)
      BY <1>1, <2>1 DEF WorseTail
    <3>. QED
      BY <1>4, <3>1, <3>2 DEF Promise!SustainedWorse, Rank
  <2>2. ASSUME Promise!SustainedWorse(seen, s), ~(d + 1 >= DowngradeSustained)
        PROVE  FALSE
    <3>1. Len(h) - d \in (Len(seen) - DowngradeSustained + 1)..Len(seen)
      BY <1>1, <2>1, <2>2 DEF Promise!SustainedWorse, WorseTail
    <3>2. Rank(seen[Len(h) - d]) > Rank(s)
      BY <3>1, <2>2 DEF Promise!SustainedWorse, Rank
    <3>. QED
      BY <1>1, <1>5, <2>2, <3>2 DEF Promise!SustainedWorse, WorseTail
  <2>. QED
    BY <2>1, <2>2
<1>7. ~Promise!SustainedBetter(seen, s)
  BY <1>1, <1>3 DEF Promise!SustainedBetter, Rank
<1>8. d + 1 < DowngradeSustained => WorseTail(seen, s, d + 1)
  <2>1. /\ Len(seen) - (d + 1) + 1 = Len(h) - d + 1
        /\ Len(seen) - (d + 1) = Len(h) - d
        /\ d <= Len(h)
    BY <1>1 DEF WorseTail
  <2> HIDE DEF seen
  <2>. QED
    BY <1>1, <1>4, <1>5, <2>1 DEF WorseTail
<1>9. BetterTail(seen, s, 0)
  BY <1>1, <1>3 DEF BetterTail
<1>. QED
  BY <1>6, <1>7, <1>8, <1>9

\* The same for a verdict that is better than the status.
LEMMA BetterVerdict ==
  ASSUME NEW h \in Seq(Status), NEW s \in Status, NEW v \in Status,
         NEW u, BetterTail(h, s, u), Rank(v) < Rank(s)
  PROVE  /\ Promise!SustainedBetter(Append(h, v), s) <=> u + 1 >= RecoverSustained
         /\ ~Promise!SustainedWorse(Append(h, v), s)
         /\ u + 1 < RecoverSustained => BetterTail(Append(h, v), s, u + 1)
         /\ WorseTail(Append(h, v), s, 0)
<1> DEFINE seen == Append(h, v)
<1>1. /\ Len(h) \in Nat /\ Len(seen) = Len(h) + 1 /\ seen[Len(h) + 1] = v
      /\ \A i \in 1..Len(h) : seen[i] = h[i]
      /\ u \in Nat /\ DowngradeSustained \in Nat \ {0} /\ RecoverSustained \in Nat \ {0}
  BY HealthAssumption DEF BetterTail
<1>2. \A i \in 1..Len(h) : h[i] \in Status /\ Rank(h[i]) \in Nat
  BY RanksOrder
<1>3. Rank(v) \in Nat /\ Rank(s) \in Nat
  BY RanksOrder
<1>4. \A i \in (Len(h) - u + 1)..(Len(h) + 1) : Rank(seen[i]) < Rank(s)
  BY <1>1, <1>2, <1>3 DEF BetterTail
<1>5. u < Len(h) => ~(Rank(seen[Len(h) - u]) < Rank(s))
  BY <1>1 DEF BetterTail
<1>6. Promise!SustainedBetter(seen, s) <=> u + 1 >= RecoverSustained
  <2>1. ASSUME u + 1 >= RecoverSustained
        PROVE  Promise!SustainedBetter(seen, s)
    <3>1. \A i \in (Len(seen) - RecoverSustained + 1)..Len(seen) :
             i \in (Len(h) - u + 1)..(Len(h) + 1)
      BY <1>1, <2>1 DEF BetterTail
    <3>2. RecoverSustained <= Len(seen)
      BY <1>1, <2>1 DEF BetterTail
    <3>. QED
      BY <1>4, <3>1, <3>2 DEF Promise!SustainedBetter, Rank
  <2>2. ASSUME Promise!SustainedBetter(seen, s), ~(u + 1 >= RecoverSustained)
        PROVE  FALSE
    <3>1. Len(h) - u \in (Len(seen) - RecoverSustained + 1)..Len(seen)
      BY <1>1, <2>1, <2>2 DEF Promise!SustainedBetter, BetterTail
    <3>2. Rank(seen[Len(h) - u]) < Rank(s)
      BY <3>1, <2>2 DEF Promise!SustainedBetter, Rank
    <3>. QED
      BY <1>1, <1>5, <2>2, <3>2 DEF Promise!SustainedBetter, BetterTail
  <2>. QED
    BY <2>1, <2>2
<1>7. ~Promise!SustainedWorse(seen, s)
  BY <1>1, <1>3 DEF Promise!SustainedWorse, Rank
<1>8. u + 1 < RecoverSustained => BetterTail(seen, s, u + 1)
  <2>1. /\ Len(seen) - (u + 1) + 1 = Len(h) - u + 1
        /\ Len(seen) - (u + 1) = Len(h) - u
        /\ u <= Len(h)
    BY <1>1 DEF BetterTail
  <2> HIDE DEF seen
  <2>. QED
    BY <1>1, <1>4, <1>5, <2>1 DEF BetterTail
<1>9. WorseTail(seen, s, 0)
  BY <1>1, <1>3 DEF WorseTail
<1>. QED
  BY <1>6, <1>7, <1>8, <1>9

\* A verdict that has become, or is, the status ends both tails.
LEMMA EqualVerdict ==
  ASSUME NEW h \in Seq(Status), NEW v \in Status
  PROVE  /\ WorseTail(Append(h, v), v, 0)
         /\ BetterTail(Append(h, v), v, 0)
         /\ ~Promise!SustainedWorse(Append(h, v), v)
         /\ ~Promise!SustainedBetter(Append(h, v), v)
<1> DEFINE seen == Append(h, v)
<1>1. /\ Len(h) \in Nat /\ Len(seen) = Len(h) + 1 /\ seen[Len(h) + 1] = v
      /\ DowngradeSustained \in Nat \ {0} /\ RecoverSustained \in Nat \ {0}
  BY HealthAssumption
<1>2. Rank(v) \in Nat
  BY RanksOrder
<1>3. WorseTail(seen, v, 0) /\ BetterTail(seen, v, 0)
  BY <1>1, <1>2 DEF WorseTail, BetterTail
<1>4. ~Promise!SustainedWorse(seen, v) /\ ~Promise!SustainedBetter(seen, v)
  BY <1>1, <1>2 DEF Promise!SustainedWorse, Promise!SustainedBetter, Rank
<1>. QED
  BY <1>3, <1>4

-----------------------------------------------------------------------------
(* The steps.                                                               *)

LEMMA FewStep ==
  ASSUME EngineInv, NEW k \in Subjects, NEW w, ObserveFew(k, w)
  PROVE  EngineInv' /\ Promise!HearNothing(k)
  BY DEF EngineInv, HealthTypeOK, Tails, WorseTail, BetterTail, ObserveFew, Show,
         Promise!HearNothing

LEMMA EnoughStep ==
  ASSUME EngineInv, NEW k \in Subjects, NEW w, NEW limited \in BOOLEAN,
         ObserveEnough(k, w, limited)
  PROVE  EngineInv' /\ \E v \in Status : Promise!Hear(k, v)
<1> DEFINE v == Evaluate(w, limited)
           h == history[k]
           s == currentStatus[k]
           d == downgradeCount[k]
           u == recoverCount[k]
           out == Promise!Outcome(k, v)
<1>1. /\ v \in Status /\ h \in Seq(Status) /\ s \in Status
      /\ WorseTail(h, s, d) /\ BetterTail(h, s, u)
  BY VerdictIsStatus DEF EngineInv, HealthTypeOK, Tails
<1>2. d \in Nat /\ u \in Nat /\ DowngradeSustained \in Nat \ {0} /\ RecoverSustained \in Nat \ {0}
  BY <1>1, HealthAssumption DEF WorseTail, BetterTail
<1>3. /\ Rank(v) \in Nat /\ Rank(s) \in Nat
      /\ Rank(v) = Rank(s) => v = s
      /\ worse(v, s) <=> Rank(v) > Rank(s)
  BY <1>1, RanksOrder DEF worse, Rank
<1>4. history' = [history EXCEPT ![k] = Append(h, v)]
  BY DEF ObserveEnough
<1> HIDE DEF v
\* What the step comes to, whichever of the three it is.
<1>5. \E n, m :
        /\ currentStatus' = [currentStatus EXCEPT ![k] = out]
        /\ Counts(k, n, m)
        /\ Show(k, out, v = out)
        /\ out \in Status
        /\ WorseTail(Append(h, v), out, n)
        /\ BetterTail(Append(h, v), out, m)
  <2>1. CASE Confirm(k, v)
    <3>1. out = s /\ v = s
      BY <1>1, <2>1, EqualVerdict DEF Confirm, Promise!Outcome
    <3>2. currentStatus' = [currentStatus EXCEPT ![k] = out]
      BY <2>1, <3>1 DEF Confirm, EngineInv, HealthTypeOK
    <3>3. Counts(k, 0, 0) /\ Show(k, out, v = out)
      BY <2>1, <3>1 DEF Confirm, Show
    <3>. QED
      BY <1>1, <3>1, <3>2, <3>3, EqualVerdict
  <2>2. CASE Downgrade(k, v)
    <3>1. Rank(v) > Rank(s) /\ v # s
      BY <1>3, <2>2 DEF Downgrade
    <3>2. /\ Promise!SustainedWorse(Append(h, v), s) <=> d + 1 >= DowngradeSustained
          /\ ~Promise!SustainedBetter(Append(h, v), s)
          /\ d + 1 < DowngradeSustained => WorseTail(Append(h, v), s, d + 1)
          /\ BetterTail(Append(h, v), s, 0)
      BY <1>1, <3>1, WorseVerdict
    <3>3. CASE d + 1 < DowngradeSustained
      <4>1. out = s
        BY <1>2, <3>2, <3>3 DEF Promise!Outcome
      <4>2. Counts(k, d + 1, 0) /\ Show(k, s, FALSE) /\ UNCHANGED currentStatus
        BY <2>2, <3>3 DEF Downgrade
      <4>3. Show(k, out, v = out)
        BY <3>1, <4>1, <4>2 DEF Show
      <4>4. currentStatus' = [currentStatus EXCEPT ![k] = out]
        BY <4>1, <4>2 DEF EngineInv, HealthTypeOK
      <4>5. /\ WorseTail(Append(h, v), out, d + 1) /\ BetterTail(Append(h, v), out, 0)
            /\ Counts(k, d + 1, 0) /\ out \in Status
        BY <1>1, <3>2, <3>3, <4>1, <4>2
      <4> HIDE DEF out, h, d, u
      <4>. QED
        BY <4>3, <4>4, <4>5
    <3>4. CASE ~(d + 1 < DowngradeSustained)
      <4>1. out = v
        BY <1>2, <3>2, <3>4 DEF Promise!Outcome
      <4>2. /\ Counts(k, 0, 0) /\ Show(k, v, TRUE)
            /\ currentStatus' = [currentStatus EXCEPT ![k] = v]
        BY <2>2, <3>4 DEF Downgrade
      <4>3. Show(k, out, v = out)
        BY <4>1, <4>2 DEF Show
      <4>. QED
        BY <1>1, <4>1, <4>2, <4>3, EqualVerdict
    <3>. QED
      BY <3>3, <3>4
  <2>3. CASE Recover(k, v)
    <3>1. Rank(v) < Rank(s) /\ v # s
      BY <1>3, <2>3 DEF Recover
    <3>2. /\ Promise!SustainedBetter(Append(h, v), s) <=> u + 1 >= RecoverSustained
          /\ ~Promise!SustainedWorse(Append(h, v), s)
          /\ u + 1 < RecoverSustained => BetterTail(Append(h, v), s, u + 1)
          /\ WorseTail(Append(h, v), s, 0)
      BY <1>1, <3>1, BetterVerdict
    <3>3. CASE u + 1 < RecoverSustained
      <4>1. out = s
        BY <1>2, <3>2, <3>3 DEF Promise!Outcome
      <4>2. Counts(k, 0, u + 1) /\ Show(k, s, FALSE) /\ UNCHANGED currentStatus
        BY <2>3, <3>3 DEF Recover
      <4>3. Show(k, out, v = out)
        BY <3>1, <4>1, <4>2 DEF Show
      <4>4. currentStatus' = [currentStatus EXCEPT ![k] = out]
        BY <4>1, <4>2 DEF EngineInv, HealthTypeOK
      <4>5. /\ WorseTail(Append(h, v), out, 0) /\ BetterTail(Append(h, v), out, u + 1)
            /\ Counts(k, 0, u + 1) /\ out \in Status
        BY <1>1, <3>2, <3>3, <4>1, <4>2
      <4> HIDE DEF out, h, d, u
      <4>. QED
        BY <4>3, <4>4, <4>5
    <3>4. CASE ~(u + 1 < RecoverSustained)
      <4>1. out = v
        BY <1>2, <3>2, <3>4 DEF Promise!Outcome
      <4>2. /\ Counts(k, 0, 0) /\ Show(k, v, TRUE)
            /\ currentStatus' = [currentStatus EXCEPT ![k] = v]
        BY <2>3, <3>4 DEF Recover
      <4>3. Show(k, out, v = out)
        BY <4>1, <4>2 DEF Show
      <4>. QED
        BY <1>1, <4>1, <4>2, <4>3, EqualVerdict
    <3>. QED
      BY <3>3, <3>4
  <2>. QED
    BY <2>1, <2>2, <2>3 DEF ObserveEnough, v
<1> HIDE DEF out
<1>6. PICK n, m :
        /\ currentStatus' = [currentStatus EXCEPT ![k] = out]
        /\ Counts(k, n, m)
        /\ Show(k, out, v = out)
        /\ out \in Status
        /\ WorseTail(Append(h, v), out, n)
        /\ BetterTail(Append(h, v), out, m)
  BY <1>5
<1>7. /\ Append(h, v) \in Seq(Status)
      /\ n \in 0..(DowngradeSustained - 1) /\ m \in 0..(RecoverSustained - 1)
  BY <1>1, <1>6 DEF WorseTail, BetterTail
<1>8. HealthTypeOK'
  BY <1>4, <1>6, <1>7 DEF EngineInv, HealthTypeOK, Counts, Show
<1>9. ASSUME NEW j \in Subjects PROVE Tails(j)'
  <2>1. CASE j = k
    BY <1>4, <1>6, <2>1 DEF EngineInv, HealthTypeOK, Counts, Tails, WorseTail, BetterTail
  <2>2. CASE j # k
    BY <1>4, <1>6, <2>2 DEF EngineInv, HealthTypeOK, Counts, Tails, WorseTail, BetterTail
  <2>. QED
    BY <2>1, <2>2
<1>10. Promise!Hear(k, v)
  BY <1>4, <1>6 DEF Promise!Hear, Show, out
<1>. QED
  BY <1>1, <1>8, <1>9, <1>10 DEF EngineInv

-----------------------------------------------------------------------------

\* Every status follows the streaks of its verdicts as Hysteresis says, however
\* many subjects are observed and however their windows alternate.
THEOREM StatusFollowsStreaksHolds == HealthSpec => StatusFollowsStreaks
<1>1. HealthInit => EngineInv
  BY HealthAssumption
     DEF HealthInit, EngineInv, HealthTypeOK, Tails, WorseTail, BetterTail, Status
<1>2. HealthInit => Promise!Init
  BY DEF HealthInit, Promise!Init
<1>3. EngineInv /\ [HealthNext]_healthVars
        => EngineInv' /\ [Promise!Next]_(Promise!hysteresisVars)
  <2> SUFFICES ASSUME EngineInv, [HealthNext]_healthVars
               PROVE  EngineInv' /\ [Promise!Next]_(Promise!hysteresisVars)
    OBVIOUS
  <2>1. CASE HealthNext
    <3>1. PICK k \in Subjects, w \in Windows :
            \/ ObserveFew(k, w)
            \/ \E limited \in BOOLEAN : ObserveEnough(k, w, limited)
      BY <2>1 DEF HealthNext
    <3>2. CASE ObserveFew(k, w)
      BY <3>2, FewStep DEF Promise!Next
    <3>3. CASE \E limited \in BOOLEAN : ObserveEnough(k, w, limited)
      BY <3>3, EnoughStep DEF Promise!Next
    <3>. QED
      BY <3>1, <3>2, <3>3
  <2>2. CASE UNCHANGED healthVars
    BY <2>2 DEF healthVars, EngineInv, HealthTypeOK, Tails, WorseTail, BetterTail,
                Promise!hysteresisVars
  <2>. QED
    BY <2>1, <2>2
<1>. QED
  BY <1>1, <1>2, <1>3, PTL DEF HealthSpec, StatusFollowsStreaks, Promise!Spec

\* The engine's variables keep their types; in particular the counters never
\* reach the numbers at which the status follows.
THEOREM EngineTypeCorrect == HealthSpec => []HealthTypeOK
<1>1. HealthInit => EngineInv
  BY HealthAssumption
     DEF HealthInit, EngineInv, HealthTypeOK, Tails, WorseTail, BetterTail, Status
<1>2. EngineInv /\ [HealthNext]_healthVars => EngineInv'
  <2> SUFFICES ASSUME EngineInv, [HealthNext]_healthVars
               PROVE  EngineInv'
    OBVIOUS
  <2>1. CASE HealthNext
    BY <2>1, FewStep, EnoughStep DEF HealthNext
  <2>2. CASE UNCHANGED healthVars
    BY <2>2 DEF healthVars, EngineInv, HealthTypeOK, Tails, WorseTail, BetterTail
  <2>. QED
    BY <2>1, <2>2
<1>. QED
  BY <1>1, <1>2, PTL DEF HealthSpec, EngineInv

-----------------------------------------------------------------------------
(* Price versions and the usage summary.                                    *)

\* What the columns of an attempt may hold.
Entry == {[status |-> "none"]} \cup
         [status : {"started", "success", "partial", "failed", "cancelled"},
          model : PricedModels, began : Time, tokens : TokenCounts \cup {0}]

\* A version dated after an attempt began changes nothing for it, and one
\* that is not makes it redated: for every other attempt a summary finds, at
\* any time, the prices that were in force when it began.
PriceStands(r) ==
    ledger[r].status # "none" /\ r \notin redated =>
        \A m \in PricedModels : PriceAt(m, ledger[r].began) = inForce[r][m]

BillingInv == BillingTypeOK /\ \A r \in Attempts : PriceStands(r)

LEMMA PriceTyped ==
  ASSUME BillingTypeOK, NEW m, NEW t PROVE PriceAt(m, t) \in SUBSET Nanos
BY DEF BillingTypeOK, PriceAt

LEMMA AddPriceStep ==
  ASSUME BillingInv, NEW m \in PricedModels, NEW from \in Time, NEW nano \in Nanos,
         AddPrice(m, from, nano)
  PROVE  BillingInv'
<1> DEFINE v == [model |-> m, from |-> from, nano |-> nano]
<1>1. /\ prices' = prices \cup {v} /\ UNCHANGED <<now, ledger, inForce>>
      /\ redated' = redated \cup {r \in Attempts : ledger[r].status # "none" /\ from <= ledger[r].began}
  BY DEF AddPrice
<1>2. v \in [model : PricedModels, from : Time, nano : Nanos] /\ v.from = from
  OBVIOUS
<1>3. BillingTypeOK'
  <2> HIDE DEF v
  <2>. QED
    BY <1>1, <1>2 DEF BillingInv, BillingTypeOK
<1>4. ASSUME NEW r \in Attempts PROVE PriceStands(r)'
  <2>1. SUFFICES ASSUME ledger[r].status # "none", r \notin redated', NEW n \in PricedModels
                 PROVE  PriceAt(n, ledger[r].began)' = inForce[r][n]
    BY <1>1 DEF PriceStands
  <2> DEFINE t == ledger[r].began
             known == {w \in prices : w.model = n /\ w.from <= t}
             then == {w \in prices' : w.model = n /\ w.from <= t}
  <2>2. ~(from <= t) /\ r \notin redated
    BY <1>1, <2>1
  <2>3. then = known
    <3> HIDE DEF v, t
    <3>. QED
      BY <1>1, <1>2, <2>2
  <2>4. PriceAt(n, t)' = PriceAt(n, t)
    <3>1. PriceAt(n, t)' = {w.nano : w \in {x \in then : \A u \in then : u.from <= x.from}}
      BY <1>1 DEF PriceAt
    <3>2. PriceAt(n, t) = {w.nano : w \in {x \in known : \A u \in known : u.from <= x.from}}
      BY DEF PriceAt
    <3> HIDE DEF then, known
    <3>. QED
      BY <2>3, <3>1, <3>2
  <2>. QED
    BY <2>1, <2>2, <2>4 DEF BillingInv, PriceStands
<1>. QED
  BY <1>3, <1>4 DEF BillingInv

LEMMA BeginAttemptStep ==
  ASSUME BillingInv, NEW r \in Attempts, NEW m \in PricedModels, BeginAttempt(r, m)
  PROVE  BillingInv'
<1> DEFINE e == [status |-> "started", model |-> m, began |-> now, tokens |-> 0]
           paid == [n \in PricedModels |-> PriceAt(n, now)]
<1>1. /\ ledger' = [ledger EXCEPT ![r] = e]
      /\ inForce' = [inForce EXCEPT ![r] = paid]
      /\ UNCHANGED <<now, prices, redated>>
  BY DEF BeginAttempt
<1>2. e \in Entry /\ e.began = now
  BY DEF Entry, BillingInv, BillingTypeOK
<1>3. paid \in [PricedModels -> SUBSET Nanos] /\ \A n \in PricedModels : paid[n] = PriceAt(n, now)
  BY PriceTyped DEF BillingInv
<1> HIDE DEF e, paid
<1>4. BillingTypeOK'
  BY <1>1, <1>2, <1>3 DEF BillingInv, BillingTypeOK, Entry
<1>5. ASSUME NEW s \in Attempts PROVE PriceStands(s)'
  <2>1. \A n, t : PriceAt(n, t)' = PriceAt(n, t)
    BY <1>1 DEF PriceAt
  <2>2. ledger \in [Attempts -> Entry] /\ inForce \in [Attempts -> [PricedModels -> SUBSET Nanos]]
    BY DEF BillingInv, BillingTypeOK, Entry
  <2>3. CASE s = r
    <3>1. ledger'[s] = e /\ inForce'[s] = paid
      BY <1>1, <2>2, <2>3
    <3>. QED
      BY <1>2, <1>3, <2>1, <3>1 DEF PriceStands
  <2>4. CASE s # r
    <3>1. ledger'[s] = ledger[s] /\ inForce'[s] = inForce[s] /\ redated' = redated
      BY <1>1, <2>2, <2>4
    <3>2. PriceStands(s)
      BY DEF BillingInv
    <3>. QED
      BY <2>1, <3>1, <3>2 DEF PriceStands
  <2>. QED
    BY <2>3, <2>4
<1>. QED
  BY <1>4, <1>5 DEF BillingInv

LEMMA EndAttemptStep ==
  ASSUME BillingInv, NEW r \in Attempts, NEW m \in PricedModels, NEW n \in TokenCounts,
         NEW status \in {"success", "partial", "failed", "cancelled"}, EndAttempt(r, m, n, status)
  PROVE  BillingInv'
<1>1. /\ ledger[r].status = "started"
      /\ ledger' = [ledger EXCEPT ![r].status = status, ![r].model = m, ![r].tokens = n]
      /\ UNCHANGED <<now, prices, inForce, redated>>
  BY DEF EndAttempt
<1>2. ledger \in [Attempts -> Entry] /\ ledger[r] \in Entry
  BY DEF BillingInv, BillingTypeOK, Entry
<1>3. ledger[r] \in [status : {"started", "success", "partial", "failed", "cancelled"},
                     model : PricedModels, began : Time, tokens : TokenCounts \cup {0}]
  BY <1>1, <1>2 DEF Entry
<1>4. /\ ledger'[r] \in Entry /\ ledger'[r].began = ledger[r].began
      /\ \A s \in Attempts : s # r => ledger'[s] = ledger[s]
      /\ ledger' \in [Attempts -> Entry]
  BY <1>1, <1>2, <1>3 DEF Entry
<1>5. BillingTypeOK'
  BY <1>1, <1>4 DEF BillingInv, BillingTypeOK, Entry
<1>6. \A k, t : PriceAt(k, t)' = PriceAt(k, t)
  BY <1>1 DEF PriceAt
<1>7. ASSUME NEW s \in Attempts PROVE PriceStands(s)'
  <2>1. PriceStands(s)
    BY DEF BillingInv
  <2>2. ledger'[s].began = ledger[s].began /\ (ledger'[s].status # "none" => ledger[s].status # "none")
    BY <1>1, <1>4
  <2>. QED
    BY <1>1, <1>6, <2>1, <2>2 DEF PriceStands
<1>. QED
  BY <1>5, <1>7 DEF BillingInv

LEMMA BillingStands ==
  ASSUME BillingInv, now' \in Time, UNCHANGED <<prices, ledger, inForce, redated>>
  PROVE  BillingInv'
<1>1. BillingTypeOK'
  BY DEF BillingInv, BillingTypeOK
<1>2. \A k, t : PriceAt(k, t)' = PriceAt(k, t)
  BY DEF PriceAt
<1>. QED
  BY <1>1, <1>2 DEF BillingInv, PriceStands

LEMMA BillingInvHolds == BillingSpec => []BillingInv
<1>1. BillingInit => BillingInv
  <2>1. ASSUME BillingInit PROVE BillingTypeOK
    BY <2>1, BillingAssumption DEF BillingInit, BillingTypeOK, Time
  <2>2. ASSUME BillingInit, NEW r \in Attempts PROVE PriceStands(r)
    BY <2>2 DEF BillingInit, PriceStands
  <2>. QED
    BY <2>1, <2>2 DEF BillingInv
<1>2. BillingInv /\ [BillingNext]_billingVars => BillingInv'
  <2>. SUFFICES ASSUME BillingInv, [BillingNext]_billingVars PROVE BillingInv'
    OBVIOUS
  <2>1. CASE Later
    <3>1. now' \in Time /\ UNCHANGED <<prices, ledger, inForce, redated>>
      BY <2>1, BillingAssumption DEF Later, BillingInv, BillingTypeOK, Time
    <3>. QED
      BY <3>1, BillingStands
  <2>2. CASE UNCHANGED billingVars
    <3>1. now' \in Time /\ UNCHANGED <<prices, ledger, inForce, redated>>
      BY <2>2 DEF billingVars, BillingInv, BillingTypeOK
    <3>. QED
      BY <3>1, BillingStands
  <2>. QED
    BY <2>1, <2>2, AddPriceStep, BeginAttemptStep, EndAttemptStep DEF BillingNext
<1>. QED
  BY <1>1, <1>2, PTL DEF BillingSpec

\* The usage summary multiplies tokens by the versions in force when an
\* attempt began, each time it is asked: what it charges for a model stays the
\* same, whatever versions are added since, unless one is dated back
\* (AggregateUsage, handlePriceVersions).
THEOREM BillKeepsItsPriceHolds == BillingSpec => []BillKeepsItsPrice
<1>1. BillingInv => BillKeepsItsPrice
  <2>. SUFFICES ASSUME BillingInv, NEW m \in PricedModels,
                       Successful(m) \cap redated = {}
                PROVE  Amount(m) = SumFunction([r \in {s \in Successful(m) : inForce[s][m] # {}} |->
                                                   ledger[r].tokens * The(inForce[r][m])])
    BY DEF BillKeepsItsPrice
  <2>1. \A r \in Successful(m) : PriceAt(m, ledger[r].began) = inForce[r][m]
    BY DEF BillingInv, PriceStands, Successful
  <2> DEFINE priced == {s \in Successful(m) : inForce[s][m] # {}}
  <2>2. Priced(m) = priced
    BY <2>1 DEF Priced
  <2>3. [r \in Priced(m) |-> ledger[r].tokens * The(PriceAt(m, ledger[r].began))]
        = [r \in priced |-> ledger[r].tokens * The(inForce[r][m])]
    <3>1. \A r \in priced : The(PriceAt(m, ledger[r].began)) = The(inForce[r][m])
      BY <2>1
    <3> HIDE DEF priced
    <3>. QED
      BY <2>2, <3>1
  <2>. QED
    BY <2>3 DEF Amount
<1>. QED
  BY <1>1, BillingInvHolds, PTL

-----------------------------------------------------------------------------
(* The parts together.                                                      *)

\* What MessagesInv does not say of the types.
MessagesRest ==
    /\ at \in Place
    /\ ask \in Ask
    /\ lastErr \in {"none", "unresolved", "retryable", "final"}
    /\ closed \in {"open", "finished", "refused", "lost"}

LEMMA MessagesTypeOKHolds == MessagesSpec => []MessagesTypeOK
<1>1. MessagesInit => MessagesInv /\ MessagesRest
  BY DEF MessagesInit, MessagesInv, OneAccountAnswers, MessagesRest, Place
<1>2. MessagesRest /\ [MessagesNext]_messagesVars => MessagesRest'
  <2>. SUFFICES ASSUME MessagesRest, [MessagesNext]_messagesVars PROVE MessagesRest'
    OBVIOUS
  <2>. USE DEF MessagesRest, Place
  <2>1. CASE UNCHANGED messagesVars
    BY <2>1 DEF messagesVars
  <2>2. CASE RejectMessages \/ SkipAnswerer \/ CallUpstream \/ RunOutOfAnswerers
    BY <2>2 DEF RejectMessages, SkipAnswerer, CallUpstream, RunOutOfAnswerers, Close
  <2>3. CASE \E order \in Orders : ResolveMessages(order)
    BY <2>3 DEF ResolveMessages
  <2>4. CASE \E err \in {"retryable", "final"} : CallRefused(err)
    BY <2>4 DEF CallRefused, Close, Returns
  <2>5. CASE BodyArrives \/ BodyBreaks \/ StreamOpens \/ StreamCompletes \/ StreamBreaks
    BY <2>5 DEF BodyArrives, BodyBreaks, StreamOpens, StreamCompletes, StreamBreaks, Close, Returns
  <2>6. CASE SettleMessages \/ PassEvent \/ ClientLeaves
    BY <2>6 DEF SettleMessages, PassEvent, ClientLeaves, Close
  <2>. QED
    BY <2>1, <2>2, <2>3, <2>4, <2>5, <2>6 DEF MessagesNext, MessagesStep
<1>3. MessagesInv /\ MessagesRest => MessagesTypeOK
  BY DEF MessagesInv, MessagesRest, MessagesTypeOK
<1>. QED
  BY <1>1, <1>2, <1>3, MessagesStepKeeps, PTL DEF MessagesSpec

\* What AdminInv does not say of the types.
AdminRest ==
    /\ providers \subseteq Providers
    /\ attached \subseteq Providers \cup Accounts
    /\ policies \in [Policies -> SUBSET Accounts]
    /\ usage \subseteq Accounts

LEMMA AdminRestStep ==
  ASSUME AdminInv, AdminRest, [AdminNext]_adminVars
  PROVE  AdminRest'
<1>. USE DEF AdminRest
<1>1. CASE UNCHANGED adminVars \/ AdminRestart
  BY <1>1 DEF adminVars, AdminRestart
<1>2. CASE Statement
  <2>1. ASSUME NEW p \in Providers, CreateProvider(p) PROVE AdminRest'
    BY <2>1 DEF CreateProvider
  <2>2. ASSUME NEW a \in Accounts, NEW s \in AccountStatus, UpdateAccount(a, s) PROVE AdminRest'
    BY <2>2 DEF UpdateAccount
  <2>3. ASSUME NEW i \in Policies, NEW candidates \in SUBSET Accounts, SavePolicy(i, candidates)
        PROVE  AdminRest'
    BY <2>3 DEF SavePolicy
  <2>4. ASSUME NEW a \in Accounts, AttachRow(a) PROVE AdminRest'
    BY <2>4 DEF AttachRow
  <2>5. ASSUME NEW p \in Providers, NEW members \in SUBSET Accounts, SavePool(p, members)
        PROVE  AdminRest'
    BY <2>5 DEF SavePool
  <2>. QED
    BY <1>2, <2>1, <2>2, <2>3, <2>4, <2>5 DEF Statement
<1>3. ASSUME NEW c \in Calls, CallStarts(c) PROVE AdminRest'
  <2>1. UNCHANGED <<providers, attached, policies, usage>>
    BY <1>3 DEF CallStarts, CreateAccount, StoreNewKey, ResolveTarget, DeleteAccount, DeleteProvider
  <2>. QED
    BY <2>1
<1>4. ASSUME NEW c \in Calls, CallGoesOn(c) PROVE AdminRest'
  <2>0. calls[c].at \notin {"idle", "removeProvider"} => calls[c].on \in Accounts
    BY CallFields DEF AdminInv
  <2>1. CASE \/ InsertAccount(c) \/ ValidateNewKey(c) \/ SwitchCredential(c) \/ ActivateRotated(c)
             \/ Verify(c) \/ CountCandidates(c) \/ CountUsage(c) \/ RemoveAccount(c)
    <3>1. UNCHANGED <<providers, attached, policies, usage>>
      BY <2>1 DEF InsertAccount, ValidateNewKey, SwitchCredential, ActivateRotated, Verify,
         CountCandidates, CountUsage, RemoveAccount
    <3>. QED
      BY <3>1
  <2>2. CASE UpsertModels(c)
    BY <2>2 DEF UpsertModels
  <2>3. CASE SaveAccountModels(c)
    BY <2>0, <2>3 DEF SaveAccountModels
  <2>4. CASE RecordUsage(c)
    BY <2>0, <2>4 DEF RecordUsage
  <2>5. CASE RemoveProvider(c)
    BY <2>5 DEF RemoveProvider
  <2>. QED
    BY <1>4, <2>1, <2>2, <2>3, <2>4, <2>5 DEF CallGoesOn
<1>. QED
  BY <1>1, <1>2, <1>3, <1>4 DEF AdminNext

LEMMA AdminTypeOKHolds == AdminSpec => []AdminTypeOK
<1>1. AdminInit => AdminRest
  BY DEF AdminInit, AdminRest
<1>2. AdminInv /\ AdminRest => AdminTypeOK
  BY DEF AdminInv, CallsTyped, AdminRest, AdminTypeOK
<1>. QED
  BY <1>1, <1>2, AdminInvHolds, AdminRestStep, PTL DEF AdminSpec

\* The sum runs each part as its own specification has it, or lets it stand.
LEMMA PartsRun ==
  ASSUME [ServicesNext]_servicesVars
  PROVE  /\ [HealthNext]_healthVars
         /\ [SessionNext]_sessionVars
         /\ [MigrationNext]_migrationVars
         /\ [StreamNext]_streamVars
         /\ [MessagesNext]_messagesVars
         /\ [AdminNext]_adminVars
         /\ [ProjectsNext]_projectsVars
         /\ [BillingNext]_billingVars
<1>1. CASE UNCHANGED servicesVars
  <2>1. UNCHANGED <<healthVars, sessionVars, migrationVars, streamVars,
                    messagesVars, adminVars, projectsVars, billingVars>>
    BY <1>1 DEF servicesVars
  <2>. QED
    BY <2>1
<1>2. CASE ServicesNext
  BY <1>2, Zenon DEF ServicesNext, OfHealth, OfSessions, OfMigration, OfStreams, OfMessages,
     OfAdministration, OfProjects, OfBilling, OthersStand
<1>. QED
  BY <1>1, <1>2

LEMMA SpecsOfParts ==
  ServicesSpec => /\ HealthSpec /\ SessionSpec /\ MigrationSpec /\ StreamSpec
                  /\ MessagesSpec /\ AdminSpec /\ ProjectsSpec /\ BillingSpec
<1>1. ServicesInit => /\ HealthInit /\ SessionInit /\ MigrationInit /\ StreamInit
                      /\ MessagesInit /\ AdminInit /\ ProjectsInit /\ BillingInit
  BY DEF ServicesInit
<1>. QED
  BY <1>1, PartsRun, PTL DEF ServicesSpec, HealthSpec, SessionSpec, MigrationSpec, StreamSpec,
     MessagesSpec, AdminSpec, ProjectsSpec, BillingSpec

\* Whatever part runs, each of them keeps its types.
THEOREM ServicesTypeOKHolds == ServicesSpec => []ServicesTypeOK
<1>1. SessionInv => SessionTypeOK
  BY DEF SessionInv
<1>2. MigrationInv => MigrationTypeOK
  BY DEF MigrationInv
<1>3. ReadsInv => StreamTypeOK
  BY DEF ReadsInv
<1>4. ProjectsInv => ProjectsTypeOK
  BY DEF ProjectsInv
<1>5. BillingInv => BillingTypeOK
  BY DEF BillingInv
<1>6. HealthTypeOK /\ SessionTypeOK /\ MigrationTypeOK /\ StreamTypeOK /\ MessagesTypeOK
      /\ AdminTypeOK /\ ProjectsTypeOK /\ BillingTypeOK => ServicesTypeOK
  BY DEF ServicesTypeOK
<1>. QED
  BY <1>1, <1>2, <1>3, <1>4, <1>5, <1>6, SpecsOfParts, EngineTypeCorrect, SessionInvHolds,
     MigrationInvHolds, ReadsInvHolds, MessagesTypeOKHolds, AdminTypeOKHolds, ProjectsInvHolds,
     BillingInvHolds, PTL

\* What is proved of a part holds of the sum, whose instances TLC checks.
THEOREM PropertiesOfParts ==
  ServicesSpec => /\ []SchemaSound /\ []SuccessMeansComplete /\ []ClientReadsUpstream
                  /\ []OneAccountAnswers /\ []FirstRotationIsSafe /\ []TokenHasProject
                  /\ []BillKeepsItsPrice
                  /\ StatusFollowsStreaks /\ SessionsEnd /\ HistoryProtects
BY SpecsOfParts, SchemaSoundHolds, SuccessMeansCompleteHolds, ClientReadsUpstreamHolds,
   OneAccountAnswersHolds, FirstRotationIsSafeHolds, TokenHasProjectHolds,
   BillKeepsItsPriceHolds, StatusFollowsStreaksHolds, SessionsEndHolds, HistoryProtectsHolds, PTL
===============================================================================
