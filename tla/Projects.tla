------------------------------- MODULE Projects -------------------------------
(***************************************************************************)
(* Projects and the tokens that belong to them (internal/api): a token     *)
(* names its project without a foreign key, so both handlers check, each   *)
(* in a statement before the one that writes.                              *)
(***************************************************************************)
EXTENDS Naturals

CONSTANTS
    Desks,        \* requests that may be under way at a time
    ProjectIds, TokenIds,
    NoProject     \* of a token that belongs to none, and of no token

ASSUME ProjectsAssumption == NoProject \notin ProjectIds

VARIABLES
    projects,     \* rows of projects
    tokens,       \* tokens[t]: "absent", or the row with its project
    errands,      \* errands[d]: what the handler of d is about to write
    raced         \* history: tokens created while their project's deletion
                  \* was under way

projectsVars == <<projects, tokens, errands, raced>>

Absent == [row |-> FALSE, project |-> NoProject]

Errand == [write : {"delete"}, project : ProjectIds]
          \cup [write : {"insert"}, token : TokenIds, project : ProjectIds \cup {NoProject}]
          \cup {[write |-> "nothing"]}

Free == [write |-> "nothing"]

ProjectsInit ==
    /\ projects = {}
    /\ tokens = [t \in TokenIds |-> Absent]
    /\ errands = [d \in Desks |-> Free]
    /\ raced = {}

CreateProject(j) ==
    /\ j \notin projects
    /\ projects' = projects \cup {j}
    /\ UNCHANGED <<tokens, errands, raced>>

\* projectAction: the tokens are listed; one of the project's is a conflict.
ListTokens(d, j) ==
    /\ errands[d] = Free
    /\ \A t \in TokenIds : ~(tokens[t].row /\ tokens[t].project = j)
    /\ errands' = [errands EXCEPT ![d] = [write |-> "delete", project |-> j]]
    /\ UNCHANGED <<projects, tokens, raced>>

\* Tokens of the project whose creation is past its check.
Coming(j) == {t \in TokenIds : \E d \in Desks :
                errands[d] = [write |-> "insert", token |-> t, project |-> j]}

RemoveProject(d) ==
    /\ errands[d].write = "delete"
    /\ projects' = projects \ {errands[d].project}
    /\ raced' = raced \cup Coming(errands[d].project)
    /\ errands' = [errands EXCEPT ![d] = Free]
    /\ UNCHANGED tokens

\* Seeded fault: the project a token names is not looked up.
GetNoProject(d, t, j) ==
    /\ errands[d] = Free
    /\ ~tokens[t].row /\ \A e \in Desks : errands[e].write = "insert" => errands[e].token # t
    /\ errands' = [errands EXCEPT ![d] = [write |-> "insert", token |-> t, project |-> j]]
    /\ raced' = raced \ {t}
    /\ UNCHANGED <<projects, tokens>>

\* createToken, up to GetProject.  Token ids are random, so t is new.
GetProject(d, t, j) ==
    /\ errands[d] = Free
    /\ ~tokens[t].row /\ \A e \in Desks : errands[e].write = "insert" => errands[e].token # t
    /\ j \in projects \cup {NoProject}
    /\ errands' = [errands EXCEPT ![d] = [write |-> "insert", token |-> t, project |-> j]]
    /\ raced' = raced \ {t}
    /\ UNCHANGED <<projects, tokens>>

InsertToken(d) ==
    LET t == errands[d].token  j == errands[d].project IN
    /\ errands[d].write = "insert"
    /\ tokens' = [tokens EXCEPT ![t] = [row |-> TRUE, project |-> j]]
    /\ raced' = IF \E e \in Desks : errands[e] = [write |-> "delete", project |-> j]
                THEN raced \cup {t} ELSE raced
    /\ errands' = [errands EXCEPT ![d] = Free]
    /\ UNCHANGED projects

\* DELETE /tokens/{id}
DeleteTokenRow(t) ==
    /\ tokens[t].row
    /\ tokens' = [tokens EXCEPT ![t] = Absent]
    /\ UNCHANGED <<projects, errands, raced>>

\* A statement fails, or the process dies: the errand ends without its write.
Abandon(d) ==
    /\ errands[d] # Free
    /\ errands' = [errands EXCEPT ![d] = Free]
    /\ UNCHANGED <<projects, tokens, raced>>

ProjectsNext ==
    \/ \E j \in ProjectIds : CreateProject(j)
    \/ \E t \in TokenIds : DeleteTokenRow(t)
    \/ \E d \in Desks :
         \/ \E j \in ProjectIds : ListTokens(d, j)
         \/ \E t \in TokenIds, j \in ProjectIds \cup {NoProject} : GetProject(d, t, j)
         \/ RemoveProject(d) \/ InsertToken(d) \/ Abandon(d)

ProjectsSpec == ProjectsInit /\ [][ProjectsNext]_projectsVars

------------------------------------------------------------------------------
ProjectsTypeOK ==
    /\ projects \subseteq ProjectIds
    /\ tokens \in [TokenIds -> [row : BOOLEAN, project : ProjectIds \cup {NoProject}]]
    /\ errands \in [Desks -> Errand]
    /\ raced \subseteq TokenIds

\* The checks of createToken and projectAction leave a token without its
\* project in one case only: the token was created while the deletion of the
\* project was under way.
TokenHasProject ==
    \A t \in TokenIds :
      tokens[t].row /\ tokens[t].project # NoProject /\ t \notin raced
      => tokens[t].project \in projects
==============================================================================
