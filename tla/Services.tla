------------------------------- MODULE Services -------------------------------
(***************************************************************************)
(* The components that share no state with each other, side by side: part  *)
(* chooses one of them, which then runs alone.  The behaviours of the sum  *)
(* are those of its parts, and so is the number of states (a product would *)
(* multiply them).                                                         *)
(***************************************************************************)
EXTENDS HealthWindow, Sessions, Migration, ChatStream, MessagesRelay,
        Administration, Projects, Billing

VARIABLE part

servicesVars == <<part, healthVars, sessionVars, migrationVars, streamVars,
                  messagesVars, adminVars, projectsVars, billingVars>>

Part == {"health", "sessions", "migration", "streams", "messages",
         "administration", "projects", "billing"}

\* A part that does not run starts in one of its initial states only.
ServicesInit ==
    /\ part \in Part
    /\ HealthInit
    /\ SessionInit /\ (part # "sessions" => localOnly)
    /\ MigrationInit
    /\ StreamInit /\ (part # "streams" => dialect = "openai")
    /\ MessagesInit /\ (part # "messages" => ask = "body")
    /\ AdminInit
    /\ ProjectsInit
    /\ BillingInit

\* The parts that do not run stand still.
OthersStand ==
    /\ UNCHANGED part
    /\ part # "health" => UNCHANGED healthVars
    /\ part # "sessions" => UNCHANGED sessionVars
    /\ part # "migration" => UNCHANGED migrationVars
    /\ part # "streams" => UNCHANGED streamVars
    /\ part # "messages" => UNCHANGED messagesVars
    /\ part # "administration" => UNCHANGED adminVars
    /\ part # "projects" => UNCHANGED projectsVars
    /\ part # "billing" => UNCHANGED billingVars

OfHealth == part = "health" /\ HealthNext /\ OthersStand
OfSessions == part = "sessions" /\ SessionNext /\ OthersStand
OfMigration == part = "migration" /\ MigrationNext /\ OthersStand
OfStreams == part = "streams" /\ StreamNext /\ OthersStand
OfMessages == part = "messages" /\ MessagesNext /\ OthersStand
OfAdministration == part = "administration" /\ AdminNext /\ OthersStand
OfProjects == part = "projects" /\ ProjectsNext /\ OthersStand
OfBilling == part = "billing" /\ BillingNext /\ OthersStand

ServicesNext ==
    \/ OfHealth
    \/ OfSessions
    \/ OfMigration
    \/ OfStreams
    \/ OfMessages
    \/ OfAdministration
    \/ OfProjects
    \/ OfBilling

ServicesSpec == ServicesInit /\ [][ServicesNext]_servicesVars

\* Every part keeps its types.
ServicesTypeOK ==
    /\ HealthTypeOK
    /\ SessionTypeOK
    /\ MigrationTypeOK
    /\ StreamTypeOK
    /\ MessagesTypeOK
    /\ AdminTypeOK
    /\ ProjectsTypeOK
    /\ BillingTypeOK
===============================================================================
