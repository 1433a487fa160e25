---------------------------- MODULE Registration ----------------------------
(***************************************************************************)
(* Registration of users (backend/routes/auth.py, backend/services/        *)
(* keycloak.py).  A worker of the backend asks Keycloak for an admin       *)
(* token, creates the account, and gives it the role "user" in further     *)
(* requests whose failure it swallows.  Requests may fail, or be given up  *)
(* and still be executed; and gunicorn kills a worker that is at it for    *)
(* too long, which the timeouts of five requests add up to.  Who is told   *)
(* of a failure may register again.                                        *)
(***************************************************************************)
EXTENDS Naturals, FiniteSets

CONSTANTS
    Workers,        \* workers of the backend, each serving one request
    Users,          \* usernames
    MaxAccidents    \* bound on requests that fail and workers that are killed

ASSUME AccidentsAssumption == MaxAccidents \in Nat

VARIABLES
    account,    \* account[u]: whether Keycloak has u, and with the role
    job,        \* job[w]: the registration worker w is at
    delayed,    \* requests that were given up and Keycloak has yet to execute
    accidents,
    hurt        \* history: users whose creation or role met with an accident

registration == <<account, job, delayed, accidents, hurt>>

NoJob == [at |-> "idle", user |-> "none", made |-> FALSE, gaveUp |-> FALSE]

Answered == {"created", "refused"}

RegistrationTypeOK ==
    /\ account \in [Users -> {"none", "roleless", "member"}]
    /\ job \in [Workers -> [at : {"idle", "token", "create", "roles", "assign"} \cup Answered,
                            user : Users \cup {"none"}, made : BOOLEAN, gaveUp : BOOLEAN]]
    /\ delayed \subseteq {"create", "assign"} \X Users
    /\ accidents \in 0..MaxAccidents /\ hurt \subseteq Users

RegistrationInit ==
    /\ account = [u \in Users |-> "none"]
    /\ job = [w \in Workers |-> NoJob]
    /\ delayed = {} /\ accidents = 0 /\ hurt = {}

Working(w, stage) == job[w].at = stage
GoOn(w, stage) == job' = [job EXCEPT ![w].at = stage]

\* What Keycloak makes of a request: it creates no name twice.
Executed(kind, u) ==
    account' = [account EXCEPT ![u] =
        CASE kind = "create" -> IF @ = "none" THEN "roleless" ELSE @
          [] kind = "assign" -> "member"]

Accident(w) ==
    /\ accidents < MaxAccidents
    /\ accidents' = accidents + 1
    /\ hurt' = IF Working(w, "token") THEN hurt ELSE hurt \cup {job[w].user}

\* A request that writes fails, or nobody waits for it any more: it is
\* executed, or never will be, or will be later.
Unheard(kind, u) ==
    \/ UNCHANGED <<account, delayed>>
    \/ Executed(kind, u) /\ UNCHANGED delayed
    \/ delayed' = delayed \cup {<<kind, u>>} /\ UNCHANGED account

Late(kind, u) ==
    /\ <<kind, u>> \in delayed
    /\ delayed' = delayed \ {<<kind, u>>}
    /\ Executed(kind, u)
    /\ UNCHANGED <<job, accidents, hurt>>

Register(w, u) ==
    /\ Working(w, "idle")
    /\ job' = [job EXCEPT ![w] = [NoJob EXCEPT !.at = "token", !.user = u]]
    /\ UNCHANGED <<account, delayed, accidents, hurt>>

\* _get_admin_token
Token(w) ==
    /\ Working(w, "token")
    /\ \/ GoOn(w, "create") /\ UNCHANGED <<accidents, hurt>>
       \/ Accident(w) /\ GoOn(w, "refused")
    /\ UNCHANGED <<account, delayed>>

\* Mutant of Created: the id of the account is not found in the Location.
CreatedUnnamed(w) ==
    /\ Working(w, "create") /\ account[job[w].user] = "none"
    /\ Executed("create", job[w].user)
    /\ job' = [job EXCEPT ![w].at = "created", ![w].made = TRUE]
    /\ UNCHANGED <<delayed, accidents, hurt>>

\* create_user: the account is there, under the id that Location gives.
Created(w) ==
    /\ Working(w, "create") /\ account[job[w].user] = "none"
    /\ Executed("create", job[w].user)
    /\ job' = [job EXCEPT ![w].at = "roles", ![w].made = TRUE]
    /\ UNCHANGED <<delayed, accidents, hurt>>

\* Mutant of NameTaken: the status is not raised, and a 409 has no Location.
NameTakenUnnoticed(w) ==
    /\ Working(w, "create") /\ account[job[w].user] # "none"
    /\ GoOn(w, "created")
    /\ UNCHANGED <<account, delayed, accidents, hurt>>

\* Keycloak answers 409, which raise_for_status turns into a refusal.
NameTaken(w) ==
    /\ Working(w, "create") /\ account[job[w].user] # "none"
    /\ GoOn(w, "refused")
    /\ UNCHANGED <<account, delayed, accidents, hurt>>

\* The POST fails or is given up, and the registration is refused.
CreateFails(w) ==
    /\ Working(w, "create")
    /\ Accident(w) /\ Unheard("create", job[w].user)
    /\ job' = [job EXCEPT ![w].at = "refused", ![w].gaveUp = TRUE,
                          ![w].made = account'[job[w].user] # account[job[w].user]]

\* assign_role: another admin token and the list of roles.
Roles(w) ==
    /\ Working(w, "roles")
    /\ \/ GoOn(w, "assign") /\ UNCHANGED <<accidents, hurt>>
       \/ Accident(w) /\ GoOn(w, "created")
    /\ UNCHANGED <<account, delayed>>

Assign(w) ==
    /\ Working(w, "assign")
    /\ Executed("assign", job[w].user)
    /\ GoOn(w, "created")
    /\ UNCHANGED <<delayed, accidents, hurt>>

\* Mutant of AssignFails: the failure is raised.
AssignFailsRaised(w) ==
    /\ Working(w, "assign")
    /\ Accident(w) /\ Unheard("assign", job[w].user)
    /\ GoOn(w, "refused")

\* The failure is swallowed.
AssignFails(w) ==
    /\ Working(w, "assign")
    /\ Accident(w) /\ Unheard("assign", job[w].user)
    /\ GoOn(w, "created")

\* register answers 201 or 400.
Reply(w) ==
    /\ job[w].at \in Answered
    /\ job' = [job EXCEPT ![w] = NoJob]
    /\ UNCHANGED <<account, delayed, accidents, hurt>>

\* The worker is killed, with a request on its way or not.
Killed(w) ==
    /\ job[w].at \notin Answered \cup {"idle"}
    /\ Accident(w)
    /\ IF job[w].at \in {"create", "assign"} THEN Unheard(job[w].at, job[w].user)
       ELSE UNCHANGED <<account, delayed>>
    /\ job' = [job EXCEPT ![w] = NoJob]

RegistrationNext ==
    \/ \E w \in Workers, u \in Users : Register(w, u)
    \/ \E w \in Workers :
        \/ Token(w) \/ Created(w) \/ NameTaken(w) \/ CreateFails(w)
        \/ Roles(w) \/ Assign(w) \/ AssignFails(w) \/ Reply(w) \/ Killed(w)
    \/ \E kind \in {"create", "assign"}, u \in Users : Late(kind, u)

RegistrationSpec == RegistrationInit /\ [][RegistrationNext]_registration

-----------------------------------------------------------------------------
\* Who is told the account was created is the one who created it, although
\* others register the name at the same time or again; who is refused has left
\* no account behind that would refuse the next try, unless the request that
\* creates it was given up: a failed role assignment refuses nobody (register,
\* create_user).
AnswersTruthful ==
    \A w \in Workers :
        /\ Working(w, "created") => job[w].made
        /\ Working(w, "refused") => ~job[w].made \/ job[w].gaveUp

\* An account lacks the role for good only if an accident happened while it was
\* created or given the role: never because two registrations of the name were
\* under way at once (create_user, assign_role).
RolelessExplained ==
    \A u \in Users :
        account[u] = "roleless" =>
            \/ u \in hurt
            \/ \E w \in Workers : job[w].user = u /\ job[w].at \in {"roles", "assign"}
=============================================================================
