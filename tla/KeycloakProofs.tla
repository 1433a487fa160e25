--------------------------- MODULE KeycloakProofs ---------------------------
(***************************************************************************)
(* The two programs that write to Keycloak.                                *)
(*                                                                         *)
(* Whose key a token of the proxy can be bound to, for any number of       *)
(* threads, clients and failures: whatever can still be written to the     *)
(* mapper while a call runs is among the keys it met, and from its own PUT *)
(* on so is what the mapper holds.                                         *)
(*                                                                         *)
(* That the registration of the backend tells the truth and leaves no      *)
(* account without its role but by an accident, for any number of workers, *)
(* users and accidents.                                                    *)
(***************************************************************************)
EXTENDS TokenProxy, Registration, TLAPS

-----------------------------------------------------------------------------
(* The token proxy.                                                        *)

\* A call has met every call and every leftover PUT it runs beside.
AllMet ==
    \A t \in Active : /\ \A u \in Active : call[u].key \in overlap[t]
                      /\ LateKeys \subseteq overlap[t]

\* Once its own PUT is done, the mapper holds a key the call has met.
MapperMet == \A t \in Threads : call[t].pc = "ask" => mapper \in overlap[t]

IInv == TypeOK /\ AllMet /\ MapperMet /\ TokenExplained

-----------------------------------------------------------------------------
\* A call in progress has a key and a proof (Send).
LEMMA ActiveCall ==
    ASSUME TypeOK, NEW t \in Threads, call[t].pc # "idle"
    PROVE  /\ call[t] \in CallType \ {NoCall}
           /\ call[t].key \in Keys
  BY DEF TypeOK, CallType, NoCall

\* A step that moves t on, and touches no PUT: what the call knows stays.
LEMMA MovesOn ==
    ASSUME TypeOK, NEW t \in Threads, call[t].pc # "idle",
           NEW pc \in {"read", "put", "ask"}, Go(t, pc)
    PROVE  /\ call' \in [Threads -> CallType]
           /\ Active' = Active
           /\ \A u \in Active : call'[u].key = call[u].key
           /\ call'[t].pc = pc
           /\ \A u \in Threads \ {t} : call'[u] = call[u]
<1>1. call[t] \in CallType \ {NoCall}
  BY ActiveCall
<1>2. call' \in [Threads -> CallType] /\ call'[t].pc = pc /\ call'[t].key = call[t].key
  BY <1>1 DEF TypeOK, CallType, NoCall, Go
<1>3. \A u \in Threads \ {t} : call'[u] = call[u]
  BY DEF TypeOK, Go
<1> QED
  BY <1>2, <1>3 DEF Active

\* A call that ends leaves the others as they are.
LEMMA Ends ==
    ASSUME TypeOK, NEW t \in Threads, End(t)
    PROVE  /\ call' \in [Threads -> CallType]
           /\ Active' = Active \ {t}
           /\ call'[t].pc = "idle"
           /\ \A u \in Threads \ {t} : call'[u] = call[u]
<1>1. call' \in [Threads -> CallType] /\ call'[t] = NoCall
  BY DEF TypeOK, End, CallType
<1>2. \A u \in Threads \ {t} : call'[u] = call[u]
  BY DEF TypeOK, End
<1> QED
  BY <1>1, <1>2 DEF Active, NoCall

\* The invariant survives the end of a call, if only the mapper changes, and to
\* that call's key, or only its PUT is left over.
LEMMA EndKeeps ==
    ASSUME IInv, NEW t \in Active, End(t), UNCHANGED overlap,
           LateKeys' \subseteq LateKeys \cup {call[t].key},
           mapper' \in {mapper, call[t].key}
    PROVE  AllMet' /\ MapperMet' /\ TokenExplained'
<1> USE DEF IInv
<1>1. t \in Threads /\ call[t].pc # "idle"
  BY DEF Active
<1>2. /\ Active' = Active \ {t}
      /\ call'[t].pc = "idle"
      /\ \A u \in Threads \ {t} : call'[u] = call[u]
  BY <1>1, Ends
<1>3. \A u \in Active : call[t].key \in overlap[u] /\ LateKeys \subseteq overlap[u]
  BY DEF AllMet
<1>4. AllMet'
  <2> SUFFICES ASSUME NEW u \in Active'
               PROVE  /\ \A v \in Active' : call'[v].key \in overlap[u]
                      /\ LateKeys' \subseteq overlap[u]
    BY DEF AllMet
  <2>1. u \in Active
    BY <1>2
  <2>2. LateKeys' \subseteq overlap[u]
    BY <2>1, <1>3
  <2>3. \A v \in Active' : call'[v].key \in overlap[u]
    BY <2>1, <1>2 DEF AllMet, Active
  <2> QED
    BY <2>2, <2>3
<1>5. MapperMet'
  <2> SUFFICES ASSUME NEW u \in Threads, call'[u].pc = "ask"
               PROVE  mapper' \in overlap[u]
    BY DEF MapperMet
  <2>1. u # t /\ call'[u] = call[u] /\ u \in Active
    BY <1>2 DEF Active
  <2> QED
    BY <2>1, <1>3 DEF MapperMet
<1>6. TokenExplained'
  BY <1>2 DEF TokenExplained
<1> QED
  BY <1>4, <1>5, <1>6

-----------------------------------------------------------------------------
LEMMA InitIInv == Init => IInv
  BY FaultsAssumption
     DEF Init, IInv, TypeOK, CallType, NoCall, AllMet, MapperMet, TokenExplained, Active

\* Every step keeps the invariant.
LEMMA NextIInv == IInv /\ [Next]_vars => IInv'
<1> SUFFICES ASSUME IInv, [Next]_vars
             PROVE  IInv'
  OBVIOUS
<1> USE DEF IInv
<1>1. ASSUME NEW t \in Threads, NEW k \in Keys, NEW proof \in {"good", "bad"}, Send(t, k, proof)
      PROVE  IInv'
  <2>1. /\ call'[t].pc = "received" /\ call'[t].key = k
        /\ call' \in [Threads -> CallType]
        /\ \A u \in Threads \ {t} : call'[u] = call[u]
    BY <1>1, NoKeyAssumption DEF Send, TypeOK, CallType
  <2>2. Active' = Active \cup {t} /\ t \notin Active
    BY <2>1, <1>1 DEF Active, Send
  <2>3. LateKeys' = LateKeys /\ LateKeys \subseteq Keys
    BY <1>1 DEF Send, LateKeys
  <2>4. \A v \in Active : call[v].key \in Keys
    BY ActiveCall DEF Active
  <2>5. overlap' \in [Threads -> SUBSET Keys]
    BY <1>1, <2>3, <2>4 DEF Send, TypeOK
  <2>6. overlap'[t] = {k} \cup {call[v].key : v \in Active} \cup LateKeys
    BY <1>1 DEF Send
  <2>7. \A u \in Active : overlap'[u] = overlap[u] \cup {k}
    BY <1>1, <2>2 DEF Send, Active
  <2>8. TypeOK'
    BY <1>1, <2>1, <2>5 DEF Send, TypeOK
  <2>9. AllMet'
    <3> SUFFICES ASSUME NEW u \in Active'
                 PROVE  /\ \A v \in Active' : call'[v].key \in overlap'[u]
                        /\ LateKeys \subseteq overlap'[u]
      BY <2>3 DEF AllMet
    <3>1. CASE u = t
      BY <3>1, <2>1, <2>2, <2>6 DEF Active
    <3>2. CASE u \in Active
      BY <3>2, <2>1, <2>2, <2>7 DEF AllMet, Active
    <3> QED
      BY <3>1, <3>2, <2>2
  <2>10. MapperMet' /\ TokenExplained'
    <3> SUFFICES ASSUME NEW u \in Threads
                 PROVE  /\ call'[u].pc = "ask" => mapper \in overlap'[u]
                        /\ call'[u].pc = "answer" => call'[u].token \in overlap'[u]
      BY <1>1 DEF MapperMet, TokenExplained, Send
    <3>1. CASE u = t
      BY <3>1, <2>1
    <3>2. CASE u # t
      BY <3>2, <2>1, <2>7 DEF MapperMet, TokenExplained, Active
    <3> QED
      BY <3>1, <3>2
  <2> QED
    BY <2>8, <2>9, <2>10
<1>2. ASSUME NEW t \in Threads, Validate(t) \/ Read(t) \/ Put(t)
      PROVE  IInv'
  <2>1. t \in Active /\ call[t].pc # "idle"
    BY <1>2 DEF Validate, Read, Put, Active
  <2>2. UNCHANGED <<late, bound, faults, overlap>> /\ LateKeys' = LateKeys
    BY <1>2 DEF Validate, Read, Put, LateKeys
  <2>3. mapper' \in {mapper, call[t].key} /\ mapper' \in Keys \cup {InitialKey}
    BY <1>2, <2>1, ActiveCall DEF Validate, Read, Put, TypeOK
  <2>4. CASE End(t)
    <3>1. TypeOK'
      BY <2>2, <2>3, <2>4, Ends DEF TypeOK
    <3> QED
      BY <3>1, <2>1, <2>2, <2>3, <2>4, EndKeeps
  <2>5. CASE ~End(t)
    <3>1. PICK pc \in {"read", "put", "ask"} :
            Go(t, pc) /\ (pc = "ask" => mapper' = call[t].key)
      BY <1>2, <2>5 DEF Validate, Read, Put
    <3>2. /\ call' \in [Threads -> CallType]
          /\ Active' = Active
          /\ \A u \in Active : call'[u].key = call[u].key
          /\ call'[t].pc = pc
          /\ \A u \in Threads \ {t} : call'[u] = call[u]
      BY <2>1, <3>1, MovesOn
    <3>3. TypeOK'
      BY <3>2, <2>2, <2>3 DEF TypeOK
    <3>4. AllMet'
      BY <3>2, <2>2 DEF AllMet
    <3>5. MapperMet'
      <4> SUFFICES ASSUME NEW u \in Threads, call'[u].pc = "ask"
                   PROVE  mapper' \in overlap[u]
        BY <2>2 DEF MapperMet
      <4>1. u \in Active /\ call[t].key \in overlap[u]
        BY <2>1, <3>2 DEF Active, AllMet
      <4> QED
        BY <4>1, <2>3, <3>1, <3>2 DEF MapperMet
    <3>6. TokenExplained'
      BY <3>2, <2>2 DEF TokenExplained
    <3> QED
      BY <3>3, <3>4, <3>5, <3>6
  <2> QED
    BY <2>4, <2>5
<1>3. ASSUME NEW t \in Threads, ReadFails(t) \/ PutFails(t) \/ AskFails(t) \/ Answer(t)
      PROVE  IInv'
  <2>1. t \in Active /\ End(t) /\ call[t].pc # "idle"
    BY <1>3 DEF ReadFails, PutFails, AskFails, Answer, Active
  <2>2. UNCHANGED overlap /\ mapper' \in {mapper, call[t].key}
    BY <1>3 DEF ReadFails, PutFails, AskFails, Answer
  <2>3. call[t].key \in Keys
    BY <2>1, ActiveCall DEF Active
  <2>4. /\ faults' \in 0..MaxFaults
        /\ faults' >= faults
        /\ bound' \in SUBSET Keys
    BY <1>3, <2>3, FaultsAssumption DEF ReadFails, PutFails, AskFails, Answer, Fault, TypeOK
  <2>5. late' \in [Keys -> Nat] /\ LateKeys' \subseteq LateKeys \cup {call[t].key}
    BY <1>3, <2>3 DEF ReadFails, PutFails, AskFails, Answer, LateKeys, TypeOK
  <2>6. mapper' \in Keys \cup {InitialKey}
    BY <2>2, <2>3 DEF TypeOK
  <2>7. TypeOK'
    BY <2>1, <2>2, <2>4, <2>5, <2>6, Ends DEF TypeOK, Active
  <2> QED
    BY <2>1, <2>2, <2>5, <2>7, EndKeeps
<1>4. ASSUME NEW t \in Threads, Issue(t)
      PROVE  IInv'
  <2>1. call[t].pc = "ask" /\ call[t] \in CallType \ {NoCall}
    BY <1>4, ActiveCall DEF Issue
  <2>2. /\ call' \in [Threads -> CallType]
        /\ call'[t].pc = "answer" /\ call'[t].token = mapper /\ call'[t].key = call[t].key
    BY <1>4, <2>1 DEF Issue, TypeOK, CallType, NoCall
  <2>3. \A u \in Threads \ {t} : call'[u] = call[u]
    BY <1>4 DEF Issue, TypeOK
  <2>4. Active' = Active /\ LateKeys' = LateKeys /\ UNCHANGED <<mapper, overlap>>
    BY <1>4, <2>1, <2>2, <2>3 DEF Issue, Active, LateKeys
  <2>5. TypeOK'
    BY <1>4, <2>2 DEF Issue, TypeOK
  <2>6. AllMet'
    BY <2>2, <2>3, <2>4 DEF AllMet, Active
  <2>7. MapperMet'
    BY <2>2, <2>3, <2>4 DEF MapperMet
  <2>8. TokenExplained'
    BY <2>1, <2>2, <2>3, <2>4 DEF TokenExplained, MapperMet
  <2> QED
    BY <2>5, <2>6, <2>7, <2>8
<1>5. ASSUME NEW k \in Keys, LatePut(k)
      PROVE  IInv'
  <2>1. k \in LateKeys /\ LateKeys' \subseteq LateKeys /\ late' \in [Keys -> Nat]
    BY <1>5 DEF LatePut, LateKeys, TypeOK
  <2>2. mapper' = k /\ UNCHANGED <<call, bound, faults, overlap>>
    BY <1>5 DEF LatePut
  <2>3. TypeOK' /\ TokenExplained'
    BY <2>1, <2>2 DEF TypeOK, TokenExplained
  <2>4. Active' = Active
    BY <2>2 DEF Active
  <2>5. AllMet'
    BY <2>1, <2>2, <2>4 DEF AllMet
  <2>6. MapperMet'
    BY <2>1, <2>2 DEF MapperMet, AllMet, Active
  <2> QED
    BY <2>3, <2>5, <2>6
<1>6. ASSUME NEW k \in Keys, Expire(k)
      PROVE  IInv'
  BY <1>6 DEF Expire, TypeOK, AllMet, MapperMet, TokenExplained, Active, LateKeys
<1>7. CASE UNCHANGED vars
  BY <1>7 DEF vars, TypeOK, AllMet, MapperMet, TokenExplained, Active, LateKeys
<1> QED
  BY <1>1, <1>2, <1>3, <1>4, <1>5, <1>6, <1>7 DEF Next, Step

\* The invariant holds of every behaviour of the proxy.
THEOREM Inductive == Spec => []IInv
  BY InitIInv, NextIInv, PTL DEF Spec

\* The type invariant: token, update_keycloak_dpop_jkt and Keycloak's mapper.
THEOREM TypeCorrect == Spec => []TypeOK
  BY Inductive, PTL DEF IInv

\* A token is bound to the key of a call, or of a PUT given up, that its own call
\* ran beside: the mapper is written before the token is asked for, and a call
\* whose PUT failed asks for none (token, update_keycloak_dpop_jkt).
THEOREM TokensExplained == Spec => []TokenExplained
  BY Inductive, PTL DEF IInv

-----------------------------------------------------------------------------
(* The registration of the backend.                                        *)

Stages == {"idle", "token", "create", "roles", "assign"} \cup Answered
JobType == [at : Stages, user : Users \cup {"none"}, made : BOOLEAN, gaveUp : BOOLEAN]

\* The part of the type that the proofs need.
Typed ==
    /\ account \in [Users -> {"none", "roleless", "member"}]
    /\ job \in [Workers -> JobType]
    /\ hurt \subseteq Users
    /\ delayed \subseteq {"create", "assign"} \X Users

\* A worker at a registration has the name of a user.
Named == \A w \in Workers : job[w].at # "idle" => job[w].user \in Users

\* Where a registration is tells whether it has made its account.
MadeInOrder ==
    \A w \in Workers :
        /\ job[w].at \in {"token", "create"} => ~job[w].made
        /\ job[w].at \in {"roles", "assign", "created"} => job[w].made
        /\ job[w].at = "refused" => ~job[w].made \/ job[w].gaveUp

\* A request that creates an account was put off by an accident to its user.
DelayedHurts == \A u \in Users : <<"create", u>> \in delayed => u \in hurt

RegIInv == Typed /\ Named /\ MadeInOrder /\ DelayedHurts /\ RolelessExplained

-----------------------------------------------------------------------------
\* What Keycloak executes keeps the type of the accounts, and makes none of
\* them lose its role.
LEMMA ExecutedTyped ==
    ASSUME account \in [Users -> {"none", "roleless", "member"}],
           NEW kind \in {"create", "assign"}, NEW u \in Users, Executed(kind, u)
    PROVE  /\ account' \in [Users -> {"none", "roleless", "member"}]
           /\ \A x \in Users : x # u => account'[x] = account[x]
           /\ account'[u] = "roleless" => kind = "create" /\ account[u] \in {"none", "roleless"}
  BY DEF Executed

\* Whether it is executed or not, a request that is given up does no more than
\* that, and only one that is given up is delayed.
LEMMA UnheardTyped ==
    ASSUME account \in [Users -> {"none", "roleless", "member"}],
           delayed \subseteq {"create", "assign"} \X Users,
           NEW kind \in {"create", "assign"}, NEW u \in Users, Unheard(kind, u)
    PROVE  /\ account' \in [Users -> {"none", "roleless", "member"}]
           /\ \A x \in Users : x # u => account'[x] = account[x]
           /\ delayed' \subseteq delayed \cup {<<kind, u>>}
  BY ExecutedTyped DEF Unheard

\* The invariant holds at the start.
LEMMA RegistrationInitIInv == RegistrationInit => RegIInv
  BY DEF RegistrationInit, RegIInv, Typed, Named, MadeInOrder, DelayedHurts, RolelessExplained,
         NoJob, JobType, Stages, Answered

\* Every step keeps it.
LEMMA RegistrationNextIInv == RegIInv /\ [RegistrationNext]_registration => RegIInv'
<1> SUFFICES ASSUME RegIInv, [RegistrationNext]_registration PROVE RegIInv'
  OBVIOUS
<1> USE DEF RegIInv, Typed, Named, MadeInOrder, DelayedHurts, RolelessExplained,
            JobType, Stages, Answered
<1>1. ASSUME NEW w \in Workers, NEW u \in Users, Register(w, u) PROVE RegIInv'
  <2> DEFINE new == [NoJob EXCEPT !.at = "token", !.user = u]
  <2>1. NoJob \in JobType /\ NoJob.made = FALSE
    BY DEF NoJob
  <2>2. new \in JobType /\ new.at = "token" /\ new.user = u /\ new.made = FALSE
    BY <2>1
  <2>3. /\ job[w].at = "idle" /\ job' = [job EXCEPT ![w] = new]
        /\ UNCHANGED <<account, delayed, hurt>>
    BY <1>1 DEF Register, Working
  <2> HIDE DEF new
  <2> QED BY <2>2, <2>3
<1>2. ASSUME NEW w \in Workers, Token(w) PROVE RegIInv'
  BY <1>2 DEF Token, Working, GoOn, Accident
<1>3. ASSUME NEW w \in Workers, Created(w) PROVE RegIInv'
  BY <1>3 DEF Created, Working, Executed
<1>4. ASSUME NEW w \in Workers, NameTaken(w) PROVE RegIInv'
  BY <1>4 DEF NameTaken, Working, GoOn
<1>5. ASSUME NEW w \in Workers, CreateFails(w) PROVE RegIInv'
  <2> DEFINE u == job[w].user
  <2>1. /\ u \in Users /\ hurt' = hurt \cup {u} /\ Unheard("create", u)
        /\ job[w].at = "create"
    BY <1>5 DEF CreateFails, Working, Accident
  <2>2. /\ account' \in [Users -> {"none", "roleless", "member"}]
        /\ \A x \in Users : x # u => account'[x] = account[x]
        /\ delayed' \subseteq delayed \cup {<<"create", u>>}
    BY <2>1, UnheardTyped
  <2>3. job' = [job EXCEPT ![w].at = "refused", ![w].gaveUp = TRUE,
                           ![w].made = account'[u] # account[u]]
    BY <1>5 DEF CreateFails
  <2>4. Typed'
    <3>1. /\ job' \in [Workers -> JobType]
          /\ hurt' \subseteq Users
      <4>1. JobType # {} /\ job[w] \in JobType OBVIOUS
      <4>2. [job[w] EXCEPT !.at = "refused", !.gaveUp = TRUE,
                           !.made = account'[u] # account[u]] \in JobType
        BY <4>1
      <4>3. job' = [job EXCEPT ![w] = [job[w] EXCEPT !.at = "refused", !.gaveUp = TRUE,
                                          !.made = account'[u] # account[u]]]
        BY <2>3
      <4> QED BY <2>1, <4>2, <4>3
    <3> QED BY <2>1, <2>2, <3>1
  <2>5. Named' BY <2>1, <2>3
  <2>6. MadeInOrder' BY <2>1, <2>3
  <2>7. DelayedHurts' BY <2>1, <2>2
  <2>8. RolelessExplained' BY <2>1, <2>2, <2>3
  <2> QED BY <2>4, <2>5, <2>6, <2>7, <2>8
<1>6. ASSUME NEW w \in Workers, Roles(w) PROVE RegIInv'
  BY <1>6 DEF Roles, Working, GoOn, Accident
<1>7. ASSUME NEW w \in Workers, Assign(w) PROVE RegIInv'
  BY <1>7 DEF Assign, Working, GoOn, Executed
<1>8. ASSUME NEW w \in Workers, AssignFails(w) PROVE RegIInv'
  <2> DEFINE u == job[w].user
  <2>1. u \in Users /\ hurt' = hurt \cup {u} /\ Unheard("assign", u) /\ job[w].at = "assign"
    BY <1>8 DEF AssignFails, Working, Accident
  <2>2. /\ account' \in [Users -> {"none", "roleless", "member"}]
        /\ \A x \in Users : x # u => account'[x] = account[x]
        /\ delayed' \subseteq delayed \cup {<<"assign", u>>}
    BY <2>1, UnheardTyped
  <2>3. job' = [job EXCEPT ![w].at = "created"]
    BY <1>8 DEF AssignFails, GoOn
  <2> QED BY <2>1, <2>2, <2>3
<1>9. ASSUME NEW w \in Workers, Reply(w) PROVE RegIInv'
  BY <1>9 DEF Reply, NoJob
<1>10. ASSUME NEW w \in Workers, Killed(w) PROVE RegIInv'
  <2> DEFINE u == job[w].user
             kind == job[w].at
  <2>1. /\ u \in Users /\ kind \in {"token", "create", "roles", "assign"}
        /\ hurt' = IF kind = "token" THEN hurt ELSE hurt \cup {u}
        /\ job' = [job EXCEPT ![w] = NoJob]
    BY <1>10 DEF Killed, Accident, Working
  <2>2. CASE kind \in {"create", "assign"}
    <3>1. Unheard(kind, u) BY <1>10, <2>2 DEF Killed
    <3>2. /\ account' \in [Users -> {"none", "roleless", "member"}]
          /\ \A x \in Users : x # u => account'[x] = account[x]
          /\ delayed' \subseteq delayed \cup {<<kind, u>>}
      BY <2>1, <2>2, <3>1, UnheardTyped
    <3> QED BY <2>1, <2>2, <3>2 DEF NoJob
  <2>3. CASE kind \notin {"create", "assign"}
    <3>1. UNCHANGED <<account, delayed>> BY <1>10, <2>3 DEF Killed
    <3> QED BY <2>1, <2>3, <3>1 DEF NoJob
  <2> QED BY <2>2, <2>3
<1>11. ASSUME NEW kind \in {"create", "assign"}, NEW u \in Users, Late(kind, u) PROVE RegIInv'
  <2>1. /\ <<kind, u>> \in delayed /\ delayed' = delayed \ {<<kind, u>>}
        /\ Executed(kind, u) /\ UNCHANGED <<job, hurt>>
    BY <1>11 DEF Late
  <2>2. /\ account' \in [Users -> {"none", "roleless", "member"}]
        /\ \A x \in Users : x # u => account'[x] = account[x]
        /\ account'[u] = "roleless" => kind = "create"
    BY <2>1, ExecutedTyped
  <2> QED BY <2>1, <2>2
<1>12. CASE UNCHANGED registration
  BY <1>12 DEF registration
<1> QED
  BY <1>1, <1>2, <1>3, <1>4, <1>5, <1>6, <1>7, <1>8, <1>9, <1>10, <1>11, <1>12
  DEF RegistrationNext

\* The invariant holds throughout.
THEOREM RegistrationInductive == RegistrationSpec => []RegIInv
  BY RegistrationInitIInv, RegistrationNextIInv, PTL DEF RegistrationSpec

\* Who is told of a creation made it, and who is refused left nothing behind,
\* unless the request was given up (register, create_user).
THEOREM AnswersAreTrue == RegistrationSpec => []AnswersTruthful
<1>1. RegIInv => AnswersTruthful
  BY DEF RegIInv, MadeInOrder, AnswersTruthful, Working
<1> QED BY <1>1, RegistrationInductive, PTL

\* An account is left without the role only by an accident (create_user,
\* assign_role).
THEOREM RolelessByAccident == RegistrationSpec => []RolelessExplained
<1>1. RegIInv => RolelessExplained
  BY DEF RegIInv
<1> QED BY <1>1, RegistrationInductive, PTL
=============================================================================
