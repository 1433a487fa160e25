-------------------------- MODULE AuthzCheckProofs --------------------------
(***************************************************************************)
(* A DPoP proof gets a request through at most once, for every number of   *)
(* concurrent calls and every setting with                                 *)
(* ProofTTL >= MaxAge + Skew + MaxDelay.  A spent proof stays in the cache *)
(* while a call that found it fresh may still be about to mark it: the     *)
(* entry is no older than iat - Skew, the marking no later than            *)
(* iat + MaxAge + MaxDelay.  Then of the nonces and the tokens, and that   *)
(* both caches keep inside the pipeline what they promise by themselves.   *)
(***************************************************************************)
EXTENDS AuthzCheck, FiniteSetTheorems, TLAPS

\* Calls between the validation of their proof and its marking.
Marking(t) == At(t, "rotate") \/ At(t, "stamp") \/ At(t, "mark")

\* Such a call found its proof fresh, at most MaxDelay ago, and marks it with
\* a time between its validation and now.
MarkingIsTimely ==
    \A t \in Threads : Marking(t) =>
        /\ call[t].proof \in Proofs
        /\ signed[call[t].proof] # NoProof
        /\ Fresh(signed[call[t].proof].iat, call[t].checked)
        /\ call[t].checked <= clock
        /\ clock - call[t].checked <= MaxDelay
        /\ At(t, "mark") => call[t].checked <= call[t].stamp /\ call[t].stamp <= clock

\* The last moment at which a proof may be marked.
Deadline(p) == signed[p].iat + MaxAge + MaxDelay

\* The cache remembers a spent proof until that moment.
SpentRemembered ==
    \A p \in spentProofs :
        /\ signed[p] # NoProof
        /\ \/ clock > Deadline(p)
           \/ /\ proofItems[p] # proofStore!Absent
              /\ proofItems[p] >= signed[p].iat - Skew

IInv == TypeOK /\ MarkingIsTimely /\ SpentRemembered

\* What neither the validation nor the proof cache touches.
ProofState == <<clock, signed, proofItems, spentProofs>>

-----------------------------------------------------------------------------
\* purgeExpired on the proof cache: the type is kept, and an entry disappears
\* only when it is older than ProofTTL.
LEMMA ProofPurge ==
    ASSUME proofStore!StoreTypeOK, NEW n \in Nat
    PROVE  /\ proofStore!Purged(n) \in [Proofs -> Nat \cup {proofStore!Absent}]
           /\ proofStore!PurgeTime(n) \in Nat
           /\ \A p \in Proofs :
                \/ proofStore!Purged(n)[p] = proofItems[p]
                \/ /\ proofStore!Purged(n)[p] = proofStore!Absent
                   /\ proofItems[p] < n - ProofTTL
  BY StoreAssumption
     DEF proofStore!StoreTypeOK, proofStore!Purged, proofStore!PurgeTime,
         proofStore!PurgeDue, proofStore!Absent

\* The same of the token cache; only its type matters here.
LEMMA TokenPurge ==
    ASSUME tokenStore!StoreTypeOK, NEW n \in Nat
    PROVE  /\ tokenStore!Purged(n) \in [Tokens -> Nat \cup {tokenStore!Absent}]
           /\ tokenStore!PurgeTime(n) \in Nat
  BY StoreAssumption
     DEF tokenStore!StoreTypeOK, tokenStore!Purged, tokenStore!PurgeTime,
         tokenStore!PurgeDue, tokenStore!Absent

\* Recording a proof: its entry is the time given, every other entry is as the
\* purge left it or a victim's (markIfNewInMemory).
LEMMA ProofRecorded ==
    ASSUME proofStore!StoreTypeOK, NEW n \in Nat, NEW p \in Proofs,
           proofStore!RecordNew(p, n)
    PROVE  /\ proofStore!StoreTypeOK'
           /\ proofStore!Purged(n)[p] = proofStore!Absent
           /\ proofItems'[p] = n
           /\ \A q \in Proofs \ {p} :
                \/ proofItems'[q] = proofStore!Purged(n)[q]
                \/ q \in proofStore!Victims(n)
<1>1. proofStore!Purged(n)[p] = proofStore!Absent
  BY DEF proofStore!RecordNew, proofStore!Present
<1>2. CASE proofItems' = [proofStore!Purged(n) EXCEPT ![p] = n]
  BY <1>1, <1>2, ProofPurge DEF proofStore!RecordNew, proofStore!StoreTypeOK
<1>3. ASSUME NEW v \in proofStore!Oldest(proofStore!Purged(n)),
             proofItems' = [proofStore!Purged(n) EXCEPT ![v] = proofStore!Absent, ![p] = n]
      PROVE  /\ proofStore!StoreTypeOK'
             /\ proofItems'[p] = n
             /\ \A q \in Proofs \ {p} :
                  \/ proofItems'[q] = proofStore!Purged(n)[q]
                  \/ q \in proofStore!Victims(n)
  <2>1. v \in Proofs /\ proofStore!Purged(n)[v] # proofStore!Absent /\ v # p
    BY <1>1, <1>3 DEF proofStore!Oldest, proofStore!Present
  <2>2. proofStore!Absent = -1
    BY DEF proofStore!Absent
  <2>3. proofItems' \in [Proofs -> Nat \cup {proofStore!Absent}] /\ proofLast' \in Nat
    BY <1>3, ProofPurge DEF proofStore!RecordNew
  <2>4. v \in proofStore!Victims(n)
    BY <1>3, <2>1, ProofPurge DEF proofStore!Victims, proofStore!Present
  <2> QED
    BY <1>3, <2>1, <2>3, <2>4, ProofPurge DEF proofStore!StoreTypeOK
<1> QED
  BY <1>1, <1>2, <1>3 DEF proofStore!RecordNew

LEMMA TokenRecorded ==
    ASSUME tokenStore!StoreTypeOK, NEW n \in Nat, NEW k, tokenStore!RecordNew(k, n)
    PROVE  tokenStore!StoreTypeOK'
  BY TokenPurge DEF tokenStore!RecordNew, tokenStore!StoreTypeOK, tokenStore!Absent

-----------------------------------------------------------------------------
LEMMA InitIInv == Init => IInv
  BY StoreAssumption, TokenAssumption, TimeAssumption
     DEF Init, IInv, TypeOK, NoNonce, MarkingIsTimely, Marking, At, SpentRemembered,
         proofStore!StoreInit, proofStore!StoreTypeOK, proofStore!Absent,
         tokenStore!StoreInit, tokenStore!StoreTypeOK, tokenStore!Absent

\* A running call has the type of a call.
LEMMA CallTyped ==
    ASSUME TypeOK, NEW t \in Threads, call[t] # NoCall
    PROVE  call[t] \in Calls
  BY DEF TypeOK

\* A step that leaves the proof state alone and takes no call into the marking
\* phase keeps the invariant, if it keeps the types.
LEMMA QuietStep ==
    ASSUME IInv, TypeOK', UNCHANGED ProofState, NEW t \in Threads,
           \A u \in Threads \ {t} : call'[u] = call[u],
           Marking(t)' => /\ Marking(t)
                          /\ call'[t].proof = call[t].proof
                          /\ call'[t].checked = call[t].checked
                          /\ At(t, "mark")' => call'[t].stamp = clock
    PROVE  IInv'
<1>1. SpentRemembered'
  BY DEF IInv, ProofState, SpentRemembered, Deadline
<1>2. MarkingIsTimely'
  <2> SUFFICES ASSUME NEW u \in Threads, Marking(u)'
               PROVE  /\ call'[u].proof \in Proofs
                      /\ signed[call'[u].proof] # NoProof
                      /\ Fresh(signed[call'[u].proof].iat, call'[u].checked)
                      /\ call'[u].checked <= clock
                      /\ clock - call'[u].checked <= MaxDelay
                      /\ At(u, "mark")' => /\ call'[u].checked <= call'[u].stamp
                                           /\ call'[u].stamp <= clock
    BY DEF MarkingIsTimely, ProofState, Fresh
  <2>1. CASE u = t
    BY <2>1, TimeAssumption DEF IInv, MarkingIsTimely, TypeOK
  <2>2. CASE u # t
    BY <2>2 DEF IInv, MarkingIsTimely, Marking, At
  <2> QED
    BY <2>1, <2>2
<1> QED
  BY <1>1, <1>2 DEF IInv

\* Steps that only move a call on, or end it.
LEMMA MoveStep ==
    ASSUME IInv, NEW t \in Threads, call[t] # NoCall, NEW s \in Steps,
           s \notin {"rotate", "stamp", "mark"},
           Goto(t, s),
           UNCHANGED <<clock, signed, nonces, disclosed, proofCache, tokenCache,
                       spentProofs, answered, forgotten, uses>>
    PROVE  IInv'
<1>1. call[t] \in Calls
  BY CallTyped DEF IInv
<1>2. call' = [call EXCEPT ![t] = [call[t] EXCEPT !.pc = s]] /\ call'[t] \in Calls
  BY <1>1 DEF IInv, TypeOK, Goto, Calls
<1>3. TypeOK'
  BY <1>2 DEF IInv, TypeOK, nonces, proofCache, tokenCache,
              proofStore!StoreTypeOK, tokenStore!StoreTypeOK
<1>4. ~Marking(t)'
  BY <1>1, <1>2 DEF Marking, At, IInv, TypeOK, Calls
<1> QED
  BY <1>2, <1>3, <1>4, QuietStep DEF ProofState, proofCache, IInv, TypeOK

LEMMA EndStep ==
    ASSUME IInv, NEW t \in Threads, Done(t), TypeOK', UNCHANGED ProofState
    PROVE  IInv'
<1>1. ~Marking(t)'
  BY DEF Marking, At, Done, IInv, TypeOK
<1> QED
  BY <1>1, QuietStep DEF Done, IInv, TypeOK

LEMMA SignIInv == ASSUME IInv, NEW p \in Proofs, Sign(p) PROVE IInv'
<1>1. PICK i \in (clock - Drift)..(clock + Drift), n \in disclosed \cup {NoNonce} :
             /\ i >= 0
             /\ signed' = [signed EXCEPT ![p] = [iat |-> i, nonce |-> n]]
  BY DEF Sign
<1>2. signed'[p] \in SignedProofs /\ signed'[p] # NoProof
  BY <1>1, TokenAssumption, TimeAssumption, NoCallAssumption
     DEF IInv, TypeOK, SignedProofs, NoNonce
<1>3. TypeOK'
  BY <1>1, <1>2 DEF Sign, IInv, TypeOK, nonces, proofCache, tokenCache,
                    proofStore!StoreTypeOK, tokenStore!StoreTypeOK
<1>4. signed[p] = NoProof /\ \A q \in Proofs \ {p} : signed'[q] = signed[q]
  BY <1>1 DEF Sign, IInv, TypeOK
<1>5. MarkingIsTimely'
  BY <1>2, <1>4 DEF Sign, IInv, MarkingIsTimely, Marking, At, Fresh
<1>6. SpentRemembered'
  BY <1>2, <1>4 DEF Sign, IInv, SpentRemembered, Deadline, proofCache, TypeOK
<1> QED
  BY <1>3, <1>5, <1>6 DEF IInv

LEMMA ArriveIInv ==
    ASSUME IInv, NEW t \in Threads, NEW k \in Tokens \cup {NoToken},
           NEW p \in Proofs \cup {NoProof}, Arrive(t, k, p)
    PROVE  IInv'
<1>1. call'[t] \in Calls /\ call'[t].pc = "entry"
  BY DEF Arrive, IInv, TypeOK, Calls, Steps, NoNonce
<1>2. TypeOK'
  BY <1>1 DEF Arrive, IInv, TypeOK, nonces, proofCache, tokenCache,
              proofStore!StoreTypeOK, tokenStore!StoreTypeOK
<1>3. ~Marking(t)'
  BY <1>1 DEF Marking, At
<1> QED
  BY <1>2, <1>3, QuietStep DEF Arrive, ProofState, proofCache, IInv, TypeOK

\* currentDPoPNonce keeps the nonces within their bounds.
LEMMA CurrentNonceTyped ==
    ASSUME TypeOK, CurrentNonce \/ NewNonce
    PROVE  /\ nonce' \in 0..MaxNonces /\ nonceExp' \in Nat
           /\ generated' \in 0..MaxNonces
           /\ CurrentNonce => nonce' \in 1..MaxNonces
  BY TimeAssumption DEF CurrentNonce, NewNonce, TypeOK, NoNonce, nonces

LEMMA ReadNonceIInv == ASSUME IInv, NEW t \in Threads, ReadNonce(t) PROVE IInv'
<1>1. call[t] \in Calls
  BY CallTyped DEF ReadNonce, At, IInv
<1>2. nonce' \in 0..MaxNonces /\ nonceExp' \in Nat /\ generated' \in 0..MaxNonces
  BY CurrentNonceTyped DEF ReadNonce, IInv
<1>3. call' = [call EXCEPT ![t] = [call[t] EXCEPT !.pc = "validate", !.nonce = nonce']]
  BY DEF ReadNonce
<1>4. call'[t] \in Calls /\ call'[t].pc = "validate"
  <2>1. nonce' \in Nat
    BY <1>2, TimeAssumption
  <2> QED
    BY <1>1, <1>3, <2>1 DEF IInv, TypeOK, Calls, Steps
<1>5. TypeOK'
  BY <1>2, <1>3, <1>4 DEF ReadNonce, IInv, TypeOK, proofCache, tokenCache,
                    proofStore!StoreTypeOK, tokenStore!StoreTypeOK
<1>6. ~Marking(t)'
  BY <1>4 DEF Marking, At
<1> QED
  BY <1>3, <1>5, <1>6, QuietStep DEF ReadNonce, ProofState, proofCache, IInv, TypeOK

\* The validation starts the marking phase, with a proof that is fresh now.
LEMMA ValidateIInv == ASSUME IInv, NEW t \in Threads, Validate(t) PROVE IInv'
<1>1. call[t] \in Calls /\ call[t].proof \in Proofs
  BY CallTyped DEF Validate, At, IInv, Calls, Signed
<1>2. PICK s \in {"rotate", "stamp"} :
        call' = [call EXCEPT ![t] = [call[t] EXCEPT !.pc = s, !.checked = clock]]
  BY DEF Validate
<1>3. /\ call'[t] \in Calls /\ call'[t].pc = s /\ call'[t].checked = clock
      /\ call'[t].proof = call[t].proof
  BY <1>1, <1>2 DEF IInv, TypeOK, Calls, Steps
<1>4. uses' \in [1..MaxNonces -> Nat]
  <2> DEFINE n == call[t].nonce
  <2>1. uses \in [1..MaxNonces -> Nat] /\ (uses' = [uses EXCEPT ![n] = uses[n] + 1] \/ uses' = uses)
    BY DEF Validate, IInv, TypeOK
  <2> QED
    BY <2>1
<1>5. TypeOK'
  BY <1>2, <1>3, <1>4 DEF Validate, IInv, TypeOK, nonces, proofCache, tokenCache,
                          proofStore!StoreTypeOK, tokenStore!StoreTypeOK
<1>6. SpentRemembered'
  BY DEF Validate, IInv, SpentRemembered, Deadline, proofCache
<1>7. signed[call[t].proof] # NoProof
  BY DEF Validate, Signed
<1>8. MarkingIsTimely'
  <2> SUFFICES ASSUME NEW u \in Threads, Marking(u)'
               PROVE  /\ call'[u].proof \in Proofs
                      /\ signed[call'[u].proof] # NoProof
                      /\ Fresh(signed[call'[u].proof].iat, call'[u].checked)
                      /\ call'[u].checked <= clock
                      /\ clock - call'[u].checked <= MaxDelay
                      /\ At(u, "mark")' => /\ call'[u].checked <= call'[u].stamp
                                           /\ call'[u].stamp <= clock
    BY DEF MarkingIsTimely, Validate, Fresh
  <2>1. CASE u = t
    BY <2>1, <1>1, <1>3, <1>7, TimeAssumption DEF Validate, At, IInv, TypeOK
  <2>2. CASE u # t
    BY <2>2, <1>2 DEF IInv, TypeOK, MarkingIsTimely, Marking, At
  <2> QED
    BY <2>1, <2>2
<1> QED
  BY <1>5, <1>6, <1>8 DEF IInv

LEMMA RotateIInv == ASSUME IInv, NEW t \in Threads, Rotate(t) PROVE IInv'
<1>1. call[t] \in Calls /\ Marking(t)
  BY CallTyped DEF Rotate, At, IInv, Marking
<1>2. call' = [call EXCEPT ![t] = [call[t] EXCEPT !.pc = "stamp"]]
  BY DEF Rotate, Goto
<1>3. /\ call'[t] \in Calls /\ call'[t].pc = "stamp"
      /\ call'[t].proof = call[t].proof /\ call'[t].checked = call[t].checked
  BY <1>1, <1>2 DEF IInv, TypeOK, Calls, Steps
<1>4. nonce' \in 0..MaxNonces /\ nonceExp' \in Nat /\ generated' \in 0..MaxNonces
  BY CurrentNonceTyped DEF Rotate, IInv
<1>5. TypeOK'
  BY <1>2, <1>3, <1>4 DEF Rotate, IInv, TypeOK, proofCache, tokenCache,
                          proofStore!StoreTypeOK, tokenStore!StoreTypeOK
<1>6. ~At(t, "mark")'
  BY <1>3 DEF At
<1> QED
  BY <1>1, <1>2, <1>3, <1>5, <1>6, QuietStep
     DEF Rotate, ProofState, proofCache, IInv, TypeOK

LEMMA StampIInv ==
    ASSUME IInv, NEW t \in Threads,
           Stamp(t, "stamp", "mark") \/ Stamp(t, "stampToken", "markToken")
    PROVE  IInv'
<1>1. call[t] \in Calls
  BY CallTyped DEF Stamp, At, IInv
<1>2. PICK s \in {"mark", "markToken"} :
        /\ call' = [call EXCEPT ![t] = [call[t] EXCEPT !.pc = s, !.stamp = clock]]
        /\ s = "mark" => At(t, "stamp")
  BY DEF Stamp
<1>3. /\ call'[t] \in Calls /\ call'[t].pc = s /\ call'[t].stamp = clock
      /\ call'[t].proof = call[t].proof /\ call'[t].checked = call[t].checked
  BY <1>1, <1>2 DEF IInv, TypeOK, Calls, Steps
<1>4. TypeOK'
  BY <1>2, <1>3 DEF Stamp, IInv, TypeOK, nonces, proofCache, tokenCache,
                    proofStore!StoreTypeOK, tokenStore!StoreTypeOK
<1>5. Marking(t)' => Marking(t)
  BY <1>2, <1>3 DEF Marking, At
<1> QED
  BY <1>2, <1>3, <1>4, <1>5, QuietStep DEF Stamp, ProofState, proofCache, IInv, TypeOK

-----------------------------------------------------------------------------
\* While a proof may still be marked, no purge drops its entry.
LEMMA PurgeSparesSpent ==
    ASSUME IInv, NEW n \in Nat, n <= clock, NEW p \in spentProofs,
           clock <= Deadline(p)
    PROVE  /\ proofStore!Purged(n)[p] = proofItems[p]
           /\ proofItems[p] # proofStore!Absent
           /\ proofItems[p] >= signed[p].iat - Skew
<1>1. p \in Proofs /\ signed[p] \in SignedProofs
  BY DEF IInv, TypeOK, SpentRemembered
<1>2. signed[p].iat \in Nat /\ clock \in Nat
  BY <1>1 DEF SignedProofs, IInv, TypeOK
<1>3. proofItems[p] # proofStore!Absent /\ proofItems[p] >= signed[p].iat - Skew
  BY <1>2, TimeAssumption DEF IInv, SpentRemembered, Deadline
<1>4. proofItems[p] \in Nat
  BY <1>1, <1>3 DEF IInv, TypeOK, proofStore!StoreTypeOK
<1>5. n - ProofTTL <= signed[p].iat - Skew
  BY <1>2, TimeAssumption, StoreAssumption, ProofTTLAssumption DEF Deadline
<1>6. ~(proofItems[p] < n - ProofTTL)
  BY <1>2, <1>3, <1>4, <1>5, TimeAssumption, StoreAssumption
<1> QED
  BY <1>1, <1>3, <1>6, ProofPurge DEF IInv, TypeOK

\* A call that marks its proof does so before the deadline of that proof.
LEMMA MarkedInTime ==
    ASSUME IInv, NEW t \in Threads, At(t, "mark")
    PROVE  /\ call[t] \in Calls /\ call[t].proof \in Proofs
           /\ signed[call[t].proof] \in SignedProofs
           /\ signed[call[t].proof] # NoProof
           /\ call[t].stamp \in Nat /\ call[t].stamp <= clock
           /\ call[t].stamp >= signed[call[t].proof].iat - Skew
           /\ clock <= Deadline(call[t].proof)
<1>1. call[t] \in Calls
  BY CallTyped DEF At, IInv
<1>2. /\ call[t].proof \in Proofs /\ signed[call[t].proof] # NoProof
      /\ Fresh(signed[call[t].proof].iat, call[t].checked)
      /\ clock - call[t].checked <= MaxDelay
      /\ call[t].checked <= call[t].stamp /\ call[t].stamp <= clock
  BY DEF IInv, MarkingIsTimely, Marking
<1>3. /\ signed[call[t].proof] \in SignedProofs
      /\ call[t].stamp \in Nat /\ call[t].checked \in Nat /\ clock \in Nat
  BY <1>1, <1>2 DEF IInv, TypeOK, Calls
<1>4. signed[call[t].proof].iat \in Nat
  BY <1>3 DEF SignedProofs
<1> QED
  BY <1>1, <1>2, <1>3, <1>4, TimeAssumption DEF Fresh, Deadline

\* So a proof that is accepted is not a spent one.
LEMMA AcceptsOnlyUnspent ==
    ASSUME IInv, NEW t \in Threads, AcceptProof(t)
    PROVE  call[t].proof \notin spentProofs
<1>1. /\ call[t].proof \in Proofs /\ call[t].stamp \in Nat /\ call[t].stamp <= clock
      /\ clock <= Deadline(call[t].proof)
  BY MarkedInTime DEF AcceptProof
<1>2. proofStore!Purged(call[t].stamp)[call[t].proof] = proofStore!Absent
  BY <1>1, ProofRecorded DEF AcceptProof, IInv, TypeOK
<1> QED
  BY <1>1, <1>2, PurgeSparesSpent

LEMMA AcceptProofIInv == ASSUME IInv, NEW t \in Threads, AcceptProof(t) PROVE IInv'
<1> DEFINE p == call[t].proof
           n == call[t].stamp
<1>1. /\ call[t] \in Calls /\ p \in Proofs /\ signed[p] # NoProof
      /\ n \in Nat /\ n <= clock /\ n >= signed[p].iat - Skew
  BY MarkedInTime DEF AcceptProof
<1>2. /\ proofStore!StoreTypeOK' /\ proofItems'[p] = n
      /\ \A q \in Proofs \ {p} : \/ proofItems'[q] = proofStore!Purged(n)[q]
                                 \/ q \in proofStore!Victims(n)
  BY <1>1, ProofRecorded DEF AcceptProof, IInv, TypeOK
<1>3. call' = [call EXCEPT ![t] = [call[t] EXCEPT !.pc = "authorize"]]
  BY DEF AcceptProof, Goto
<1>4. call'[t] \in Calls /\ call'[t].pc = "authorize"
  BY <1>1, <1>3 DEF IInv, TypeOK, Calls, Steps
<1>5. TypeOK'
  BY <1>1, <1>2, <1>3, <1>4 DEF AcceptProof, IInv, TypeOK, nonces, tokenCache,
                                tokenStore!StoreTypeOK
<1>6. MarkingIsTimely'
  <2>1. ~Marking(t)'
    BY <1>4 DEF Marking, At
  <2>2. \A u \in Threads \ {t} : call'[u] = call[u]
    BY <1>3 DEF IInv, TypeOK
  <2> SUFFICES ASSUME NEW u \in Threads, Marking(u)'
               PROVE  /\ call'[u].proof \in Proofs
                      /\ signed[call'[u].proof] # NoProof
                      /\ Fresh(signed[call'[u].proof].iat, call'[u].checked)
                      /\ call'[u].checked <= clock
                      /\ clock - call'[u].checked <= MaxDelay
                      /\ At(u, "mark")' => /\ call'[u].checked <= call'[u].stamp
                                           /\ call'[u].stamp <= clock
    BY DEF MarkingIsTimely, AcceptProof, Fresh
  <2>3. u # t /\ Marking(u) /\ call'[u] = call[u]
    BY <2>1, <2>2 DEF Marking, At
  <2> QED
    BY <2>3 DEF IInv, MarkingIsTimely, At
<1>7. SpentRemembered'
  <2> SUFFICES ASSUME NEW q \in spentProofs'
               PROVE  /\ signed[q] # NoProof
                      /\ \/ clock > Deadline(q)
                         \/ /\ proofItems'[q] # proofStore!Absent
                            /\ proofItems'[q] >= signed[q].iat - Skew
    BY DEF SpentRemembered, AcceptProof, Deadline
  <2>1. CASE q = p
    BY <2>1, <1>1, <1>2 DEF proofStore!Absent
  <2>2. CASE q # p /\ clock <= Deadline(q)
    <3>1. q \in spentProofs \ proofStore!Victims(n) /\ q \in Proofs
      BY <2>2 DEF AcceptProof, IInv, TypeOK
    <3> QED
      BY <2>2, <3>1, <1>1, <1>2, PurgeSparesSpent DEF IInv, SpentRemembered
  <2>3. CASE q # p /\ ~(clock <= Deadline(q))
    <3>1. q \in spentProofs /\ q \in Proofs /\ signed[q] # NoProof
      BY <2>3 DEF AcceptProof, IInv, TypeOK, SpentRemembered
    <3>2. signed[q].iat \in Nat /\ clock \in Nat
      BY <3>1 DEF IInv, TypeOK, SignedProofs
    <3> QED
      BY <2>3, <3>1, <3>2, TimeAssumption DEF Deadline
  <2> QED
    BY <2>1, <2>2, <2>3
<1> QED
  BY <1>5, <1>6, <1>7 DEF IInv

LEMMA RejectProofIInv == ASSUME IInv, NEW t \in Threads, RejectProof(t) PROVE IInv'
<1> DEFINE n == call[t].stamp
<1>1. n \in Nat /\ n <= clock
  BY MarkedInTime DEF RejectProof
<1>2. proofItems' = proofStore!Purged(n) /\ proofLast' = proofStore!PurgeTime(n)
  BY DEF RejectProof, proofStore!RejectReplay
<1>3. call' = [call EXCEPT ![t] = NoCall]
  BY DEF RejectProof, Done
<1>4. TypeOK'
  BY <1>1, <1>2, <1>3, ProofPurge
     DEF RejectProof, IInv, TypeOK, nonces, tokenCache,
         proofStore!StoreTypeOK, tokenStore!StoreTypeOK
<1>5. MarkingIsTimely'
  BY <1>3 DEF MarkingIsTimely, Marking, At, Fresh, RejectProof, IInv, TypeOK
<1>6. SpentRemembered'
  <2> SUFFICES ASSUME NEW q \in spentProofs
               PROVE  /\ signed[q] # NoProof
                      /\ \/ clock > Deadline(q)
                         \/ /\ proofItems'[q] # proofStore!Absent
                            /\ proofItems'[q] >= signed[q].iat - Skew
    BY DEF SpentRemembered, RejectProof, Deadline
  <2>1. signed[q] # NoProof /\ signed[q].iat \in Nat /\ clock \in Nat
    BY DEF IInv, TypeOK, SpentRemembered, SignedProofs
  <2>2. CASE clock <= Deadline(q)
    BY <2>1, <2>2, <1>1, <1>2, PurgeSparesSpent
  <2>3. CASE ~(clock <= Deadline(q))
    BY <2>1, <2>3, TimeAssumption DEF Deadline
  <2> QED
    BY <2>2, <2>3
<1> QED
  BY <1>4, <1>5, <1>6 DEF IInv

LEMMA AcceptTokenIInv == ASSUME IInv, NEW t \in Threads, AcceptToken(t) PROVE IInv'
<1>1. call[t] \in Calls /\ call[t].stamp \in Nat
  BY CallTyped DEF AcceptToken, At, IInv, Calls
<1>2. tokenStore!StoreTypeOK' /\ tokenStore!Victims(call[t].stamp) \subseteq Tokens
  BY <1>1, TokenRecorded
     DEF AcceptToken, IInv, TypeOK, tokenStore!Victims, tokenStore!Present
<1>3. call' = [call EXCEPT ![t] = [call[t] EXCEPT !.pc = "respond"]]
  BY DEF AcceptToken, Goto
<1>4. call'[t] \in Calls /\ call'[t].pc = "respond"
  BY <1>1, <1>3 DEF IInv, TypeOK, Calls, Steps
<1>5. TypeOK'
  BY <1>2, <1>3, <1>4 DEF AcceptToken, IInv, TypeOK, nonces, proofCache,
                          proofStore!StoreTypeOK
<1>6. ~Marking(t)'
  BY <1>4 DEF Marking, At
<1> QED
  BY <1>3, <1>5, <1>6, QuietStep DEF AcceptToken, ProofState, proofCache, IInv, TypeOK

LEMMA RejectTokenIInv == ASSUME IInv, NEW t \in Threads, RejectToken(t) PROVE IInv'
<1>1. call[t] \in Calls /\ call[t].stamp \in Nat
  BY CallTyped DEF RejectToken, At, IInv, Calls
<1>2. tokenStore!StoreTypeOK'
  BY <1>1, TokenPurge
     DEF RejectToken, tokenStore!RejectReplay, IInv, TypeOK, tokenStore!StoreTypeOK
<1>3. TypeOK'
  BY <1>2 DEF RejectToken, Done, IInv, TypeOK, nonces, proofCache,
              proofStore!StoreTypeOK
<1> QED
  BY <1>3, EndStep DEF RejectToken, ProofState, proofCache

LEMMA RespondIInv == ASSUME IInv, NEW t \in Threads, Respond(t) PROVE IInv'
<1>1. call[t] \in Calls
  BY CallTyped DEF Respond, At, IInv
<1>2. /\ nonce' \in 0..MaxNonces /\ nonceExp' \in Nat /\ generated' \in 0..MaxNonces
      /\ disclosed' \subseteq 1..MaxNonces
  BY CurrentNonceTyped DEF Respond, IInv, TypeOK, nonces
<1>3. answered' \subseteq Tokens
  BY <1>1 DEF Respond, IInv, TypeOK, Calls
<1>4. TypeOK'
  BY <1>2, <1>3 DEF Respond, Done, IInv, TypeOK, proofCache, tokenCache,
                    proofStore!StoreTypeOK, tokenStore!StoreTypeOK
<1> QED
  BY <1>4, EndStep DEF Respond, ProofState, proofCache

\* Time passes for a call in the marking phase only up to MaxDelay.
LEMMA TickIInv == ASSUME IInv, Tick PROVE IInv'
<1>1. TypeOK'
  BY DEF Tick, IInv, TypeOK, nonces, proofCache, tokenCache,
         proofStore!StoreTypeOK, tokenStore!StoreTypeOK
<1>2. MarkingIsTimely'
  <2> SUFFICES ASSUME NEW u \in Threads, Marking(u)'
               PROVE  /\ call'[u].proof \in Proofs
                      /\ signed'[call'[u].proof] # NoProof
                      /\ Fresh(signed'[call'[u].proof].iat, call'[u].checked)
                      /\ call'[u].checked <= clock'
                      /\ clock' - call'[u].checked <= MaxDelay
                      /\ At(u, "mark")' => /\ call'[u].checked <= call'[u].stamp
                                           /\ call'[u].stamp <= clock'
    BY DEF MarkingIsTimely, Fresh
  <2>1. call' = call /\ signed' = signed /\ clock' = clock + 1
    BY DEF Tick
  <2>2. Marking(u) /\ (At(u, "mark")' => At(u, "mark"))
    BY <2>1 DEF Marking, At
  <2>3. call[u] \in Calls
    BY <2>2, CallTyped DEF Marking, At, IInv
  <2>4. clock - call[u].checked < MaxDelay
    BY <2>2 DEF Tick, Marking
  <2>5. call[u].checked \in Nat /\ call[u].stamp \in Nat /\ clock \in Nat
    BY <2>3 DEF Calls, IInv, TypeOK
  <2> QED
    BY <2>1, <2>2, <2>4, <2>5, TimeAssumption DEF IInv, MarkingIsTimely
<1>3. SpentRemembered'
  <2> SUFFICES ASSUME NEW q \in spentProofs, clock > Deadline(q)
               PROVE  clock + 1 > Deadline(q)
    BY DEF Tick, IInv, SpentRemembered, Deadline, proofCache
  <2>1. signed[q].iat \in Nat /\ clock \in Nat
    BY DEF IInv, TypeOK, SpentRemembered, SignedProofs
  <2> QED
    BY <2>1, TimeAssumption DEF Deadline
<1> QED
  BY <1>1, <1>2, <1>3 DEF IInv

LEMMA RestartIInv == ASSUME IInv, Restart PROVE IInv'
<1>1. TypeOK'
  BY TimeAssumption
     DEF Restart, IInv, TypeOK, NoNonce, proofStore!StoreTypeOK, proofStore!Absent,
         tokenStore!StoreTypeOK, tokenStore!Absent
<1> QED
  BY <1>1 DEF Restart, IInv, MarkingIsTimely, Marking, At, SpentRemembered

LEMMA NextIInv == ASSUME IInv, [Next]_vars PROVE IInv'
<1>1. ASSUME NEW p \in Proofs, Sign(p) PROVE IInv'
  BY <1>1, SignIInv
<1>2. ASSUME NEW t \in Threads, NEW k \in Tokens \cup {NoToken},
             NEW p \in Proofs \cup {NoProof}, Arrive(t, k, p)
      PROVE  IInv'
  BY <1>2, ArriveIInv
<1>3. ASSUME NEW t \in Threads, Enter(t) \/ Authorize(t) PROVE IInv'
  BY <1>3, MoveStep DEF Enter, Authorize, At, Steps
<1>4. ASSUME NEW t \in Threads, Refuse(t) PROVE IInv'
  <2>1. TypeOK'
    BY <1>4 DEF Refuse, Done, IInv, TypeOK, nonces, proofCache, tokenCache,
                proofStore!StoreTypeOK, tokenStore!StoreTypeOK
  <2> QED
    BY <1>4, <2>1, EndStep DEF Refuse, ProofState, proofCache
<1>5. ASSUME NEW t \in Threads,
             ReadNonce(t) \/ Validate(t) \/ Rotate(t) \/ Stamp(t, "stamp", "mark")
               \/ Stamp(t, "stampToken", "markToken")
      PROVE  IInv'
  BY <1>5, ReadNonceIInv, ValidateIInv, RotateIInv, StampIInv
<1>6. ASSUME NEW t \in Threads, AcceptProof(t) \/ RejectProof(t) PROVE IInv'
  BY <1>6, AcceptProofIInv, RejectProofIInv
<1>7. ASSUME NEW t \in Threads, AcceptToken(t) \/ RejectToken(t) \/ Respond(t)
      PROVE  IInv'
  BY <1>7, AcceptTokenIInv, RejectTokenIInv, RespondIInv
<1>8. CASE Tick
  BY <1>8, TickIInv
<1>9. CASE Restart
  BY <1>9, RestartIInv
<1>10. CASE UNCHANGED vars
  BY <1>10 DEF vars, nonces, proofCache, tokenCache, IInv, TypeOK, MarkingIsTimely,
               Marking, At, Fresh, SpentRemembered, Deadline,
               proofStore!StoreTypeOK, tokenStore!StoreTypeOK
<1> QED
  BY <1>1, <1>2, <1>3, <1>4, <1>5, <1>6, <1>7, <1>8, <1>9, <1>10 DEF Next

\* IInv, and with it the type invariant, holds in every reachable state.
THEOREM Inductive == Spec => []IInv
<1>1. IInv /\ [Next]_vars => IInv'
  BY NextIInv
<1> QED
  BY InitIInv, <1>1, PTL DEF Spec

\* Type correctness of the pipeline (cmd/server/main.go and server.go).
THEOREM TypeCorrect == Spec => []TypeOK
<1>1. IInv => TypeOK
  BY DEF IInv
<1> QED
  BY Inductive, <1>1, PTL

\* No proof is accepted twice: at the second marking the entry of the first is
\* still in the cache, for every interleaving and every setting that satisfies
\* ProofTTLAssumption.
THEOREM ProofsUsedOnce == Spec => ProofUsedOnce
<1>1. IInv /\ [Next]_vars =>
        [\A t \in Threads : AcceptProof(t) => call[t].proof \notin spentProofs]_vars
  BY AcceptsOnlyUnspent
<1> QED
  BY Inductive, <1>1, PTL DEF Spec, ProofUsedOnce

-----------------------------------------------------------------------------
(* The server's nonce.  While a nonce is the current one, every call that  *)
(* it validated is still about to rotate it: the first of them to do so    *)
(* retires the nonce.  So no call validates twice under it.                *)

\* Calls that hold nonce n and have not validated their proof yet.
Pending(n) == {t \in Threads : At(t, "validate") /\ call[t].nonce = n}

\* Calls that validated their proof under n and have not rotated it yet.
Rotating(n) == {t \in Threads : At(t, "rotate") /\ call[t].nonce = n}

\* Nonces are numbered in the order they are generated.
NoncesNumbered ==
    /\ nonce <= generated
    /\ \A t \in Threads : call[t] # NoCall => call[t].nonce <= generated
    /\ \A t \in Threads : At(t, "entry") => call[t].nonce = NoNonce
    /\ \A n \in 1..MaxNonces : n > generated => uses[n] = 0

\* Who is still to validate under n has not done so before.
UsesShared ==
    \A n \in 1..MaxNonces : uses[n] + Cardinality(Pending(n)) <= Cardinality(Threads)

\* Who validated under the current nonce has not rotated it.
CurrentUnrotated == nonce # NoNonce => uses[nonce] <= Cardinality(Rotating(nonce))

NonceInv == NoncesNumbered /\ UsesShared /\ CurrentUnrotated

LEMMA ThreadSets ==
    ASSUME NEW S \in SUBSET Threads
    PROVE  IsFiniteSet(S) /\ Cardinality(S) \in Nat /\ Cardinality(S) <= Cardinality(Threads)
  BY ThreadsAssumption, FS_Subset, FS_CardinalityType

\* A call is at one step at a time.
LEMMA PendingOrRotating ==
    ASSUME NEW A \in SUBSET Threads, NEW B \in SUBSET Threads, A \cap B = {}
    PROVE  Cardinality(A) + Cardinality(B) <= Cardinality(Threads)
<1>1. IsFiniteSet(A) /\ IsFiniteSet(B) /\ Cardinality(A \cap B) = 0
  BY ThreadSets, FS_EmptySet
<1>2. Cardinality(A \cup B) = Cardinality(A) + Cardinality(B) - Cardinality(A \cap B)
  BY <1>1, FS_Union
<1>3. Cardinality(A \cup B) <= Cardinality(Threads) /\ Cardinality(A) \in Nat
      /\ Cardinality(B) \in Nat
  BY ThreadSets
<1> QED
  BY <1>1, <1>2, <1>3

LEMMA InitNonceInv == Init => NonceInv
<1> SUFFICES ASSUME Init PROVE NonceInv
  OBVIOUS
<1>1. NoncesNumbered
  BY TimeAssumption DEF Init, NoncesNumbered, NoNonce, At
<1>2. UsesShared
  <2> SUFFICES ASSUME NEW n \in 1..MaxNonces
               PROVE  uses[n] + Cardinality(Pending(n)) <= Cardinality(Threads)
    BY DEF UsesShared
  <2>1. uses[n] = 0
    BY DEF Init
  <2>2. Cardinality(Pending(n)) \in Nat /\ Cardinality(Pending(n)) <= Cardinality(Threads)
    BY ThreadSets DEF Pending
  <2> QED
    BY <2>1, <2>2
<1>3. CurrentUnrotated
  BY DEF Init, CurrentUnrotated
<1> QED
  BY <1>1, <1>2, <1>3 DEF NonceInv

\* A step of t that is no validation: it leaves the nonce alone or replaces it,
\* and replaces it when it leaves the rotation.
LEMMA NonceStep ==
    ASSUME NonceInv, TypeOK, TypeOK', UNCHANGED uses, NEW t \in Threads,
           \A u \in Threads \ {t} : call'[u] = call[u],
           UNCHANGED <<nonce, generated>> \/ NewNonce,
           At(t, "rotate") => NewNonce, ~At(t, "rotate")',
           At(t, "entry")' => call'[t].nonce = NoNonce,
           At(t, "validate")' => call'[t].nonce \in {NoNonce, nonce'},
           call'[t] # NoCall => call'[t].nonce <= generated'
    PROVE  NonceInv'
<1>1. /\ generated \in Nat /\ generated' \in Nat /\ generated <= generated'
      /\ generated' \in 0..MaxNonces /\ nonce' \in 0..MaxNonces /\ nonce' <= generated'
  BY TimeAssumption DEF NewNonce, TypeOK, NonceInv, NoncesNumbered
<1>2. NoncesNumbered'
  <2>1. \A u \in Threads : call'[u] # NoCall => call'[u].nonce <= generated'
    <3> SUFFICES ASSUME NEW u \in Threads, call'[u] # NoCall, u # t
                 PROVE  call[u].nonce <= generated'
      OBVIOUS
    <3>1. call[u] \in Calls /\ call[u].nonce <= generated
      BY DEF TypeOK, NonceInv, NoncesNumbered
    <3> QED
      BY <1>1, <3>1 DEF Calls
  <2>2. \A u \in Threads : At(u, "entry")' => call'[u].nonce = NoNonce
    BY DEF NonceInv, NoncesNumbered, At
  <2>3. \A n \in 1..MaxNonces : n > generated' => uses[n] = 0
    BY <1>1, TimeAssumption DEF NonceInv, NoncesNumbered
  <2> QED
    BY <1>1, <2>1, <2>2, <2>3 DEF NoncesNumbered
<1>3. CurrentUnrotated'
  <2>1. CASE NewNonce
    <3>1. nonce' \in 1..MaxNonces /\ nonce' > generated
      BY <2>1, TimeAssumption DEF NewNonce, TypeOK
    <3>2. uses'[nonce'] = 0
      BY <3>1 DEF NonceInv, NoncesNumbered
    <3>3. Cardinality(Rotating(nonce)') \in Nat
      BY ThreadSets DEF Rotating
    <3> QED
      BY <3>2, <3>3 DEF CurrentUnrotated
  <2>2. CASE nonce' = nonce /\ ~At(t, "rotate")
    <3>1. Rotating(nonce)' = Rotating(nonce)
      BY <2>2 DEF Rotating, At
    <3> QED
      BY <2>2, <3>1 DEF NonceInv, CurrentUnrotated
  <2> QED
    BY <2>1, <2>2
<1>4. UsesShared'
  <2> SUFFICES ASSUME NEW n \in 1..MaxNonces
               PROVE  uses[n] + Cardinality(Pending(n)') <= Cardinality(Threads)
    BY DEF UsesShared
  <2>1. /\ Cardinality(Pending(n)') \in Nat /\ Cardinality(Pending(n)) \in Nat
        /\ Cardinality(Threads) \in Nat /\ uses[n] \in Nat
    BY ThreadSets, ThreadsAssumption, FS_CardinalityType DEF Pending, TypeOK
  <2>2. CASE n = nonce'
    <3>1. uses[n] <= Cardinality(Rotating(n)')
      BY <1>3, <2>2, TimeAssumption DEF CurrentUnrotated, NoNonce
    <3>2. Cardinality(Rotating(n)') + Cardinality(Pending(n)') <= Cardinality(Threads)
      BY PendingOrRotating DEF Rotating, Pending, At
    <3>3. Cardinality(Rotating(n)') \in Nat
      BY ThreadSets DEF Rotating
    <3> QED
      BY <2>1, <3>1, <3>2, <3>3
  <2>3. CASE n # nonce'
    <3>1. Pending(n)' \subseteq Pending(n)
      BY <2>3, TimeAssumption DEF Pending, At, NoNonce
    <3>2. Cardinality(Pending(n)') <= Cardinality(Pending(n))
      BY <3>1, FS_Subset, ThreadSets DEF Pending
    <3>3. uses[n] + Cardinality(Pending(n)) <= Cardinality(Threads)
      BY DEF NonceInv, UsesShared
    <3> QED
      BY <2>1, <3>2, <3>3
  <2> QED
    BY <2>2, <2>3
<1> QED
  BY <1>2, <1>3, <1>4 DEF NonceInv

\* A step that only moves the call of t on, not into the validation.
LEMMA MoveNonceInv ==
    ASSUME NonceInv, TypeOK, TypeOK', UNCHANGED <<uses, nonces>>, NEW t \in Threads,
           call[t] # NoCall, ~At(t, "rotate"), NEW c \in Calls,
           call' = [call EXCEPT ![t] = c], c.nonce = call[t].nonce,
           c.pc \notin {"entry", "rotate"}, c.pc = "validate" => c.nonce = NoNonce
    PROVE  NonceInv'
<1>1. call'[t] = c /\ \A u \in Threads \ {t} : call'[u] = call[u]
  BY DEF TypeOK
<1>2. /\ ~At(t, "rotate")' /\ ~At(t, "entry")'
      /\ At(t, "validate")' => call'[t].nonce = NoNonce
  BY <1>1 DEF At
<1>3. call'[t] # NoCall => call'[t].nonce <= generated'
  BY <1>1 DEF NonceInv, NoncesNumbered, nonces
<1> QED
  BY <1>1, <1>2, <1>3, NonceStep DEF nonces

\* A step that ends the call of t.
LEMMA EndNonceInv ==
    ASSUME NonceInv, TypeOK, TypeOK', UNCHANGED uses, NEW t \in Threads, Done(t),
           ~At(t, "rotate"), UNCHANGED nonces \/ CurrentNonce
    PROVE  NonceInv'
<1>1. call'[t] = NoCall /\ \A u \in Threads \ {t} : call'[u] = call[u]
  BY DEF Done, TypeOK
<1>2. UNCHANGED <<nonce, generated>> \/ NewNonce
  BY DEF nonces, CurrentNonce
<1> QED
  BY <1>1, <1>2, NonceStep DEF At

LEMMA ArriveNonceInv ==
    ASSUME NonceInv, TypeOK, TypeOK', NEW t \in Threads, NEW k, NEW p, Arrive(t, k, p)
    PROVE  NonceInv'
<1>1. /\ \A u \in Threads \ {t} : call'[u] = call[u]
      /\ call'[t].pc = "entry" /\ call'[t].nonce = NoNonce
      /\ UNCHANGED <<nonce, generated, uses>>
  BY DEF Arrive, TypeOK, nonces
<1>2. ~At(t, "rotate") /\ ~At(t, "rotate")' /\ ~At(t, "validate")'
  BY <1>1 DEF Arrive, At
<1>3. NoNonce <= generated'
  BY TimeAssumption DEF TypeOK, NoNonce
<1> QED
  BY <1>1, <1>2, <1>3, NonceStep

LEMMA EnterNonceInv ==
    ASSUME NonceInv, TypeOK, TypeOK', NEW t \in Threads, Enter(t)
    PROVE  NonceInv'
<1>1. PICK s \in {"authorize", "nonce", "validate"} :
        call' = [call EXCEPT ![t] = [call[t] EXCEPT !.pc = s]]
  BY DEF Enter, Goto
<1>2. call[t] \in Calls /\ At(t, "entry") /\ call[t] # NoCall /\ ~At(t, "rotate")
  BY CallTyped DEF Enter, At
<1>3. call[t].nonce = NoNonce
  BY <1>2 DEF NonceInv, NoncesNumbered
<1>4. [call[t] EXCEPT !.pc = s] \in Calls /\ [call[t] EXCEPT !.pc = s].pc = s
      /\ [call[t] EXCEPT !.pc = s].nonce = call[t].nonce
  BY <1>2 DEF Calls, Steps
<1> QED
  BY <1>1, <1>2, <1>3, <1>4, MoveNonceInv DEF Enter

LEMMA AdvanceNonceInv ==
    ASSUME NonceInv, TypeOK, TypeOK', NEW t \in Threads,
           \/ Authorize(t) \/ AcceptProof(t) \/ AcceptToken(t)
           \/ Stamp(t, "stamp", "mark") \/ Stamp(t, "stampToken", "markToken")
    PROVE  NonceInv'
<1>1. call[t] # NoCall /\ call[t] \in Calls /\ ~At(t, "rotate")
      /\ UNCHANGED <<uses, nonces>>
  BY CallTyped DEF Authorize, AcceptProof, AcceptToken, Stamp, At
<1>2. PICK s \in {"stampToken", "respond", "authorize", "mark", "markToken"}, n \in Nat :
        call' = [call EXCEPT ![t] = [call[t] EXCEPT !.pc = s, !.stamp = n]]
  <2>1. ASSUME NEW s \in {"stampToken", "respond", "authorize"}, Goto(t, s)
        PROVE  call' = [call EXCEPT ![t] = [call[t] EXCEPT !.pc = s, !.stamp = call[t].stamp]]
    BY <1>1, <2>1 DEF Goto, Calls
  <2>2. CASE Authorize(t) \/ AcceptProof(t) \/ AcceptToken(t)
    <3>1. PICK s \in {"stampToken", "respond", "authorize"} : Goto(t, s)
      BY <2>2 DEF Authorize, AcceptProof, AcceptToken
    <3>2. call[t].stamp \in Nat
      BY <1>1 DEF Calls
    <3> QED
      BY <2>1, <3>1, <3>2
  <2>3. CASE Stamp(t, "stamp", "mark") \/ Stamp(t, "stampToken", "markToken")
    BY <2>3 DEF Stamp, TypeOK
  <2> QED
    BY <2>2, <2>3
<1> DEFINE c == [call[t] EXCEPT !.pc = s, !.stamp = n]
<1>3. c \in Calls /\ c.pc = s /\ c.nonce = call[t].nonce
  BY <1>1 DEF Calls, Steps
<1> QED
  BY <1>1, <1>2, <1>3, MoveNonceInv

LEMMA StopNonceInv ==
    ASSUME NonceInv, TypeOK, TypeOK', NEW t \in Threads,
           Refuse(t) \/ RejectProof(t) \/ RejectToken(t) \/ Respond(t)
    PROVE  NonceInv'
<1>1. /\ Done(t) /\ ~At(t, "rotate") /\ UNCHANGED uses
      /\ UNCHANGED nonces \/ CurrentNonce
  BY DEF Refuse, RejectProof, RejectToken, Respond, At
<1> QED
  BY <1>1, EndNonceInv

LEMMA ReadNonceInv ==
    ASSUME NonceInv, TypeOK, TypeOK', NEW t \in Threads, ReadNonce(t)
    PROVE  NonceInv'
<1>1. call[t] \in Calls /\ call[t] # NoCall /\ ~At(t, "rotate")
  BY CallTyped DEF ReadNonce, At
<1>2. /\ call'[t] = [call[t] EXCEPT !.pc = "validate", !.nonce = nonce']
      /\ \A u \in Threads \ {t} : call'[u] = call[u]
  BY DEF ReadNonce, TypeOK
<1>3. call'[t].pc = "validate" /\ call'[t].nonce = nonce'
  BY <1>1, <1>2 DEF Calls
<1>4. ~At(t, "rotate")' /\ ~At(t, "entry")'
  BY <1>3 DEF At
<1>5. UNCHANGED <<nonce, generated>> \/ NewNonce
  BY DEF ReadNonce, CurrentNonce, nonces
<1>6. nonce' <= generated'
  BY <1>5, TimeAssumption DEF NewNonce, NonceInv, NoncesNumbered, TypeOK
<1>7. UNCHANGED uses
  BY DEF ReadNonce
<1> QED
  BY <1>1, <1>2, <1>3, <1>4, <1>5, <1>6, <1>7, NonceStep

LEMMA RotateNonceInv ==
    ASSUME NonceInv, TypeOK, TypeOK', NEW t \in Threads, Rotate(t)
    PROVE  NonceInv'
<1>1. call[t] \in Calls /\ call[t] # NoCall /\ NewNonce /\ UNCHANGED uses
  BY CallTyped DEF Rotate, At
<1>2. /\ call'[t] = [call[t] EXCEPT !.pc = "stamp"]
      /\ \A u \in Threads \ {t} : call'[u] = call[u]
  BY DEF Rotate, Goto, TypeOK
<1>3. call'[t].pc = "stamp" /\ call'[t].nonce = call[t].nonce
  BY <1>1, <1>2 DEF Calls
<1>4. ~At(t, "rotate")' /\ ~At(t, "entry")' /\ ~At(t, "validate")'
  BY <1>3 DEF At
<1>5. call[t].nonce <= generated'
  <2>1. call[t].nonce <= generated /\ generated' = generated + 1
    BY <1>1 DEF NonceInv, NoncesNumbered, NewNonce
  <2>2. call[t].nonce \in Nat /\ generated \in Nat
    BY <1>1, TimeAssumption DEF Calls, TypeOK
  <2> QED
    BY <2>1, <2>2
<1> QED
  BY <1>1, <1>2, <1>3, <1>4, <1>5, NonceStep

\* A validation takes a call from those that are to validate under its nonce
\* to those that are to rotate it.
LEMMA ValidateNonceInv ==
    ASSUME NonceInv, TypeOK, TypeOK', NEW t \in Threads, Validate(t)
    PROVE  NonceInv'
<1> DEFINE m == call[t].nonce
<1>1. call[t] \in Calls /\ At(t, "validate") /\ call[t] # NoCall
  BY CallTyped DEF Validate, At
<1>2. PICK s \in {"rotate", "stamp"} :
        /\ s = IF NonceEnabled THEN "rotate" ELSE "stamp"
        /\ call' = [call EXCEPT ![t] = [call[t] EXCEPT !.pc = s, !.checked = clock]]
  BY DEF Validate
<1>3. /\ call'[t].pc = s /\ call'[t].nonce = m /\ call'[t] # NoCall
      /\ \A u \in Threads \ {t} : call'[u] = call[u]
  <2>1. call'[t] = [call[t] EXCEPT !.pc = s, !.checked = clock]
    BY <1>2 DEF TypeOK
  <2>2. call'[t] \in Calls /\ call'[t].pc = s /\ call'[t].nonce = m
    BY <1>1, <2>1 DEF TypeOK, Calls, Steps
  <2> QED
    BY <1>2, <2>2, NoCallAssumption DEF TypeOK
<1>4. UNCHANGED <<nonce, generated>> /\ generated \in Nat
  BY TimeAssumption DEF Validate, nonces, TypeOK
<1>5. m <= generated
  BY <1>1 DEF NonceInv, NoncesNumbered
<1>6. \A n \in 1..MaxNonces :
        uses'[n] = IF NonceEnabled /\ n = m THEN uses[n] + 1 ELSE uses[n]
  BY DEF Validate, TypeOK
<1>7. NoncesNumbered'
  <2>1. \A u \in Threads : call'[u] # NoCall => call'[u].nonce <= generated
    BY <1>3, <1>5 DEF NonceInv, NoncesNumbered
  <2>2. \A u \in Threads : At(u, "entry")' => call'[u].nonce = NoNonce
    BY <1>3 DEF NonceInv, NoncesNumbered, At
  <2>3. \A n \in 1..MaxNonces : n > generated => uses'[n] = 0
    <3> SUFFICES ASSUME NEW n \in 1..MaxNonces, n > generated PROVE uses'[n] = 0
      OBVIOUS
    <3>1. n # m
      BY <1>1, <1>4, <1>5, TimeAssumption DEF Calls
    <3> QED
      BY <1>6, <3>1 DEF NonceInv, NoncesNumbered
  <2> QED
    BY <1>4, <2>1, <2>2, <2>3 DEF NonceInv, NoncesNumbered
<1>8. UsesShared'
  <2> SUFFICES ASSUME NEW n \in 1..MaxNonces
               PROVE  uses'[n] + Cardinality(Pending(n)') <= Cardinality(Threads)
    BY DEF UsesShared
  <2>1. /\ Cardinality(Pending(n)') \in Nat /\ Cardinality(Pending(n)) \in Nat
        /\ Cardinality(Threads) \in Nat /\ uses[n] \in Nat /\ IsFiniteSet(Pending(n))
    BY ThreadSets, ThreadsAssumption, FS_CardinalityType DEF Pending, TypeOK
  <2>2. uses[n] + Cardinality(Pending(n)) <= Cardinality(Threads)
    BY DEF NonceInv, UsesShared
  <2>3. Pending(n)' = Pending(n) \ {t}
    BY <1>2, <1>3 DEF Pending, At
  <2>4. Cardinality(Pending(n)') = IF t \in Pending(n) THEN Cardinality(Pending(n)) - 1
                                                       ELSE Cardinality(Pending(n))
    BY <2>1, <2>3, FS_RemoveElement
  <2>5. n = m => t \in Pending(n)
    BY <1>1 DEF Pending
  <2> QED
    BY <1>6, <2>1, <2>2, <2>4, <2>5
<1>9. CurrentUnrotated'
  <2> SUFFICES ASSUME nonce # NoNonce
               PROVE  uses'[nonce] <= Cardinality(Rotating(nonce)')
    BY <1>4 DEF CurrentUnrotated
  <2>1. nonce \in 1..MaxNonces
    BY TimeAssumption DEF TypeOK, NoNonce
  <2>2. /\ Cardinality(Rotating(nonce)') \in Nat /\ Cardinality(Rotating(nonce)) \in Nat
        /\ uses[nonce] \in Nat /\ IsFiniteSet(Rotating(nonce))
    BY <2>1, ThreadSets DEF Rotating, TypeOK
  <2>3. uses[nonce] <= Cardinality(Rotating(nonce))
    BY DEF NonceInv, CurrentUnrotated
  <2>4. t \notin Rotating(nonce)
    BY <1>1 DEF Rotating, At
  <2>5. CASE NonceEnabled /\ nonce = m
    <3>1. Rotating(nonce)' = Rotating(nonce) \cup {t}
      BY <1>2, <1>3, <1>4, <2>5 DEF Rotating, At
    <3>2. Cardinality(Rotating(nonce)') = Cardinality(Rotating(nonce)) + 1
      BY <2>2, <2>4, <3>1, FS_AddElement
    <3> QED
      BY <1>6, <2>1, <2>2, <2>3, <2>5, <3>2
  <2>6. CASE ~(NonceEnabled /\ nonce = m)
    <3>1. Rotating(nonce)' = Rotating(nonce)
      BY <1>2, <1>3, <1>4, <2>4, <2>6 DEF Rotating, At
    <3> QED
      BY <1>6, <2>1, <2>3, <2>6, <3>1
  <2> QED
    BY <2>5, <2>6
<1> QED
  BY <1>7, <1>8, <1>9 DEF NonceInv

LEMMA RestartNonceInv ==
    ASSUME NonceInv, TypeOK, TypeOK', Restart PROVE NonceInv'
<1>1. /\ nonce' = NoNonce /\ UNCHANGED <<generated, uses>>
      /\ \A t \in Threads : call'[t] = NoCall
  BY DEF Restart
<1>2. NoncesNumbered'
  BY <1>1, TimeAssumption DEF NonceInv, NoncesNumbered, NoNonce, At, TypeOK
<1>3. UsesShared'
  <2> SUFFICES ASSUME NEW n \in 1..MaxNonces
               PROVE  uses[n] + Cardinality(Pending(n)') <= Cardinality(Threads)
    BY <1>1 DEF UsesShared
  <2>1. Pending(n)' = {}
    BY <1>1 DEF Pending, At
  <2>2. /\ Cardinality(Pending(n)) \in Nat /\ Cardinality(Threads) \in Nat
        /\ uses[n] \in Nat /\ Cardinality(Pending(n)') = 0
    BY <2>1, ThreadSets, ThreadsAssumption, FS_CardinalityType, FS_EmptySet
       DEF Pending, TypeOK
  <2>3. uses[n] + Cardinality(Pending(n)) <= Cardinality(Threads)
    BY DEF NonceInv, UsesShared
  <2> QED
    BY <2>2, <2>3
<1>4. CurrentUnrotated'
  BY <1>1 DEF CurrentUnrotated
<1> QED
  BY <1>2, <1>3, <1>4 DEF NonceInv

LEMMA NextNonceInv ==
    ASSUME NonceInv, TypeOK, TypeOK', [Next]_vars PROVE NonceInv'
<1>1. CASE UNCHANGED <<call, nonces, uses>>
  BY <1>1 DEF nonces, NonceInv, NoncesNumbered, UsesShared, CurrentUnrotated,
              Pending, Rotating, At
<1>2. ASSUME NEW p \in Proofs, Sign(p) PROVE NonceInv'
  BY <1>1, <1>2 DEF Sign
<1>3. CASE Tick
  BY <1>1, <1>3 DEF Tick
<1>4. CASE Restart
  BY <1>4, RestartNonceInv
<1>5. CASE UNCHANGED vars
  BY <1>1, <1>5 DEF vars
<1>6. ASSUME NEW t \in Threads, NEW k \in Tokens \cup {NoToken},
             NEW p \in Proofs \cup {NoProof}, Arrive(t, k, p)
      PROVE  NonceInv'
  BY <1>6, ArriveNonceInv
<1>7. ASSUME NEW t \in Threads,
             Enter(t) \/ ReadNonce(t) \/ Validate(t) \/ Rotate(t)
      PROVE  NonceInv'
  BY <1>7, EnterNonceInv, ReadNonceInv, ValidateNonceInv, RotateNonceInv
<1>8. ASSUME NEW t \in Threads,
             \/ Authorize(t) \/ AcceptProof(t) \/ AcceptToken(t)
             \/ Stamp(t, "stamp", "mark") \/ Stamp(t, "stampToken", "markToken")
      PROVE  NonceInv'
  BY <1>8, AdvanceNonceInv
<1>9. ASSUME NEW t \in Threads,
             Refuse(t) \/ RejectProof(t) \/ RejectToken(t) \/ Respond(t)
      PROVE  NonceInv'
  BY <1>9, StopNonceInv
<1> QED
  BY <1>2, <1>3, <1>4, <1>5, <1>6, <1>7, <1>8, <1>9 DEF Next

THEOREM NoncesCounted == Spec => []NonceInv
<1>1. NonceInv /\ TypeOK /\ TypeOK' /\ [Next]_vars => NonceInv'
  BY NextNonceInv
<1> QED
  BY InitNonceInv, TypeCorrect, <1>1, PTL DEF Spec

\* However reading and rotating the nonce interleave, one nonce validates no
\* more proofs than there are concurrent calls (currentDPoPNonce,
\* rotateDPoPNonce), for any number of them and any lifetime of a nonce.
THEOREM NonceUsesAreBounded == Spec => []NonceUsesBounded
<1>1. TypeOK /\ NonceInv => NonceUsesBounded
  <2> SUFFICES ASSUME TypeOK, NonceInv, NEW n \in 1..MaxNonces
               PROVE  uses[n] <= Cardinality(Threads)
    BY DEF NonceUsesBounded
  <2>1. /\ Cardinality(Pending(n)) \in Nat /\ Cardinality(Threads) \in Nat
        /\ uses[n] \in Nat
    BY ThreadSets, ThreadsAssumption, FS_CardinalityType DEF Pending, TypeOK
  <2> QED
    BY <2>1 DEF NonceInv, UsesShared
<1> QED
  BY NoncesCounted, TypeCorrect, <1>1, PTL

\* A nonce that validated a proof is the current one only while some call is
\* about to rotate it; once rotated it never comes back (rotateDPoPNonce).
THEOREM UsedNoncesAreRetired == Spec => []UsedNonceRetired
<1>1. TypeOK /\ NonceInv => UsedNonceRetired
  <2> SUFFICES ASSUME TypeOK, NonceInv, NEW n \in 1..MaxNonces, uses[n] > 0, nonce = n
               PROVE  \E t \in Threads : At(t, "rotate")
    BY DEF UsedNonceRetired
  <2>1. uses[n] <= Cardinality(Rotating(n)) /\ uses[n] \in Nat
    BY TimeAssumption DEF NonceInv, CurrentUnrotated, NoNonce, TypeOK
  <2>2. Rotating(n) # {}
    BY <2>1, FS_EmptySet
  <2> QED
    BY <2>2 DEF Rotating
<1> QED
  BY NoncesCounted, TypeCorrect, <1>1, PTL

-----------------------------------------------------------------------------
(* Token jtis (the variant of ext_authz/server.go).                        *)

\* Recording token k drops entries of the cache, or keeps them, and adds none
\* but that of k.
LEMMA TokenEntries ==
    ASSUME TypeOK, NEW n \in Nat, NEW k \in Tokens \cup {NoToken},
           tokenStore!RecordNew(k, n)
    PROVE  /\ \A l \in Tokens \ {k} :
                tokenItems'[l] # tokenStore!Absent => tokenItems[l] # tokenStore!Absent
           /\ k \in Tokens => tokenStore!Purged(n)[k] = tokenStore!Absent /\ tokenItems'[k] = n
<1>1. /\ tokenStore!Purged(n) \in [Tokens -> Nat \cup {tokenStore!Absent}]
      /\ \A l \in Tokens : tokenStore!Purged(n)[l] # tokenStore!Absent
                             => tokenItems[l] # tokenStore!Absent
  BY TokenPurge DEF TypeOK, tokenStore!Purged
<1>2. k \in Tokens => tokenStore!Purged(n)[k] = tokenStore!Absent
  BY <1>1 DEF tokenStore!RecordNew, tokenStore!Present
<1>3. CASE tokenItems' = [tokenStore!Purged(n) EXCEPT ![k] = n]
  BY <1>1, <1>2, <1>3
<1>4. ASSUME NEW v \in tokenStore!Oldest(tokenStore!Purged(n)),
             tokenItems' = [tokenStore!Purged(n) EXCEPT ![v] = tokenStore!Absent, ![k] = n]
      PROVE  /\ \A l \in Tokens \ {k} :
                  tokenItems'[l] # tokenStore!Absent => tokenItems[l] # tokenStore!Absent
             /\ k \in Tokens => tokenItems'[k] = n
  <2>1. v \in Tokens
    BY DEF tokenStore!Oldest, tokenStore!Present
  <2> QED
    BY <1>1, <1>4, <2>1
<1> QED
  BY <1>2, <1>3, <1>4 DEF tokenStore!RecordNew

\* A call that answers, or has answered since the last restart.
Allowing(k) == \E t \in Threads : At(t, "respond") /\ call[t].token = k

\* A call at one of the other steps of its own that moves or ends.
LEMMA StillAllowing ==
    ASSUME TypeOK, NEW t \in Threads, NEW k, Allowing(k), ~At(t, "respond"),
           \A u \in Threads \ {t} : call'[u] = call[u]
    PROVE  Allowing(k)'
  BY DEF Allowing, At

LEMMA TokenStepSpent ==
    ASSUME TypeOK, TokenSpentOnlyByAllow, NEW t \in Threads,
           \A u \in Threads \ {t} : call'[u] = call[u],
           \/ ~At(t, "respond") /\ answered' = answered
           \/ Respond(t),
           \A k \in Tokens : tokenItems'[k] # tokenStore!Absent =>
             \/ tokenItems[k] # tokenStore!Absent
             \/ At(t, "respond")' /\ call'[t].token = k
    PROVE  TokenSpentOnlyByAllow'
<1> SUFFICES ASSUME NEW k \in Tokens, tokenItems'[k] # tokenStore!Absent
             PROVE  k \in answered' \/ Allowing(k)'
  BY DEF TokenSpentOnlyByAllow, tokenStore!Present, Allowing
<1>1. CASE tokenItems[k] # tokenStore!Absent
  <2>1. k \in answered \/ Allowing(k)
    BY <1>1 DEF TokenSpentOnlyByAllow, tokenStore!Present, Allowing
  <2>2. CASE ~At(t, "respond") /\ answered' = answered
    BY <2>1, <2>2, StillAllowing
  <2>3. CASE Respond(t)
    <3>1. CASE call[t].token = k
      BY <2>3, <3>1, TokenAssumption DEF Respond
    <3>2. CASE call[t].token # k
      BY <2>1, <2>3, <3>2 DEF Respond, Allowing, At
    <3> QED
      BY <3>1, <3>2
  <2> QED
    BY <2>2, <2>3
<1>2. CASE At(t, "respond")' /\ call'[t].token = k
  BY <1>2 DEF Allowing
<1> QED
  BY <1>1, <1>2

\* The step of a call leaves the others alone, and unless it answers it starts
\* elsewhere than at the answer.
LEMMA OneCallMoves ==
    ASSUME TypeOK, NEW t \in Threads,
           \/ \E k, p : Arrive(t, k, p)
           \/ Enter(t) \/ Refuse(t) \/ ReadNonce(t) \/ Validate(t) \/ Rotate(t)
           \/ Stamp(t, "stamp", "mark") \/ AcceptProof(t) \/ RejectProof(t)
           \/ Authorize(t) \/ Stamp(t, "stampToken", "markToken")
           \/ AcceptToken(t) \/ RejectToken(t) \/ Respond(t)
    PROVE  /\ \A u \in Threads \ {t} : call'[u] = call[u]
           /\ \/ ~At(t, "respond") /\ answered' = answered
              \/ Respond(t)
           /\ AcceptToken(t) \/ RejectToken(t) \/ UNCHANGED <<tokenItems, forgotten>>
<1>1. \A u \in Threads \ {t} : call'[u] = call[u]
  BY DEF TypeOK, Arrive, Enter, Refuse, ReadNonce, Validate, Rotate, Stamp, AcceptProof,
         RejectProof, Authorize, AcceptToken, RejectToken, Respond, Goto, Done
<1>2. \/ ~At(t, "respond") /\ answered' = answered
      \/ Respond(t)
  BY DEF Arrive, Enter, Refuse, ReadNonce, Validate, Rotate, Stamp, AcceptProof,
         RejectProof, Authorize, AcceptToken, RejectToken, At
<1>3. AcceptToken(t) \/ RejectToken(t) \/ UNCHANGED <<tokenItems, forgotten>>
  BY DEF Arrive, Enter, Refuse, ReadNonce, Validate, Rotate, Stamp, AcceptProof,
         RejectProof, Authorize, Respond, tokenCache
<1> QED
  BY <1>1, <1>2, <1>3

LEMMA NextSpent ==
    ASSUME TypeOK, TokenSpentOnlyByAllow, [Next]_vars PROVE TokenSpentOnlyByAllow'
<1> DEFINE Move(t) ==
             \/ \E k, p : Arrive(t, k, p)
             \/ Enter(t) \/ Refuse(t) \/ ReadNonce(t) \/ Validate(t) \/ Rotate(t)
             \/ Stamp(t, "stamp", "mark") \/ AcceptProof(t) \/ RejectProof(t)
             \/ Authorize(t) \/ Stamp(t, "stampToken", "markToken")
             \/ AcceptToken(t) \/ RejectToken(t) \/ Respond(t)
<1>1. ASSUME NEW t \in Threads, Move(t) PROVE TokenSpentOnlyByAllow'
  <2>1. /\ \A u \in Threads \ {t} : call'[u] = call[u]
        /\ \/ ~At(t, "respond") /\ answered' = answered
           \/ Respond(t)
        /\ AcceptToken(t) \/ RejectToken(t) \/ UNCHANGED <<tokenItems, forgotten>>
    BY <1>1, OneCallMoves
  <2>2. CASE AcceptToken(t)
    <3>1. call[t] \in Calls /\ call[t] # NoCall
      BY <2>2, CallTyped DEF AcceptToken, At
    <3>2. call[t].stamp \in Nat /\ call[t].token \in Tokens \cup {NoToken}
      BY <3>1 DEF Calls
    <3>3. call'[t] = [call[t] EXCEPT !.pc = "respond"]
      BY <2>2 DEF AcceptToken, Goto, TypeOK
    <3>4. At(t, "respond")' /\ call'[t].token = call[t].token
      <4>1. [call[t] EXCEPT !.pc = "respond"] \in Calls
        BY <3>1 DEF Calls, Steps
      <4> QED
        BY <3>1, <3>3, <4>1, NoCallAssumption DEF At, Calls
    <3>5. \A k \in Tokens \ {call[t].token} :
            tokenItems'[k] # tokenStore!Absent => tokenItems[k] # tokenStore!Absent
      BY <2>2, <3>2, TokenEntries DEF AcceptToken
    <3> QED
      BY <2>1, <3>4, <3>5, TokenStepSpent
  <2>3. CASE RejectToken(t)
    <3>1. tokenItems' = tokenStore!Purged(call[t].stamp)
      BY <2>3 DEF RejectToken, tokenStore!RejectReplay
    <3>2. \A k \in Tokens :
            tokenItems'[k] # tokenStore!Absent => tokenItems[k] # tokenStore!Absent
      BY <3>1 DEF tokenStore!Purged
    <3> QED
      BY <2>1, <3>2, TokenStepSpent
  <2>4. CASE UNCHANGED tokenItems
    BY <2>1, <2>4, TokenStepSpent
  <2> QED
    BY <2>1, <2>2, <2>3, <2>4
<1>2. CASE UNCHANGED <<call, tokenItems, answered>>
  BY <1>2 DEF TokenSpentOnlyByAllow, tokenStore!Present, At
<1>3. ASSUME NEW p \in Proofs, Sign(p) PROVE TokenSpentOnlyByAllow'
  BY <1>2, <1>3 DEF Sign, tokenCache
<1>4. CASE Tick
  BY <1>2, <1>4 DEF Tick, tokenCache
<1>5. CASE Restart
  BY <1>5 DEF Restart, TokenSpentOnlyByAllow, tokenStore!Present
<1>6. CASE UNCHANGED vars
  BY <1>2, <1>6 DEF vars, tokenCache
<1>7. CASE \E t \in Threads, k \in Tokens \cup {NoToken}, p \in Proofs \cup {NoProof} :
             Arrive(t, k, p)
  BY <1>1, <1>7
<1> QED
  BY <1>1, <1>3, <1>4, <1>5, <1>6, <1>7 DEF Next

\* A request that is refused does not use up its token: only a call that has
\* allowed or is about to allow its request leaves a token in the cache,
\* whatever the cache purges and evicts meanwhile (server.go).
THEOREM TokensSpentByAllow == Spec => []TokenSpentOnlyByAllow
<1>1. Init => TokenSpentOnlyByAllow
  BY DEF Init, TokenSpentOnlyByAllow, tokenStore!Present, tokenStore!StoreInit
<1>2. TokenSpentOnlyByAllow /\ TypeOK /\ [Next]_vars => TokenSpentOnlyByAllow'
  BY NextSpent
<1> QED
  BY TypeCorrect, <1>1, <1>2, PTL DEF Spec

\* server.go lets a call past the entry with a token only, and stamps the
\* recording of the token with a time that has come.
TokensPresent ==
    /\ clock <= MaxTime
    /\ \A t \in Threads : call[t] # NoCall =>
        /\ ~At(t, "entry") => call[t].token \in Tokens
        /\ At(t, "markToken") => call[t].stamp <= clock

\* What was allowed or is about to be is in the cache, unless it was evicted.
AllowedRecorded ==
    \A k \in Tokens \ forgotten :
        k \in answered \/ Allowing(k) => tokenItems[k] # tokenStore!Absent

\* A call that is about to allow its token is the only one and the first.
AllowedByOne ==
    \A t \in Threads : At(t, "respond") /\ call[t].token \notin forgotten =>
        /\ call[t].token \notin answered
        /\ \A u \in Threads \ {t} : ~(At(u, "respond") /\ call[u].token = call[t].token)

OnceInv == TokensPresent /\ AllowedRecorded /\ AllowedByOne

LEMMA InitOnceInv == Init => OnceInv
  BY TimeAssumption
     DEF Init, OnceInv, TokensPresent, AllowedRecorded, Allowing, AllowedByOne, At

LEMMA NextTokensPresent ==
    ASSUME MarksTokens, TypeOK, TypeOK', TokensPresent, [Next]_vars PROVE TokensPresent'
<1>1. ASSUME NEW t \in Threads, \A u \in Threads \ {t} : call'[u] = call[u],
             UNCHANGED clock,
             call'[t] # NoCall =>
               /\ ~At(t, "entry")' => call'[t].token \in Tokens
               /\ At(t, "markToken")' => call'[t].stamp <= clock
      PROVE  TokensPresent'
  BY <1>1 DEF TokensPresent, At
<1>2. ASSUME NEW t \in Threads, call[t] # NoCall, call[t].token \in Tokens,
             NEW s \in Steps, s # "markToken", NEW c \in Calls, c.pc = s,
             c.token = call[t].token, call' = [call EXCEPT ![t] = c], UNCHANGED clock
      PROVE  TokensPresent'
  <2>1. call'[t] = c /\ \A u \in Threads \ {t} : call'[u] = call[u]
    BY <1>2 DEF TypeOK
  <2> QED
    BY <1>1, <1>2, <2>1 DEF At
<1>3. ASSUME NEW t \in Threads, Done(t), UNCHANGED clock PROVE TokensPresent'
  <2>1. call'[t] = NoCall /\ \A u \in Threads \ {t} : call'[u] = call[u]
    BY <1>3 DEF Done, TypeOK
  <2> QED
    BY <1>1, <1>3, <2>1
<1>4. ASSUME NEW t \in Threads, call[t] # NoCall, call[t].token \in Tokens,
             NEW s \in Steps, s # "markToken", Goto(t, s), UNCHANGED clock
      PROVE  TokensPresent'
  <2> DEFINE c == [call[t] EXCEPT !.pc = s]
  <2>1. call[t] \in Calls
    BY <1>4, CallTyped
  <2>2. c \in Calls /\ c.pc = s /\ c.token = call[t].token
    BY <2>1 DEF Calls
  <2>3. call' = [call EXCEPT ![t] = c]
    BY <1>4 DEF Goto
  <2> HIDE DEF c
  <2> QED
    BY <1>2, <1>4, <2>2, <2>3
<1>5. ASSUME NEW t \in Threads, call[t] # NoCall, ~At(t, "entry")
      PROVE  call[t] \in Calls /\ call[t].token \in Tokens
  BY <1>5, CallTyped DEF TokensPresent
<1>6. ASSUME NEW t \in Threads, NEW k \in Tokens \cup {NoToken},
             NEW p \in Proofs \cup {NoProof}, Arrive(t, k, p)
      PROVE  TokensPresent'
  <2>1. /\ call'[t].pc = "entry" /\ UNCHANGED clock
        /\ \A u \in Threads \ {t} : call'[u] = call[u]
    BY <1>6 DEF Arrive, TypeOK
  <2> QED
    BY <1>1, <2>1 DEF At
<1>7. ASSUME NEW t \in Threads, Enter(t) PROVE TokensPresent'
  <2>1. call[t] # NoCall /\ call[t].token \in Tokens /\ UNCHANGED clock
    BY <1>7, CallTyped DEF Enter, At, Calls
  <2>2. PICK s \in {"authorize", "nonce", "validate"} : Goto(t, s)
    BY <1>7 DEF Enter
  <2> QED
    BY <1>4, <2>1, <2>2 DEF Steps
<1>8. ASSUME NEW t \in Threads,
             Refuse(t) \/ RejectProof(t) \/ RejectToken(t) \/ Respond(t)
      PROVE  TokensPresent'
  BY <1>3, <1>8 DEF Refuse, RejectProof, RejectToken, Respond
<1>9. ASSUME NEW t \in Threads,
             Rotate(t) \/ Authorize(t) \/ AcceptProof(t) \/ AcceptToken(t)
      PROVE  TokensPresent'
  <2>1. call[t] # NoCall /\ call[t].token \in Tokens /\ UNCHANGED clock
    BY <1>5, <1>9 DEF Rotate, Authorize, AcceptProof, AcceptToken, At
  <2>2. PICK s \in {"stamp", "stampToken", "respond", "authorize"} : Goto(t, s)
    BY <1>9 DEF Rotate, Authorize, AcceptProof, AcceptToken
  <2> QED
    BY <1>4, <2>1, <2>2 DEF Steps
<1>10. ASSUME NEW t \in Threads, ReadNonce(t) PROVE TokensPresent'
  <2> DEFINE c == [call[t] EXCEPT !.pc = "validate", !.nonce = nonce']
  <2>1. call[t] # NoCall /\ call[t] \in Calls /\ call[t].token \in Tokens
    BY <1>5, <1>10 DEF ReadNonce, At
  <2>2. c \in Calls /\ c.pc = "validate" /\ c.token = call[t].token
    <3>1. nonce' \in Nat
      BY TimeAssumption DEF TypeOK
    <3> QED
      BY <2>1, <3>1 DEF Calls, Steps
  <2>3. call' = [call EXCEPT ![t] = c] /\ UNCHANGED clock
    BY <1>10 DEF ReadNonce
  <2> HIDE DEF c
  <2> QED
    BY <1>2, <2>1, <2>2, <2>3 DEF Steps
<1>11. ASSUME NEW t \in Threads, Validate(t) PROVE TokensPresent'
  <2>1. call[t] # NoCall /\ call[t] \in Calls /\ call[t].token \in Tokens
    BY <1>5, <1>11 DEF Validate, At
  <2>2. PICK s \in {"rotate", "stamp"} :
          call' = [call EXCEPT ![t] = [call[t] EXCEPT !.pc = s, !.checked = clock]]
    BY <1>11 DEF Validate
  <2> DEFINE c == [call[t] EXCEPT !.pc = s, !.checked = clock]
  <2>3. c \in Calls /\ c.pc = s /\ c.token = call[t].token
    BY <2>1 DEF Calls, Steps, TypeOK
  <2>4. call' = [call EXCEPT ![t] = c] /\ UNCHANGED clock
    BY <1>11, <2>2 DEF Validate
  <2> HIDE DEF c
  <2> QED
    BY <1>2, <2>1, <2>3, <2>4 DEF Steps
<1>12. ASSUME NEW t \in Threads,
              Stamp(t, "stamp", "mark") \/ Stamp(t, "stampToken", "markToken")
       PROVE  TokensPresent'
  <2>1. call[t] # NoCall /\ call[t] \in Calls /\ call[t].token \in Tokens
    BY <1>5, <1>12 DEF Stamp, At
  <2>2. PICK s \in {"mark", "markToken"} :
          call' = [call EXCEPT ![t] = [call[t] EXCEPT !.pc = s, !.stamp = clock]]
    BY <1>12 DEF Stamp
  <2>3. /\ call'[t] = [call[t] EXCEPT !.pc = s, !.stamp = clock] /\ UNCHANGED clock
        /\ \A u \in Threads \ {t} : call'[u] = call[u]
    BY <1>12, <2>2 DEF Stamp, TypeOK
  <2>4. call'[t].token \in Tokens /\ call'[t].stamp <= clock
    BY <2>1, <2>3 DEF Calls, TypeOK
  <2> QED
    BY <1>1, <2>3, <2>4
<1>13. CASE Tick
  <2> SUFFICES ASSUME NEW t \in Threads, call[t] # NoCall, At(t, "markToken")
               PROVE  call[t].stamp <= clock'
    BY <1>13, TimeAssumption DEF Tick, TokensPresent, TypeOK, At
  <2>1. call[t].stamp \in Nat /\ call[t].stamp <= clock
    BY CallTyped DEF TokensPresent, Calls
  <2> QED
    BY <1>13, <2>1 DEF Tick, TypeOK
<1>14. CASE Restart
  BY <1>14 DEF Restart, TokensPresent
<1>15. CASE UNCHANGED <<call, clock>>
  BY <1>15 DEF TokensPresent, At
<1>16. ASSUME NEW p \in Proofs, Sign(p) PROVE TokensPresent'
  BY <1>15, <1>16 DEF Sign
<1>17. CASE UNCHANGED vars
  BY <1>15, <1>17 DEF vars
<1> QED
  BY <1>6, <1>7, <1>8, <1>9, <1>10, <1>11, <1>12, <1>13, <1>14, <1>16, <1>17 DEF Next

\* Within one window of the token cache no entry expires.
LEMMA NothingExpires ==
    ASSUME MaxTime <= TokenTTL, TypeOK, NEW n \in Nat, n <= MaxTime
    PROVE  tokenStore!Purged(n) = tokenItems
<1>1. tokenItems \in [Tokens -> Nat \cup {tokenStore!Absent}]
  BY DEF TypeOK, tokenStore!StoreTypeOK
<1>2. \A k \in Tokens : tokenItems[k] < n - TokenTTL => tokenItems[k] = tokenStore!Absent
  BY <1>1, TimeAssumption, StoreAssumption DEF tokenStore!Absent
<1>3. \A k \in Tokens : tokenStore!Purged(n)[k] = tokenItems[k]
  BY <1>2 DEF tokenStore!Purged
<1> QED
  BY <1>1, <1>3 DEF tokenStore!Purged

\* With MarksTokens a call comes to the answer from the recording only.
LEMMA AnswersAfterRecording ==
    ASSUME MarksTokens, TypeOK, TypeOK', NEW t \in Threads,
           \/ \E k \in Tokens \cup {NoToken}, p \in Proofs \cup {NoProof} : Arrive(t, k, p)
           \/ Enter(t) \/ Refuse(t) \/ ReadNonce(t) \/ Validate(t) \/ Rotate(t)
           \/ Stamp(t, "stamp", "mark") \/ AcceptProof(t) \/ RejectProof(t)
           \/ Authorize(t) \/ Stamp(t, "stampToken", "markToken")
           \/ RejectToken(t) \/ Respond(t)
    PROVE  ~At(t, "respond")'
<1>1. CASE \E k \in Tokens \cup {NoToken}, p \in Proofs \cup {NoProof} : Arrive(t, k, p)
  <2>1. call'[t].pc = "entry"
    BY <1>1 DEF Arrive, TypeOK
  <2> QED
    BY <2>1 DEF At
<1>2. CASE Refuse(t) \/ RejectProof(t) \/ RejectToken(t) \/ Respond(t)
  BY <1>2 DEF Refuse, RejectProof, RejectToken, Respond, Done, At, TypeOK
<1>3. CASE \/ Enter(t) \/ ReadNonce(t) \/ Validate(t) \/ Rotate(t) \/ AcceptProof(t)
           \/ Stamp(t, "stamp", "mark") \/ Stamp(t, "stampToken", "markToken")
           \/ Authorize(t)
  <2>1. call[t] \in Calls
    BY <1>3, CallTyped DEF Enter, ReadNonce, Validate, Rotate, AcceptProof, Stamp,
                           Authorize, At
  <2>2. PICK s \in Steps \ {"respond"} : call'[t].pc = s
    BY <1>3, <2>1 DEF Enter, ReadNonce, Validate, Rotate, AcceptProof, Stamp,
                      Authorize, Goto, TypeOK, Calls, Steps
  <2> QED
    BY <2>2 DEF At
<1> QED
  BY <1>1, <1>2, <1>3

\* A step of t that neither records nor answers.
LEMMA QuietOnce ==
    ASSUME AllowedRecorded, AllowedByOne, NEW t \in Threads,
           \A u \in Threads \ {t} : call'[u] = call[u],
           ~At(t, "respond")', UNCHANGED <<answered, forgotten, tokenItems>>
    PROVE  AllowedRecorded' /\ AllowedByOne'
<1>1. \A u \in Threads : At(u, "respond")' => At(u, "respond") /\ call'[u] = call[u]
  BY DEF At
<1>2. AllowedRecorded'
  BY <1>1 DEF AllowedRecorded, Allowing
<1>3. AllowedByOne'
  BY <1>1 DEF AllowedByOne
<1> QED
  BY <1>2, <1>3

LEMMA AcceptTokenOnce ==
    ASSUME MaxTime <= TokenTTL, TypeOK, OnceInv, NEW t \in Threads, AcceptToken(t)
    PROVE  AllowedRecorded' /\ AllowedByOne'
<1> DEFINE k == call[t].token
           n == call[t].stamp
<1>1. /\ call[t] # NoCall /\ call[t] \in Calls /\ k \in Tokens /\ n \in Nat /\ n <= MaxTime
      /\ ~At(t, "respond")
  <2>1. call[t] # NoCall /\ call[t] \in Calls /\ ~At(t, "respond") /\ ~At(t, "entry")
    BY CallTyped DEF AcceptToken, At
  <2>2. n \in Nat /\ n <= clock /\ clock <= MaxTime
    BY <2>1 DEF AcceptToken, OnceInv, TokensPresent, Calls
  <2> QED
    BY <2>1, <2>2, TimeAssumption DEF OnceInv, TokensPresent, TypeOK
<1>2. tokenStore!Purged(n) = tokenItems
  BY <1>1, NothingExpires
<1>3. tokenItems[k] = tokenStore!Absent /\ tokenItems'[k] # tokenStore!Absent
  BY <1>1, <1>2, TokenEntries DEF AcceptToken, tokenStore!Absent
<1>4. forgotten' = forgotten \cup tokenStore!Victims(n) /\ answered' = answered
  BY DEF AcceptToken
<1>5. call'[t].token = k /\ \A u \in Threads \ {t} : call'[u] = call[u]
  BY <1>1 DEF AcceptToken, Goto, TypeOK, Calls
<1>6. k \in forgotten \/ (k \notin answered /\ ~Allowing(k))
  BY <1>1, <1>3 DEF OnceInv, AllowedRecorded
<1>7. AllowedRecorded'
  <2> SUFFICES ASSUME NEW l \in Tokens \ forgotten', l \in answered \/ Allowing(l)'
               PROVE  tokenItems'[l] # tokenStore!Absent
    BY <1>4 DEF AllowedRecorded
  <2>1. CASE l = k
    BY <1>3, <2>1
  <2>2. CASE l # k
    <3>1. l \in answered \/ Allowing(l)
      BY <1>5, <2>2 DEF Allowing, At
    <3>2. tokenItems[l] # tokenStore!Absent
      BY <1>4, <3>1 DEF OnceInv, AllowedRecorded
    <3> QED
      BY <1>2, <1>4, <3>2 DEF tokenStore!Victims, tokenStore!Present
  <2> QED
    BY <2>1, <2>2
<1>8. AllowedByOne'
  <2> SUFFICES ASSUME NEW u \in Threads, At(u, "respond")', call'[u].token \notin forgotten'
               PROVE  /\ call'[u].token \notin answered
                      /\ \A w \in Threads \ {u} :
                           ~(At(w, "respond")' /\ call'[w].token = call'[u].token)
    BY <1>4 DEF AllowedByOne
  <2>1. CASE u = t
    <3>1. k \notin answered /\ ~Allowing(k)
      BY <1>4, <1>5, <1>6, <2>1
    <3> QED
      BY <1>5, <2>1, <3>1 DEF Allowing, At
  <2>2. CASE u # t
    <3>1. call'[u] = call[u] /\ At(u, "respond") /\ call[u].token \notin forgotten
      BY <1>4, <1>5, <2>2 DEF At
    <3>2. call[u].token # k
      BY <1>6, <3>1 DEF Allowing
    <3>3. \A w \in Threads \ {u} : At(w, "respond")' /\ call'[w].token = call[u].token
            => At(w, "respond") /\ call[w].token = call[u].token
      BY <1>5, <3>2 DEF At
    <3> QED
      BY <3>1, <3>3 DEF OnceInv, AllowedByOne
  <2> QED
    BY <2>1, <2>2
<1> QED
  BY <1>7, <1>8

LEMMA RespondOnce ==
    ASSUME MarksTokens, TypeOK, TypeOK', OnceInv, NEW t \in Threads, Respond(t)
    PROVE  /\ AllowedRecorded' /\ AllowedByOne'
           /\ call[t].token \notin answered \ forgotten
<1> DEFINE k == call[t].token
<1>1. /\ At(t, "respond") /\ answered' = answered \cup ({k} \ {NoToken})
      /\ UNCHANGED <<tokenItems, forgotten>>
  BY DEF Respond, tokenCache
<1>2. ~At(t, "respond")' /\ \A u \in Threads \ {t} : call'[u] = call[u]
  BY AnswersAfterRecording, OneCallMoves
<1>3. \A u \in Threads : At(u, "respond")' => At(u, "respond") /\ u # t /\ call'[u] = call[u]
  BY <1>2 DEF At
<1>4. AllowedRecorded'
  <2> SUFFICES ASSUME NEW l \in Tokens \ forgotten, l \in answered' \/ Allowing(l)'
               PROVE  tokenItems[l] # tokenStore!Absent
    BY <1>1 DEF AllowedRecorded
  <2>1. l \in answered \/ Allowing(l)
    BY <1>1, <1>3 DEF Allowing
  <2> QED
    BY <2>1 DEF OnceInv, AllowedRecorded
<1>5. AllowedByOne'
  BY <1>1, <1>3 DEF OnceInv, AllowedByOne
<1>6. k \notin answered \ forgotten
  BY <1>1 DEF OnceInv, AllowedByOne
<1> QED
  BY <1>4, <1>5, <1>6

LEMMA NextOnceInv ==
    ASSUME MarksTokens, MaxTime <= TokenTTL, TypeOK, TypeOK', OnceInv, [Next]_vars
    PROVE  OnceInv'
<1>1. TokensPresent'
  BY NextTokensPresent DEF OnceInv
<1> SUFFICES AllowedRecorded' /\ AllowedByOne'
  BY <1>1 DEF OnceInv
<1>2. ASSUME NEW t \in Threads,
             \/ \E k \in Tokens \cup {NoToken}, p \in Proofs \cup {NoProof} : Arrive(t, k, p)
             \/ Enter(t) \/ Refuse(t) \/ ReadNonce(t) \/ Validate(t) \/ Rotate(t)
             \/ Stamp(t, "stamp", "mark") \/ AcceptProof(t) \/ RejectProof(t)
             \/ Authorize(t) \/ Stamp(t, "stampToken", "markToken") \/ RejectToken(t)
      PROVE  AllowedRecorded' /\ AllowedByOne'
  <2>1. ~At(t, "respond")'
    BY <1>2, AnswersAfterRecording
  <2>2. \A u \in Threads \ {t} : call'[u] = call[u]
    BY <1>2, OneCallMoves
  <2>3. UNCHANGED <<answered, forgotten>>
    BY <1>2 DEF Arrive, Enter, Refuse, ReadNonce, Validate, Rotate, Stamp, AcceptProof,
                RejectProof, Authorize, RejectToken
  <2>4. UNCHANGED tokenItems
    <3>1. CASE RejectToken(t)
      <4>1. call[t] # NoCall /\ call[t] \in Calls /\ At(t, "markToken")
        BY <3>1, CallTyped DEF RejectToken, At
      <4>2. call[t].stamp \in Nat /\ call[t].stamp <= MaxTime
        BY <4>1, TimeAssumption DEF OnceInv, TokensPresent, Calls, TypeOK
      <4> QED
        BY <3>1, <4>2, NothingExpires DEF RejectToken, tokenStore!RejectReplay
    <3>2. CASE ~RejectToken(t)
      BY <1>2, <3>2 DEF Arrive, Enter, Refuse, ReadNonce, Validate, Rotate, Stamp,
                        AcceptProof, RejectProof, Authorize, tokenCache
    <3> QED
      BY <3>1, <3>2
  <2> QED
    BY <2>1, <2>2, <2>3, <2>4, QuietOnce DEF OnceInv
<1>3. ASSUME NEW t \in Threads, AcceptToken(t) PROVE AllowedRecorded' /\ AllowedByOne'
  BY <1>3, AcceptTokenOnce
<1>4. ASSUME NEW t \in Threads, Respond(t) PROVE AllowedRecorded' /\ AllowedByOne'
  BY <1>4, RespondOnce
<1>5. CASE UNCHANGED <<call, tokenItems, answered, forgotten>>
  BY <1>5 DEF OnceInv, AllowedRecorded, Allowing, AllowedByOne, At
<1>6. ASSUME NEW p \in Proofs, Sign(p) PROVE AllowedRecorded' /\ AllowedByOne'
  BY <1>5, <1>6 DEF Sign, tokenCache
<1>7. CASE Tick
  BY <1>5, <1>7 DEF Tick, tokenCache
<1>8. CASE Restart
  BY <1>8 DEF Restart, AllowedRecorded, Allowing, AllowedByOne, At
<1>9. CASE UNCHANGED vars
  BY <1>5, <1>9 DEF vars, tokenCache
<1>10. CASE \E t \in Threads, k \in Tokens \cup {NoToken}, p \in Proofs \cup {NoProof} :
              Arrive(t, k, p)
  BY <1>2, <1>10
<1> QED
  BY <1>2, <1>3, <1>4, <1>6, <1>7, <1>8, <1>9, <1>10 DEF Next

\* server.go allows no token twice within one window of its cache, unless the
\* entry was evicted or lost: calls that present the same token at the same
\* time are told apart under the mutex of the cache (MarkIfNew, the last check).
\* The deployed cmd/server/main.go, where MarksTokens does not hold, records
\* nothing.
THEOREM TokensAllowedOnce ==
    ASSUME MarksTokens, MaxTime <= TokenTTL
    PROVE  Spec => TokenAllowedOnce
<1>1. TypeOK /\ TypeOK' /\ OnceInv /\ [Next]_vars => OnceInv'
  BY NextOnceInv
<1>2. TypeOK /\ TypeOK' /\ OnceInv /\ [Next]_vars =>
        [\A t \in Threads : Respond(t) => call[t].token \notin answered \ forgotten]_vars
  BY RespondOnce
<1> QED
  BY TypeCorrect, InitOnceInv, <1>1, <1>2, PTL DEF Spec, TokenAllowedOnce
-----------------------------------------------------------------------------
(* The two caches inside the pipeline keep what OneTimeLedger promises: no *)
(* goroutine brings a time that has not come, and nothing else touches them.*)

ProofLedger == INSTANCE OneTimeLedger
    WITH Ids <- Proofs, Window <- ProofTTL, Capacity <- ProofMax,
         used <- proofItems, now <- clock
TokenLedger == INSTANCE OneTimeLedger
    WITH Ids <- Tokens, Window <- TokenTTL, Capacity <- TokenMax,
         used <- tokenItems, now <- clock

\* What a purge leaves is the ledger with the entries that are left alone, and
\* every entry it drops has expired (purgeExpired).
LEMMA ProofPurgeKeeps ==
    ASSUME TypeOK, NEW n \in Nat, n <= clock
    PROVE  LET kept == proofStore!Present(proofStore!Purged(n)) IN
           /\ kept \in SUBSET ProofLedger!Held /\ ProofLedger!Keeps(kept)
           /\ ProofLedger!Only(kept) = proofStore!Purged(n)
<1>1. /\ proofStore!Purged(n) \in [Proofs -> Nat \cup {proofStore!Absent}]
      /\ proofItems \in [Proofs -> Nat \cup {proofStore!Absent}]
      /\ proofStore!Absent = -1 /\ clock \in Nat
  BY ProofPurge DEF TypeOK, proofStore!StoreTypeOK, proofStore!Absent
<1>2. \A p \in Proofs : \/ proofStore!Purged(n)[p] = proofItems[p]
                   \/ /\ proofStore!Purged(n)[p] = proofStore!Absent
                      /\ proofItems[p] < n - ProofTTL
  BY ProofPurge DEF TypeOK
<1>3. proofStore!Present(proofStore!Purged(n)) \in SUBSET ProofLedger!Held
  BY <1>1, <1>2 DEF proofStore!Present, ProofLedger!Held, ProofLedger!Never
<1>4. ProofLedger!Keeps(proofStore!Present(proofStore!Purged(n)))
  BY <1>1, <1>2, StoreAssumption
     DEF proofStore!Present, ProofLedger!Keeps, ProofLedger!Held,
         ProofLedger!Expired, ProofLedger!Never
<1>5. ProofLedger!Only(proofStore!Present(proofStore!Purged(n))) = proofStore!Purged(n)
  BY <1>1, <1>2 DEF proofStore!Present, ProofLedger!Only, ProofLedger!Never
<1> QED
  BY <1>3, <1>4, <1>5

\* The same of the token cache.
LEMMA TokenPurgeKeeps ==
    ASSUME TypeOK, NEW n \in Nat, n <= clock
    PROVE  LET kept == tokenStore!Present(tokenStore!Purged(n)) IN
           /\ kept \in SUBSET TokenLedger!Held /\ TokenLedger!Keeps(kept)
           /\ TokenLedger!Only(kept) = tokenStore!Purged(n)
<1>1. /\ tokenStore!Purged(n) \in [Tokens -> Nat \cup {tokenStore!Absent}]
      /\ tokenItems \in [Tokens -> Nat \cup {tokenStore!Absent}]
      /\ tokenStore!Absent = -1 /\ clock \in Nat
  BY TokenPurge DEF TypeOK, tokenStore!StoreTypeOK, tokenStore!Absent
<1>2. \A k \in Tokens : \/ tokenStore!Purged(n)[k] = tokenItems[k]
                   \/ /\ tokenStore!Purged(n)[k] = tokenStore!Absent
                      /\ tokenItems[k] < n - TokenTTL
  BY DEF tokenStore!Purged
<1>3. tokenStore!Present(tokenStore!Purged(n)) \in SUBSET TokenLedger!Held
  BY <1>1, <1>2 DEF tokenStore!Present, TokenLedger!Held, TokenLedger!Never
<1>4. TokenLedger!Keeps(tokenStore!Present(tokenStore!Purged(n)))
  BY <1>1, <1>2, StoreAssumption
     DEF tokenStore!Present, TokenLedger!Keeps, TokenLedger!Held,
         TokenLedger!Expired, TokenLedger!Never
<1>5. TokenLedger!Only(tokenStore!Present(tokenStore!Purged(n))) = tokenStore!Purged(n)
  BY <1>1, <1>2 DEF tokenStore!Present, TokenLedger!Only, TokenLedger!Never
<1> QED
  BY <1>3, <1>4, <1>5

\* Recording a proof under a time that has come is a grant of the ledger.
LEMMA ProofGranted ==
    ASSUME TypeOK, NEW p \in Proofs, NEW n \in Nat, n <= clock,
           proofStore!RecordNew(p, n), UNCHANGED clock
    PROVE  ProofLedger!Grant
<1> DEFINE kept == proofStore!Present(proofStore!Purged(n))
<1>1. /\ kept \in SUBSET ProofLedger!Held /\ ProofLedger!Keeps(kept)
      /\ ProofLedger!Only(kept) = proofStore!Purged(n)
  BY ProofPurgeKeeps
<1>2. p \in Proofs \ kept /\ n \in 0..clock
  BY DEF proofStore!RecordNew, TypeOK
<1>3. proofStore!Full(proofStore!Purged(n)) <=> ProofLedger!Full(kept)
  BY DEF proofStore!Full, ProofLedger!Full, proofStore!Cardinality, ProofLedger!Cardinality
<1>4. CASE ~ProofLedger!Full(kept)
  <2>1. proofItems' = [ProofLedger!Only(kept) EXCEPT ![p] = n]
    BY <1>1, <1>3, <1>4 DEF proofStore!RecordNew
  <2> QED
    BY <1>1, <1>2, <1>4, <2>1 DEF ProofLedger!Grant
<1>5. CASE ProofLedger!Full(kept)
  <2>1. PICK v \in proofStore!Oldest(proofStore!Purged(n)) :
          proofItems' = [proofStore!Purged(n) EXCEPT ![v] = proofStore!Absent, ![p] = n]
    BY <1>3, <1>5 DEF proofStore!RecordNew
  <2>2. /\ v \in kept
        /\ proofItems' = [ProofLedger!Only(kept) EXCEPT ![v] = ProofLedger!Never, ![p] = n]
    BY <1>1, <2>1 DEF proofStore!Oldest, proofStore!Absent, ProofLedger!Never
  <2>3. \A l \in kept : proofStore!Purged(n)[l] = proofItems[l]
    BY ProofPurge DEF TypeOK, proofStore!Present
  <2>4. \A l \in kept : proofItems[v] <= proofItems[l]
    BY <2>1, <2>2, <2>3 DEF proofStore!Oldest
  <2> QED
    BY <1>1, <1>2, <1>5, <2>2, <2>4 DEF ProofLedger!Grant
<1> QED
  BY <1>4, <1>5

\* Recording a token is one of its ledger.
LEMMA TokenGranted ==
    ASSUME TypeOK, NEW k \in Tokens, NEW n \in Nat, n <= clock,
           tokenStore!RecordNew(k, n), UNCHANGED clock
    PROVE  TokenLedger!Grant
<1> DEFINE kept == tokenStore!Present(tokenStore!Purged(n))
<1>1. /\ kept \in SUBSET TokenLedger!Held /\ TokenLedger!Keeps(kept)
      /\ TokenLedger!Only(kept) = tokenStore!Purged(n)
  BY TokenPurgeKeeps
<1>2. k \in Tokens \ kept /\ n \in 0..clock
  BY DEF tokenStore!RecordNew, TypeOK
<1>3. tokenStore!Full(tokenStore!Purged(n)) <=> TokenLedger!Full(kept)
  BY DEF tokenStore!Full, TokenLedger!Full, tokenStore!Cardinality, TokenLedger!Cardinality
<1>4. CASE ~TokenLedger!Full(kept)
  <2>1. tokenItems' = [TokenLedger!Only(kept) EXCEPT ![k] = n]
    BY <1>1, <1>3, <1>4 DEF tokenStore!RecordNew
  <2> QED
    BY <1>1, <1>2, <1>4, <2>1 DEF TokenLedger!Grant
<1>5. CASE TokenLedger!Full(kept)
  <2>1. PICK v \in tokenStore!Oldest(tokenStore!Purged(n)) :
          tokenItems' = [tokenStore!Purged(n) EXCEPT ![v] = tokenStore!Absent, ![k] = n]
    BY <1>3, <1>5 DEF tokenStore!RecordNew
  <2>2. /\ v \in kept
        /\ tokenItems' = [TokenLedger!Only(kept) EXCEPT ![v] = TokenLedger!Never, ![k] = n]
    BY <1>1, <2>1 DEF tokenStore!Oldest, tokenStore!Absent, TokenLedger!Never
  <2>3. \A l \in kept : tokenStore!Purged(n)[l] = tokenItems[l]
    BY DEF tokenStore!Present, tokenStore!Purged
  <2>4. \A l \in kept : tokenItems[v] <= tokenItems[l]
    BY <2>1, <2>2, <2>3 DEF tokenStore!Oldest
  <2> QED
    BY <1>1, <1>2, <1>5, <2>2, <2>4 DEF TokenLedger!Grant
<1> QED
  BY <1>4, <1>5

\* What neither marks nor restarts leaves the caches alone.
LEMMA CachesLeftAlone ==
    ASSUME [Next]_vars, ~Tick, ~Restart
    PROVE  /\ UNCHANGED clock
           /\ \/ UNCHANGED proofItems
              \/ \E t \in Threads : AcceptProof(t) \/ RejectProof(t)
           /\ \/ UNCHANGED tokenItems
              \/ \E t \in Threads : AcceptToken(t) \/ RejectToken(t)
  BY DEF Next, vars, Sign, Arrive, Enter, Refuse, ReadNonce, Validate, Rotate, Stamp,
         AcceptProof, RejectProof, Authorize, AcceptToken, RejectToken, Respond,
         proofCache, tokenCache

\* The cache of proofs inside Check is a ledger of one-time identifiers, whatever
\* nonces, purges, evictions and restarts do around it (dpopProofCache).
THEOREM ProofCacheIsLedger == Spec => ProofLedger!Spec
<1>1. Init => ProofLedger!Init
  BY DEF Init, proofStore!StoreInit, proofStore!Absent, ProofLedger!Init, ProofLedger!Never
<1>2. IInv /\ [Next]_vars => [ProofLedger!Next]_<<proofItems, clock>>
  <2> SUFFICES ASSUME IInv, [Next]_vars PROVE [ProofLedger!Next]_<<proofItems, clock>>
    OBVIOUS
  <2>1. CASE Tick
    BY <2>1 DEF Tick, proofCache, IInv, TypeOK, ProofLedger!Next, ProofLedger!Pass
  <2>2. CASE Restart
    BY <2>2 DEF Restart, proofStore!Absent, ProofLedger!Next, ProofLedger!Crash,
                ProofLedger!Never
  <2>3. ASSUME NEW t \in Threads, AcceptProof(t) \/ RejectProof(t), UNCHANGED clock
        PROVE  ProofLedger!Next
    <3>1. call[t].proof \in Proofs /\ call[t].stamp \in Nat /\ call[t].stamp <= clock
      BY <2>3, CallTyped DEF AcceptProof, RejectProof, IInv, MarkingIsTimely, Marking, At, Calls
    <3>2. CASE AcceptProof(t)
      BY <2>3, <3>1, <3>2, ProofGranted DEF AcceptProof, IInv, ProofLedger!Next
    <3>3. CASE RejectProof(t)
      <4> DEFINE kept == proofStore!Present(proofStore!Purged(call[t].stamp))
      <4>1. /\ kept \in SUBSET ProofLedger!Held /\ ProofLedger!Keeps(kept)
            /\ ProofLedger!Only(kept) = proofStore!Purged(call[t].stamp)
        BY <3>1, ProofPurgeKeeps DEF IInv
      <4>2. kept # {} /\ proofItems' = ProofLedger!Only(kept)
        BY <3>3, <4>1 DEF RejectProof, proofStore!RejectReplay
      <4> QED
        BY <2>3, <4>1, <4>2 DEF ProofLedger!Next, ProofLedger!Refuse
    <3> QED
      BY <2>3, <3>2, <3>3
  <2> QED
    BY <2>1, <2>2, <2>3, CachesLeftAlone
<1> QED
  BY Inductive, <1>1, <1>2, PTL DEF Spec, ProofLedger!Spec

\* So is the cache of tokens in the program that has one (replayCache, server.go).
THEOREM TokenCacheIsLedger ==
    ASSUME MarksTokens
    PROVE  Spec => TokenLedger!Spec
<1>1. Init => TokenLedger!Init /\ TokensPresent
  BY InitOnceInv
     DEF Init, OnceInv, tokenStore!StoreInit, tokenStore!Absent, TokenLedger!Init,
         TokenLedger!Never
<1>2. TypeOK /\ TypeOK' /\ TokensPresent /\ [Next]_vars => TokensPresent'
  BY NextTokensPresent
<1>3. TypeOK /\ TokensPresent /\ [Next]_vars => [TokenLedger!Next]_<<tokenItems, clock>>
  <2> SUFFICES ASSUME TypeOK, TokensPresent, [Next]_vars
               PROVE  [TokenLedger!Next]_<<tokenItems, clock>>
    OBVIOUS
  <2>1. CASE Tick
    BY <2>1 DEF Tick, tokenCache, TypeOK, TokenLedger!Next, TokenLedger!Pass
  <2>2. CASE Restart
    BY <2>2 DEF Restart, tokenStore!Absent, TokenLedger!Next, TokenLedger!Crash,
                TokenLedger!Never
  <2>3. ASSUME NEW t \in Threads, AcceptToken(t) \/ RejectToken(t), UNCHANGED clock
        PROVE  TokenLedger!Next
    <3>1. call[t].token \in Tokens /\ call[t].stamp \in Nat /\ call[t].stamp <= clock
      BY <2>3, CallTyped DEF AcceptToken, RejectToken, TokensPresent, At, Calls
    <3>2. CASE AcceptToken(t)
      BY <2>3, <3>1, <3>2, TokenGranted DEF AcceptToken, TokenLedger!Next
    <3>3. CASE RejectToken(t)
      <4> DEFINE kept == tokenStore!Present(tokenStore!Purged(call[t].stamp))
      <4>1. /\ kept \in SUBSET TokenLedger!Held /\ TokenLedger!Keeps(kept)
            /\ TokenLedger!Only(kept) = tokenStore!Purged(call[t].stamp)
        BY <3>1, TokenPurgeKeeps
      <4>2. kept # {} /\ tokenItems' = TokenLedger!Only(kept)
        BY <3>3, <4>1 DEF RejectToken, tokenStore!RejectReplay
      <4> QED
        BY <2>3, <4>1, <4>2 DEF TokenLedger!Next, TokenLedger!Refuse
    <3> QED
      BY <2>3, <3>2, <3>3
  <2> QED
    BY <2>1, <2>2, <2>3, CachesLeftAlone
<1> QED
  BY TypeCorrect, <1>1, <1>2, <1>3, PTL DEF Spec, TokenLedger!Spec
=============================================================================
