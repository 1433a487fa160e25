-------------------------- MODULE PolicyConditions --------------------------
(***************************************************************************)
(* The constraint of a rule, and the two programs that evaluate it:        *)
(* evaluateCondition in ext_authz (internal/auth/policy.go) and            *)
(* _evaluate_constraint_detailed in the backend (backend/routes/abac.py).  *)
(* A condition is a tree of all, any and not over leaves that compare a    *)
(* fact with a value.  Texts are words, of which only the case and which   *)
(* occurs in which matter.  Left out are regular expressions, which both   *)
(* sides search alike, the minute, and facts that are no list of words     *)
(* (scopes, nested objects).                                               *)
(***************************************************************************)
EXTENDS Integers, Sequences, SequencesExt

CONSTANTS
    Claims,         \* names of claims, as written in token.<name>
    LowerCase,      \* those without an upper-case letter
    Lower,          \* Lower[w]: the word w in lower case
    PartOf,         \* <<v, w>>: the lower-case word v occurs in w
    Depth           \* Depth[c]: how deep the condition c is nested

Blank == ""

ASSUME WordAssumption ==
    LowerCase \subseteq Claims /\ Blank \in DOMAIN Lower /\ Lower[Blank] = Blank

Words == DOMAIN Lower

\* The facts that are no claims of the token.
OtherFacts == {"cert.subject", "request.method", "request.time.hour", "request.time.day_of_week"}
ASSUME FactAssumption == Claims \cap OtherFacts = {}

\* The conditions of a policy, and every part of one.  A comparison has a value.
Conditions == DOMAIN Depth
Combined == {"all", "any", "not"}
Valueless == {"exists", "not_exists"}

ASSUME DepthAssumption ==
    \A c \in Conditions :
        /\ Depth[c] \in Nat
        /\ c.of \in Seq(Conditions) /\ \A k \in DOMAIN c.of : Depth[c.of[k]] < Depth[c]
        /\ c.op = "not" => c.of # <<>>
        /\ c.value \in Seq([word : Words, number : Int])
        /\ c.op \notin Combined \cup Valueless => c.value # <<>>

\* What is compared: a word or a number.
NoNumber == -1
Word(w) == [word |-> w, number |-> NoNumber]
Number(n) == [word |-> Blank, number |-> n]
Folded(v) == [v EXCEPT !.word = Lower[@]]

\* A request: its token's claims (a claim may be missing, or an empty list), the
\* subject of its certificate, its method, and the hour of the week, in UTC.
RequestType ==
    [claims : [Claims -> [given : BOOLEAN, words : SUBSET Words]],
     cert : Words, method : Words, time : 0..(7 * 24 - 1)]

Hour(time, zone) == (time + zone) % 24
Day(time, zone) == ((time + zone) \div 24) % 7

-----------------------------------------------------------------------------
(* ext_authz.                                                              *)

\* resolveFact: no value is an error.  The name of a claim is put in lower
\* case, blank values are dropped, and the request is not passed on.
Resolve(fact, q, zone) ==
    CASE fact \in LowerCase -> {Word(w) : w \in q.claims[fact].words \ {Blank}}
      [] fact \in Claims \ LowerCase -> {}
      [] fact = "cert.subject" -> {Word(w) : w \in {q.cert} \ {Blank}}
      [] fact = "request.method" -> {Word(Blank)}
      [] fact = "request.time.hour" -> {Number(Hour(q.time, zone))}
      [] fact = "request.time.day_of_week" -> {Number(Day(q.time, zone))}

\* compareNumeric
Ordered(op, n, value) ==
    CASE op = "gt" -> n > value[1].number
      [] op = "gte" -> n >= value[1].number
      [] op = "lt" -> n < value[1].number
      [] op = "lte" -> n <= value[1].number
      [] op = "between" -> Len(value) >= 2 /\ n >= value[1].number /\ n <= value[2].number

\* Mutant of Compare: a list is in the value only if all of it is.
CompareAll(actual, op, value) ==
    CASE op = "exists" -> TRUE
      [] op = "not_exists" -> FALSE
      [] op = "eq" -> \E a \in actual : Folded(a) = Folded(value[1])
      [] op = "neq" -> \A a \in actual : Folded(a) # Folded(value[1])
      [] op = "in" -> \A a \in actual : \E v \in ToSet(value) : Folded(a) = Folded(v)
      [] op = "contains" ->
           \E a \in actual : <<Folded(value[1]).word, Folded(a).word>> \in PartOf
      [] OTHER -> \E a \in actual : a.number # NoNumber /\ Ordered(op, a.number, value)

\* compareValues
Compare(actual, op, value) ==
    CASE op = "exists" -> TRUE
      [] op = "not_exists" -> FALSE
      [] op = "eq" -> \E a \in actual : Folded(a) = Folded(value[1])
      [] op = "neq" -> \A a \in actual : Folded(a) # Folded(value[1])
      [] op = "in" -> \E a \in actual, v \in ToSet(value) : Folded(a) = Folded(v)
      [] op = "contains" ->
           \E a \in actual : <<Folded(value[1]).word, Folded(a).word>> \in PartOf
      [] OTHER -> \E a \in actual : a.number # NoNumber /\ Ordered(op, a.number, value)

\* Both programs combine conditions alike: holds says which parts hold.
Combines(c, holds) ==
    \/ c.op = "all" /\ \A k \in DOMAIN c.of : holds[c.of[k]]
    \/ c.op = "any" /\ (c.of = <<>> \/ \E k \in DOMAIN c.of : holds[c.of[k]])
    \/ c.op = "not" /\ ~holds[c.of[1]]

\* evaluateCondition, in a process whose local time is zone hours ahead of UTC.
Satisfies(c, q, zone) ==
    LET actual == Resolve(c.fact, q, zone) IN actual # {} /\ Compare(actual, c.op, c.value)

Holds(c, q, zone) ==
    LET holds[d \in Conditions] ==
            IF d.op \in Combined THEN Combines(d, holds) ELSE Satisfies(d, q, zone)
    IN  holds[c]

-----------------------------------------------------------------------------
(* The backend.                                                            *)

LocalZone == 7      \* Asia/Ho_Chi_Minh

\* _resolve_fact: whether the fact is known, and its values.
Known(fact, q) ==
    \/ fact \in Claims /\ q.claims[fact].given
    \/ fact \in {"request.method", "request.time.hour", "request.time.day_of_week"}

BackendResolve(fact, q) ==
    CASE fact \in Claims -> {Word(w) : w \in q.claims[fact].words}
      [] fact = "request.method" -> {Word(q.method)}
      [] fact = "request.time.hour" -> {Number(Hour(q.time, LocalZone))}
      [] fact = "request.time.day_of_week" -> {Number(Day(q.time, LocalZone))}

\* An operator the backend does not know, which the numeric ones but between are,
\* is satisfied.  A word that is compared as a number is an error, which refuses
\* the request; no portable condition does so.
BackendCompare(actual, op, value) ==
    CASE op = "not_exists" -> FALSE
      [] op = "eq" -> value[1] \in actual
      [] op = "neq" -> value[1] \notin actual
      [] op = "in" -> ToSet(value) \cap actual # {}
      [] op = "contains" ->
           \E a \in actual : <<Folded(value[1]).word, Folded(a).word>> \in PartOf
      [] op = "between" -> \E a \in actual : Len(value) = 2 /\ Ordered(op, a.number, value)
      [] OTHER -> TRUE

BackendSatisfies(c, q) ==
    \/ Known(c.fact, q) /\ BackendCompare(BackendResolve(c.fact, q), c.op, c.value)
    \/ ~Known(c.fact, q) /\ c.op = "not_exists"

\* Mutant of BackendHolds: the negation of a missing fact fails.
BackendHoldsStrictly(c, q) ==
    LET holds[d \in Conditions] ==
            IF d.op \in Combined
            THEN /\ Combines(d, holds)
                 /\ d.op = "not" /\ d.of[1].of = <<>> => Known(d.of[1].fact, q)
            ELSE BackendSatisfies(d, q)
    IN  holds[c]

\* _evaluate_constraint_detailed
BackendHolds(c, q) ==
    LET holds[d \in Conditions] ==
            IF d.op \in Combined THEN Combines(d, holds) ELSE BackendSatisfies(d, q)
    IN  holds[c]

-----------------------------------------------------------------------------
(* Conditions and requests both programs mean to treat alike.              *)

PortableFacts == LowerCase \cup {"request.time.hour", "request.time.day_of_week"}
PortableOps == {"exists", "eq", "neq", "in", "contains", "between"}

PortableLeaf(c) ==
    /\ c.fact \in PortableFacts /\ c.op \in PortableOps
    /\ \A v \in ToSet(c.value) : Folded(v) = v
    /\ c.op = "between" => c.fact \notin Claims /\ Len(c.value) = 2
    /\ c.op = "contains" => c.fact \in Claims

Portable(c) ==
    LET portable[d \in Conditions] ==
            IF d.op \in Combined THEN \A k \in DOMAIN d.of : portable[d.of[k]]
            ELSE PortableLeaf(d)
    IN  portable[c]

\* No claim is blank or an empty list, and none is told apart by case alone.
Plain(q) ==
    \A name \in Claims : LET claim == q.claims[name] IN
        /\ claim.given <=> claim.words # {}
        /\ \A w \in claim.words : w # Blank /\ Lower[w] = w
=============================================================================
