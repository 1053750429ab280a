--------------------------- MODULE RequestProofs ----------------------------
(***************************************************************************)
(* Theorems about Request, for any callers, registries, rate and number of *)
(* requests: a client that may read is not denied a read, and what passes  *)
(* by the limiter is bounded by what it lets through.  The second is a     *)
(* budget: a permit buys four requests and one token, and a request under  *)
(* way still holds what it has not used of it.                             *)
(*                                                                         *)
(* About Listing, for any names, contents, page size and number of         *)
(* changes: the same of its requests, that a run that has found or made    *)
(* its target project has it, that its listing of the source is wrong by   *)
(* no more than what was changed while it read the pages, and how many     *)
(* requests it sends past the limiter.                                     *)
(***************************************************************************)
EXTENDS Listing, FiniteSetTheorems, TLAPS

\* The callers at a place of doRequest.
At(place) == {c \in Callers : req[c].at = place}

\* What a request has with it when it is sent again, and what was denied.
SecondOK == \A c \in Callers : req[c].at = "second" =>
    \/ req[c].scheme = "basic" /\ registry.kind = "bare"
    \/ /\ req[c].scheme = "bearer" /\ registry.kind \in {"bearer", "both"}
       /\ \E action \in Needs[req[c].op] :
            req[c].rights = {action} \cap Entitled

\* Only an upload goes on past its first answer.
RestOK == \A c \in Callers : req[c].at \in {"patch", "close"} => req[c].op = "upload"

\* The budget: what has been spent, and what is held, was granted.
BudgetOK ==
    /\ sends + 4 * Cardinality(At("first")) + 3 * Cardinality(At("challenged"))
             + 3 * Cardinality(At("second")) + 2 * Cardinality(At("patch"))
             + Cardinality(At("close")) <= 4 * granted
    /\ asks + Cardinality(At("first")) + Cardinality(At("challenged")) <= granted
    /\ Qps > 0 => granted <= Qps + ticks

\* The inductive invariant.
IInv == RequestTypeOK /\ SecondOK /\ RestOK /\ ReadsGetThrough /\ BudgetOK

-----------------------------------------------------------------------------
\* The records of the requests.
RequestType ==
    [at: {"idle", "limit", "first", "challenged", "second", "patch", "close"},
     op: Ops, scheme: {"none", "basic", "bearer"}, rights: SUBSET AllRights,
     whole: BOOLEAN, result: {"none", "ok", "refused", "denied", "error"}]

\* The sets of callers are finite.
LEMMA AtFinite ==
  ASSUME NEW place
  PROVE  IsFiniteSet(At(place)) /\ Cardinality(At(place)) \in Nat
<1>1. At(place) \subseteq Callers
  BY DEF At
<1> QED
  BY <1>1, CallersAssumption, FS_Subset, FS_CardinalityType

\* One caller's record changes.
LEMMA OneType ==
  ASSUME IInv, NEW c \in Callers, NEW x \in RequestType,
         req' = [req EXCEPT ![c] = x]
  PROVE  /\ req' \in [Callers -> RequestType] /\ req'[c] = x
         /\ \A d \in Callers \ {c} : req'[d] = req[d]
  BY DEF IInv, RequestTypeOK, RequestType

\* A caller comes to a place, leaves it, or does neither.
LEMMA Moves ==
  ASSUME IInv, NEW c \in Callers, NEW x \in RequestType,
         req' = [req EXCEPT ![c] = x], NEW place
  PROVE  Cardinality(At(place)') = Cardinality(At(place))
            + (IF x.at = place THEN 1 ELSE 0) - (IF req[c].at = place THEN 1 ELSE 0)
<1>1. req'[c] = x /\ \A d \in Callers \ {c} : req'[d] = req[d]
  BY OneType
<1>2. IsFiniteSet(At(place)) /\ Cardinality(At(place)) \in Nat
  BY AtFinite
<1>3. CASE x.at = place /\ req[c].at = place
  <2>1. At(place)' = At(place)
    BY <1>1, <1>3 DEF At
  <2> QED
    BY <1>2, <1>3, <2>1
<1>4. CASE x.at # place /\ req[c].at # place
  <2>1. At(place)' = At(place)
    BY <1>1, <1>4 DEF At
  <2> QED
    BY <1>2, <1>4, <2>1
<1>5. CASE x.at = place /\ req[c].at # place
  <2>1. c \notin At(place) /\ At(place)' = At(place) \cup {c}
    BY <1>1, <1>5 DEF At
  <2> QED
    BY <1>2, <1>5, <2>1, FS_AddElement
<1>6. CASE x.at # place /\ req[c].at = place
  <2>1. c \in At(place) /\ At(place)' = At(place) \ {c}
    BY <1>1, <1>6 DEF At
  <2>2. Cardinality(At(place)') = Cardinality(At(place)) - 1
    BY <1>2, <2>1, FS_RemoveElement
  <2> QED
    BY <1>2, <1>6, <2>2
<1> QED
  BY <1>3, <1>4, <1>5, <1>6

\* What a place costs: the requests, and the tokens, that a caller may still
\* send from there.
Sends(place) == IF place = "first" THEN 4
                ELSE IF place \in {"challenged", "second"} THEN 3
                ELSE IF place = "patch" THEN 2
                ELSE IF place = "close" THEN 1 ELSE 0
Asks(place) == IF place \in {"first", "challenged"} THEN 1 ELSE 0

\* A step of one caller that pays for what it sends out of what it holds, or
\* of a permit.
LEMMA Pays ==
  ASSUME IInv, NEW c \in Callers, NEW x \in RequestType,
         req' = [req EXCEPT ![c] = x], UNCHANGED ticks,
         NEW s \in Nat, NEW a \in Nat, NEW p \in Nat,
         sends' = sends + s, asks' = asks + a, granted' = granted + p,
         Sends(x.at) + s <= Sends(req[c].at) + 4 * p,
         Asks(x.at) + a <= Asks(req[c].at) + p,
         Qps > 0 => granted + p <= Qps + ticks
  PROVE  BudgetOK'
<1> DEFINE n(place) == Cardinality(At(place))
           d(place) == (IF x.at = place THEN 1 ELSE 0)
                       - (IF req[c].at = place THEN 1 ELSE 0)
<1>1. /\ n("first")' = n("first") + d("first")
      /\ n("challenged")' = n("challenged") + d("challenged")
      /\ n("second")' = n("second") + d("second")
      /\ n("patch")' = n("patch") + d("patch")
      /\ n("close")' = n("close") + d("close")
  BY Moves
<1>2. /\ n("first") \in Nat /\ n("challenged") \in Nat /\ n("second") \in Nat
      /\ n("patch") \in Nat /\ n("close") \in Nat
      /\ sends \in Nat /\ asks \in Nat /\ granted \in Nat /\ ticks \in Nat
  BY AtFinite DEF IInv, RequestTypeOK
<1>3. /\ sends + 4 * n("first") + 3 * n("challenged") + 3 * n("second")
              + 2 * n("patch") + n("close") <= 4 * granted
      /\ asks + n("first") + n("challenged") <= granted
  BY DEF IInv, BudgetOK
<1>4. /\ 4 * d("first") + 3 * d("challenged") + 3 * d("second")
              + 2 * d("patch") + d("close") = Sends(x.at) - Sends(req[c].at)
      /\ d("first") + d("challenged") = Asks(x.at) - Asks(req[c].at)
  BY DEF Sends, Asks
<1>5. /\ d("first") \in {0 - 1, 0, 1} /\ d("challenged") \in {0 - 1, 0, 1}
      /\ d("second") \in {0 - 1, 0, 1} /\ d("patch") \in {0 - 1, 0, 1}
      /\ d("close") \in {0 - 1, 0, 1}
      /\ Sends(x.at) \in 0..4 /\ Sends(req[c].at) \in 0..4
      /\ Asks(x.at) \in {0, 1} /\ Asks(req[c].at) \in {0, 1}
  BY DEF Sends, Asks
<1>6. sends' + 4 * n("first")' + 3 * n("challenged")' + 3 * n("second")'
        + 2 * n("patch")' + n("close")' <= 4 * granted'
  <2> HIDE DEF n, d
  <2> QED
    BY <1>1, <1>2, <1>3, <1>4, <1>5
<1>7. asks' + n("first")' + n("challenged")' <= granted'
  <2> HIDE DEF n, d
  <2> QED
    BY <1>1, <1>2, <1>3, <1>4, <1>5
<1>8. Qps > 0 => granted' <= Qps + ticks'
  OBVIOUS
<1> QED
  BY <1>6, <1>7, <1>8 DEF BudgetOK

-----------------------------------------------------------------------------
(* The steps.                                                               *)

\* A step of one caller keeps the rest of the invariant.
LEMMA OneKeeps ==
  ASSUME IInv, NEW c \in Callers, NEW x \in RequestType,
         req' = [req EXCEPT ![c] = x], UNCHANGED <<fixed, ticks>>,
         count' \in [Callers -> 0..MaxRequests],
         NEW s \in Nat, NEW a \in Nat, NEW p \in Nat,
         sends' = sends + s, asks' = asks + a, granted' = granted + p,
         Sends(x.at) + s <= Sends(req[c].at) + 4 * p,
         Asks(x.at) + a <= Asks(req[c].at) + p,
         Qps > 0 => granted + p <= Qps + ticks,
         UNCHANGED cancelled,
         x.at = "second" =>
            \/ x.scheme = "basic" /\ registry.kind = "bare"
            \/ /\ x.scheme = "bearer" /\ registry.kind \in {"bearer", "both"}
               /\ \E action \in Needs[x.op] : x.rights = {action} \cap Entitled,
         x.at \in {"patch", "close"} => x.op = "upload",
         x.result = "denied" /\ x.op \in {"get", "catalog"} =>
            ~(Needs[x.op] \subseteq Entitled)
  PROVE  IInv'
<1>1. /\ req' \in [Callers -> RequestType] /\ req'[c] = x
      /\ \A d \in Callers \ {c} : req'[d] = req[d]
  BY OneType
<1>2. RequestTypeOK'
  BY <1>1 DEF IInv, RequestTypeOK, RequestType, fixed
<1>3. BudgetOK'
  BY Pays
<1>4. Entitled' = Entitled /\ registry' = registry
  BY DEF Entitled, fixed
<1>5. SecondOK'
  BY <1>1, <1>4 DEF IInv, SecondOK
<1>6. ReadsGetThrough'
  BY <1>1, <1>4 DEF IInv, ReadsGetThrough
<1>7. RestOK'
  BY <1>1 DEF IInv, RestOK
<1> QED
  BY <1>2, <1>3, <1>5, <1>6, <1>7 DEF IInv

\* A caller begins.
LEMMA BeginKeeps == ASSUME IInv, NEW c \in Callers, NEW op \in Ops, Begin(c, op)
                    PROVE  IInv'
<1> DEFINE x == [Idle EXCEPT !.at = "limit", !.op = op]
<1>1. x \in RequestType /\ x.at = "limit" /\ x.result = "none"
  BY DEF Idle, RequestType, AllRights
<1>2. count' \in [Callers -> 0..MaxRequests]
  BY MaxRequestsAssumption DEF Begin, IInv, RequestTypeOK
<1>3. req' = [req EXCEPT ![c] = x]
  BY DEF Begin
<1>4. /\ sends' = sends + 0 /\ asks' = asks + 0 /\ granted' = granted + 0
      /\ UNCHANGED <<fixed, ticks, cancelled>>
      /\ Qps > 0 => granted + 0 <= Qps + ticks
  BY DEF Begin, counters, IInv, RequestTypeOK, BudgetOK
<1>5. Sends(x.at) + 0 <= Sends(req[c].at) + 4 * 0 /\ Asks(x.at) + 0 <= Asks(req[c].at) + 0
  BY <1>1 DEF Sends, Asks
<1> HIDE DEF x
<1> QED
  BY <1>1, <1>2, <1>3, <1>4, <1>5, OneKeeps

\* The limiter lets a caller through.
LEMMA PermitKeeps == ASSUME IInv, NEW c \in Callers, Permit(c) PROVE IInv'
<1> DEFINE x == [req[c] EXCEPT !.at = "first", !.scheme = FirstScheme]
<1>1. req[c] \in RequestType /\ req[c].at = "limit"
  BY DEF IInv, RequestTypeOK, RequestType, Permit
<1>2. x \in RequestType /\ x.at = "first" /\ x.result = req[c].result /\ x.op = req[c].op
  BY <1>1 DEF RequestType, FirstScheme
<1>3. req' = [req EXCEPT ![c] = x] /\ count' \in [Callers -> 0..MaxRequests]
  BY DEF Permit, IInv, RequestTypeOK
<1>4. /\ sends' = sends + 0 /\ asks' = asks + 0 /\ granted' = granted + 1
      /\ UNCHANGED <<fixed, ticks, cancelled>>
      /\ Qps > 0 => granted + 1 <= Qps + ticks
  BY QpsAssumption DEF Permit, IInv, RequestTypeOK
<1>5. Sends(x.at) + 0 <= Sends(req[c].at) + 4 * 1 /\ Asks(x.at) + 0 <= Asks(req[c].at) + 1
  BY <1>1, <1>2 DEF Sends, Asks
<1>6. x.result = "denied" /\ x.op \in {"get", "catalog"} =>
         ~(Needs[x.op] \subseteq Entitled)
  BY <1>2 DEF IInv, ReadsGetThrough
<1> HIDE DEF x
<1> QED
  BY <1>2, <1>3, <1>4, <1>5, <1>6, OneKeeps

\* A request ends.
LEMMA EndsKeeps ==
  ASSUME IInv, NEW c \in Callers,
         NEW result \in {"none", "ok", "refused", "denied", "error"},
         Ends(c, result), UNCHANGED <<fixed, count, granted, ticks, cancelled>>,
         NEW s \in Nat, NEW a \in Nat, sends' = sends + s, asks' = asks + a,
         s <= Sends(req[c].at), a <= Asks(req[c].at),
         result = "denied" /\ req[c].op \in {"get", "catalog"} =>
            ~(Needs[req[c].op] \subseteq Entitled)
  PROVE  IInv'
<1> DEFINE x == [Idle EXCEPT !.op = req[c].op, !.result = result]
<1>1. req[c].op \in Ops
  BY DEF IInv, RequestTypeOK
<1>2. x \in RequestType /\ x.at = "idle" /\ x.result = result /\ x.op = req[c].op
  BY <1>1 DEF Idle, RequestType
<1>3. req' = [req EXCEPT ![c] = x]
  BY DEF Ends
<1>4. /\ granted' = granted + 0 /\ count' \in [Callers -> 0..MaxRequests]
      /\ Qps > 0 => granted + 0 <= Qps + ticks
  BY DEF IInv, RequestTypeOK, BudgetOK
<1>5. Sends(x.at) + s <= Sends(req[c].at) + 4 * 0 /\ Asks(x.at) + a <= Asks(req[c].at) + 0
  BY <1>1, <1>2 DEF Sends, Asks
<1> HIDE DEF x
<1> QED
  BY <1>2, <1>3, <1>4, <1>5, OneKeeps

\* The first answer is a 401.
LEMMA ChallengedKeeps ==
  ASSUME IInv, NEW c \in Callers, req[c].at = "first",
         req' = [req EXCEPT ![c].at = "challenged", ![c].whole = FALSE],
         sends' = sends + 1,
         UNCHANGED <<fixed, count, granted, ticks, asks, cancelled>>
  PROVE  IInv'
<1> DEFINE x == [req[c] EXCEPT !.at = "challenged", !.whole = FALSE]
<1>1. req[c] \in RequestType
  BY DEF IInv, RequestTypeOK, RequestType
<1>2. /\ x \in RequestType /\ x.at = "challenged" /\ x.result = req[c].result
      /\ x.op = req[c].op
  BY <1>1 DEF RequestType
<1>3. req' = [req EXCEPT ![c] = x]
  BY <1>1 DEF IInv, RequestTypeOK, RequestType
<1>4. /\ asks' = asks + 0 /\ granted' = granted + 0
      /\ count' \in [Callers -> 0..MaxRequests]
      /\ Qps > 0 => granted + 0 <= Qps + ticks
  BY DEF IInv, RequestTypeOK, BudgetOK
<1>5. Sends(x.at) + 1 <= Sends(req[c].at) + 4 * 0 /\ Asks(x.at) + 0 <= Asks(req[c].at) + 0
  BY <1>2 DEF Sends, Asks
<1>6. x.result = "denied" /\ x.op \in {"get", "catalog"} =>
         ~(Needs[x.op] \subseteq Entitled)
  BY <1>2 DEF IInv, ReadsGetThrough
<1> HIDE DEF x
<1> QED
  BY <1>2, <1>3, <1>4, <1>5, <1>6, OneKeeps

\* The request is made ready to be sent again.
LEMMA ReadyKeeps ==
  ASSUME IInv, NEW c \in Callers, TryBasic(c) \/ GetToken(c) PROVE IInv'
<1>1. req[c] \in RequestType /\ req[c].at = "challenged"
  BY DEF IInv, RequestTypeOK, RequestType, TryBasic, GetToken
<1>2. /\ granted' = granted + 0 /\ sends' = sends + 0
      /\ UNCHANGED <<fixed, ticks, cancelled>>
      /\ count' \in [Callers -> 0..MaxRequests]
      /\ Qps > 0 => granted + 0 <= Qps + ticks
  BY DEF IInv, RequestTypeOK, BudgetOK, TryBasic, GetToken, counters
<1>3. CASE TryBasic(c)
  <2> DEFINE x == [req[c] EXCEPT !.at = "second", !.scheme = "basic"]
  <2>1. /\ x \in RequestType /\ x.at = "second" /\ x.scheme = "basic"
        /\ x.result = req[c].result /\ x.op = req[c].op
    BY <1>1 DEF RequestType
  <2>2. req' = [req EXCEPT ![c] = x]
    BY <1>1, <1>3 DEF TryBasic, IInv, RequestTypeOK, RequestType
  <2>5. asks' = asks + 0 /\ registry.kind = "bare"
    BY <1>3 DEF TryBasic, counters, IInv, RequestTypeOK
  <2>3. Sends(x.at) + 0 <= Sends(req[c].at) + 4 * 0 /\ Asks(x.at) + 0 <= Asks(req[c].at) + 0
    BY <1>1, <2>1 DEF Sends, Asks
  <2>4. x.result = "denied" /\ x.op \in {"get", "catalog"} =>
           ~(Needs[x.op] \subseteq Entitled)
    BY <2>1 DEF IInv, ReadsGetThrough
  <2> HIDE DEF x
  <2> QED
    BY <1>2, <2>1, <2>2, <2>3, <2>4, <2>5, OneKeeps
<1>4. CASE GetToken(c)
  <2>1. registry.kind \in {"bearer", "both"} /\ asks' = asks + 1
    BY <1>4 DEF GetToken
  <2>2. PICK action \in Needs[req[c].op] :
           req' = [req EXCEPT
                     ![c].at = "second", ![c].scheme = "bearer",
                     ![c].rights = {action} \cap (registry.public \cup
                         IF creds = "full" THEN registry.account ELSE {})]
    BY <1>4 DEF GetToken
  <2>3. Entitled = registry.public \cup IF creds = "full" THEN registry.account ELSE {}
    BY <2>1 DEF Entitled
  <2>4. action \in AllRights
    BY <1>1, <2>2 DEF RequestType, Ops, Needs, AllRights
  <2> DEFINE x == [req[c] EXCEPT !.at = "second", !.scheme = "bearer",
                                 !.rights = {action} \cap Entitled]
  <2>5. /\ x \in RequestType /\ x.at = "second" /\ x.scheme = "bearer"
        /\ x.rights = {action} \cap Entitled
        /\ x.result = req[c].result /\ x.op = req[c].op
    BY <1>1, <2>4 DEF RequestType
  <2>6. req' = [req EXCEPT ![c] = x]
    BY <1>1, <2>2, <2>3 DEF IInv, RequestTypeOK, RequestType
  <2>7. Sends(x.at) + 0 <= Sends(req[c].at) + 4 * 0 /\ Asks(x.at) + 1 <= Asks(req[c].at) + 0
    BY <1>1, <2>5 DEF Sends, Asks
  <2>8. x.result = "denied" /\ x.op \in {"get", "catalog"} =>
           ~(Needs[x.op] \subseteq Entitled)
    BY <2>5 DEF IInv, ReadsGetThrough
  <2> HIDE DEF x
  <2> QED
    BY <1>2, <2>1, <2>2, <2>5, <2>6, <2>7, <2>8, OneKeeps
<1> QED
  BY <1>3, <1>4

\* A read that is denied at last: its token has all that the client may do of
\* the one right it needs, and so have its credentials.
LEMMA DeniedRead ==
  ASSUME IInv, NEW c \in Callers, req[c].at = "second",
         req[c].op \in {"get", "catalog"}, ~Allowed(req[c])
  PROVE  ~(Needs[req[c].op] \subseteq Entitled)
<1>1. PICK right : Needs[req[c].op] = {right}
  <2>1. Needs["get"] = {"pull"} /\ Needs["catalog"] = {"list"}
    BY DEF Needs
  <2> QED
    BY <2>1
<1>2. right \notin Carried(req[c])
  BY <1>1 DEF Allowed
<1>3. CASE req[c].scheme = "basic" /\ registry.kind = "bare"
  BY <1>1, <1>2, <1>3 DEF Carried, Entitled
<1>4. CASE /\ req[c].scheme = "bearer" /\ registry.kind \in {"bearer", "both"}
           /\ \E action \in Needs[req[c].op] :
                req[c].rights = {action} \cap Entitled
  BY <1>1, <1>2, <1>4 DEF Carried
<1> QED
  BY <1>3, <1>4 DEF IInv, SecondOK

\* An upload goes on to what follows its first request.
LEMMA RestKeeps ==
  ASSUME IInv, NEW c \in Callers, NEW place \in {"patch", "close"},
         req' = [req EXCEPT ![c].at = place], req[c].op = "upload",
         place = "patch" => req[c].at \in {"first", "second"},
         place = "close" => req[c].at = "patch",
         sends' = sends + 1,
         UNCHANGED <<fixed, count, granted, ticks, asks, cancelled>>
  PROVE  IInv'
<1> DEFINE x == [req[c] EXCEPT !.at = place]
<1>1. req[c] \in RequestType
  BY DEF IInv, RequestTypeOK, RequestType
<1>2. /\ x \in RequestType /\ x.at = place /\ x.result = req[c].result
      /\ x.op = "upload"
  BY <1>1 DEF RequestType
<1>3. req' = [req EXCEPT ![c] = x]
  OBVIOUS
<1>4. /\ asks' = asks + 0 /\ granted' = granted + 0
      /\ count' \in [Callers -> 0..MaxRequests]
      /\ Qps > 0 => granted + 0 <= Qps + ticks
  BY DEF IInv, RequestTypeOK, BudgetOK
<1>5. Sends(x.at) + 1 <= Sends(req[c].at) + 4 * 0 /\ Asks(x.at) + 0 <= Asks(req[c].at) + 0
  BY <1>2 DEF Sends, Asks
<1> HIDE DEF x
<1> QED
  BY <1>2, <1>3, <1>4, <1>5, OneKeeps

\* A request that is allowed is answered: it ends, or the upload goes on.
LEMMA AnsweredKeeps ==
  ASSUME IInv, NEW c \in Callers, req[c].at \in {"first", "second"}, Answered(c),
         sends' = sends + 1,
         UNCHANGED <<fixed, count, granted, ticks, asks, cancelled>>
  PROVE  IInv'
<1>1. CASE req[c].op = "upload"
  BY <1>1, RestKeeps DEF Answered
<1>2. CASE req[c].op # "upload"
  <2>1. /\ Served(req[c]) \in {"refused", "ok"} /\ Ends(c, Served(req[c]))
        /\ asks' = asks + 0
    BY <1>2 DEF IInv, RequestTypeOK, Served, Answered
  <2>2. 1 <= Sends(req[c].at) /\ 0 <= Asks(req[c].at)
    BY DEF Sends, Asks
  <2> QED
    BY <2>1, <2>2, EndsKeeps
<1> QED
  BY <1>1, <1>2

\* Every step of a caller keeps the invariant.
LEMMA CallerKeeps == ASSUME IInv, NEW c \in Callers, Step(c) PROVE IInv'
<1>1. sends \in Nat /\ asks \in Nat
  BY DEF IInv, RequestTypeOK
<1>2. CASE WaitCancelled(c) \/ NoRealm(c)
  <2>1. sends' = sends + 0 /\ asks' = asks + 0 /\ Ends(c, "error")
        /\ UNCHANGED <<fixed, count, granted, ticks, cancelled>>
    BY <1>1, <1>2 DEF WaitCancelled, NoRealm, counters
  <2>2. 0 <= Sends(req[c].at) /\ 0 <= Asks(req[c].at)
    BY DEF Sends, Asks
  <2> QED
    BY <2>1, <2>2, EndsKeeps
<1>3. CASE SendFirst(c)
  <2>1. CASE Answered(c)
    BY <1>3, <2>1, AnsweredKeeps DEF SendFirst
  <2>2. CASE req' = [req EXCEPT ![c].at = "challenged", ![c].whole = FALSE]
    BY <1>3, <2>2, ChallengedKeeps DEF SendFirst
  <2> QED
    BY <1>3, <2>1, <2>2 DEF SendFirst
<1>4. CASE SendSecond(c)
  <2>1. sends' = sends + 1 /\ asks' = asks + 0
        /\ UNCHANGED <<fixed, count, granted, ticks, cancelled>>
    BY <1>1, <1>4 DEF SendSecond
  <2>2. 1 <= Sends(req[c].at) /\ 0 <= Asks(req[c].at)
    BY <1>4 DEF SendSecond, Sends, Asks
  <2>3. CASE Allowed(req[c])
    BY <1>4, <2>3, AnsweredKeeps DEF SendSecond
  <2>4. CASE ~Allowed(req[c])
    BY <1>4, <2>1, <2>2, <2>4, EndsKeeps, DeniedRead DEF SendSecond
  <2> QED
    BY <2>3, <2>4
<1>6. CASE SendRest(c)
  <2>1. req[c].op = "upload"
    BY <1>6 DEF SendRest, IInv, RestOK
  <2>2. CASE req[c].at = "patch" /\ req' = [req EXCEPT ![c].at = "close"]
    BY <1>6, <2>1, <2>2, RestKeeps DEF SendRest
  <2>3. ASSUME NEW result \in {"ok", "denied"}, Ends(c, result) PROVE IInv'
    <3>1. sends' = sends + 1 /\ asks' = asks + 0
          /\ UNCHANGED <<fixed, count, granted, ticks, cancelled>>
      BY <1>1, <1>6 DEF SendRest
    <3>2. 1 <= Sends(req[c].at) /\ 0 <= Asks(req[c].at)
      BY <1>6 DEF SendRest, Sends, Asks
    <3> QED
      BY <2>1, <2>3, <3>1, <3>2, EndsKeeps
  <2> QED
    BY <1>6, <2>2, <2>3 DEF SendRest
<1>5. CASE Fails(c)
  <2>1. Ends(c, "error") /\ UNCHANGED <<fixed, count, granted, ticks, cancelled>>
    BY <1>5 DEF Fails
  <2>2. PICK s \in {0, 1}, a \in {0, 1} :
          /\ sends' = sends + s /\ asks' = asks + a
          /\ s <= Sends(req[c].at) /\ a <= Asks(req[c].at)
    BY <1>1, <1>5 DEF Fails, Sends, Asks
  <2> QED
    BY <2>1, <2>2, EndsKeeps
<1> QED
  BY <1>2, <1>3, <1>4, <1>5, <1>6, PermitKeeps, ReadyKeeps DEF Step

\* A bucket that has regained a permit.
LEMMA MoreTicks == \A q, g, t, u \in Nat : g <= q + t /\ u >= t => g <= q + u
  OBVIOUS

\* A permit comes back; the context is cancelled; nothing happens.
LEMMA OtherKeeps == ASSUME IInv, Refill \/ Cancel \/ UNCHANGED vars PROVE IInv'
<1>1. UNCHANGED <<req, registry, creds, count, granted, sends, asks>>
  BY DEF Refill, Cancel, vars, fixed, counters
<1>2. ticks' \in Nat /\ ticks' >= ticks /\ cancelled' \in BOOLEAN
  <2>1. ticks \in Nat /\ cancelled \in BOOLEAN
    BY DEF IInv, RequestTypeOK
  <2>2. CASE Refill
    BY <2>1, <2>2 DEF Refill
  <2>3. CASE Cancel
    BY <2>1, <2>3 DEF Cancel, counters
  <2>4. CASE UNCHANGED vars
    BY <2>1, <2>4 DEF vars
  <2> QED
    BY <2>2, <2>3, <2>4
<1>3. RequestTypeOK'
  BY <1>1, <1>2 DEF IInv, RequestTypeOK
<1>4. SecondOK' /\ RestOK' /\ ReadsGetThrough'
  BY <1>1 DEF IInv, SecondOK, RestOK, ReadsGetThrough, Entitled
<1>5. /\ At("first")' = At("first") /\ At("challenged")' = At("challenged")
      /\ At("second")' = At("second") /\ At("patch")' = At("patch")
      /\ At("close")' = At("close")
  BY <1>1 DEF At
<1>6. Qps > 0 => granted' <= Qps + ticks'
  <2>1. granted \in Nat /\ ticks \in Nat /\ (Qps > 0 => granted <= Qps + ticks)
    BY DEF IInv, BudgetOK, RequestTypeOK
  <2>2. granted' = granted
    BY <1>1
  <2> QED
    BY <1>2, <2>1, <2>2, QpsAssumption, MoreTicks
<1>7. BudgetOK'
  BY <1>1, <1>5, <1>6 DEF IInv, BudgetOK
<1> QED
  BY <1>3, <1>4, <1>7 DEF IInv

\* Every step keeps the invariant.
LEMMA StepKeeps == IInv /\ [Next]_vars => IInv'
  BY BeginKeeps, CallerKeeps, OtherKeeps DEF Next

\* At first nothing is spent and nothing is held.
LEMMA InitOK == Init => IInv
<1> SUFFICES ASSUME Init PROVE IInv
  OBVIOUS
<1>1. Idle \in RequestType /\ Idle.at = "idle" /\ Idle.result = "none"
  BY DEF Idle, RequestType, Ops, Needs
<1>2. \A c \in Callers : req[c] = Idle
  BY DEF Init
<1>3. RequestTypeOK
  <2>1. req \in [Callers -> RequestType]
    BY <1>1 DEF Init
  <2>2. count \in [Callers -> 0..MaxRequests]
    BY MaxRequestsAssumption DEF Init
  <2> QED
    BY <2>1, <2>2 DEF Init, RequestTypeOK, RequestType
<1>4. SecondOK /\ RestOK /\ ReadsGetThrough
  BY <1>1, <1>2 DEF SecondOK, RestOK, ReadsGetThrough
<1>5. /\ At("first") = {} /\ At("challenged") = {} /\ At("second") = {}
      /\ At("patch") = {} /\ At("close") = {}
  BY <1>1, <1>2 DEF At
<1>6. BudgetOK
  BY <1>5, FS_EmptySet, QpsAssumption DEF Init, BudgetOK
<1> QED
  BY <1>3, <1>4, <1>6 DEF IInv

-----------------------------------------------------------------------------
\* The inductive invariant of the requests of a client.
THEOREM Invariance == Spec => []IInv
<1> QED
  BY InitOK, StepKeeps, PTL DEF Spec

\* The variables of the requests keep their types.
THEOREM TypeCorrect == Spec => []RequestTypeOK
<1>1. IInv => RequestTypeOK
  BY DEF IInv
<1> QED
  BY <1>1, Invariance, PTL

\* Nobody who may read is denied a read.
THEOREM ReadsSucceed == Spec => []ReadsGetThrough
<1>1. IInv => ReadsGetThrough
  BY DEF IInv
<1> QED
  BY <1>1, Invariance, PTL

\* One permit lets through at most four requests, those of an upload among
\* them, and one for a token.
THEOREM RateBounded == Spec => []RateKept
<1>1. IInv => RateKept
  <2> SUFFICES ASSUME IInv PROVE RateKept
    OBVIOUS
  <2>1. /\ Cardinality(At("first")) \in Nat /\ Cardinality(At("challenged")) \in Nat
        /\ Cardinality(At("second")) \in Nat /\ Cardinality(At("patch")) \in Nat
        /\ Cardinality(At("close")) \in Nat
    BY AtFinite
  <2> QED
    BY <2>1 DEF IInv, BudgetOK, RequestTypeOK, RateKept
<1> QED
  BY <1>1, Invariance, PTL

-----------------------------------------------------------------------------
(* The listings, which are made of such requests.                           *)

\* Every step of a listing is a step of the requests, or none of theirs.
LEMMA ListingSteps == [ListingNext]_allVars => [Next]_vars
<1> SUFFICES ASSUME ListingNext PROVE [Next]_vars
  BY DEF allVars
<1>1. Lister \in Callers /\ TransferOps \subseteq Ops
  BY ListingAssumption
<1>2. "catalog" \in Ops
  BY DEF Ops, Needs
<1>3. CASE ReadPage \/ Create \/ CreateFails \/ Inserted \/ Deleted
  BY <1>3 DEF ReadPage, Create, CreateFails, Inserted, Deleted
<1>4. CASE PagesFail
  BY <1>1, <1>2, <1>4 DEF PagesFail, Next
<1>5. CASE ReadCatalog
  BY <1>1, <1>5 DEF ReadCatalog, Next
<1>6. ASSUME NEW c \in Callers, Transfer(c) PROVE Next
  BY <1>1, <1>6 DEF Transfer, Next
<1>7. CASE Time
  BY <1>7 DEF Time, Next
<1> QED
  BY <1>3, <1>4, <1>5, <1>6, <1>7 DEF ListingNext, ListerStep

\* So what was shown of the requests of a client holds beside a listing.
THEOREM ListingRequests == ListingSpec => [](ReadsGetThrough /\ RateKept)
<1>1. ListingInit => Init
  BY DEF ListingInit
<1> QED
  BY <1>1, ListingSteps, ReadsSucceed, RateBounded, PTL DEF ListingSpec, Spec

\* The elements of a piece of a sequence, of two in a row, and of one element.
LEMMA Piece ==
  ASSUME NEW S, NEW s \in Seq(S), NEW a \in Nat \ {0}, NEW b \in Nat, b <= Len(s)
  PROVE  SubSeq(s, a, b) \in Seq(S) /\ ToSet(SubSeq(s, a, b)) \subseteq ToSet(s)
<1>1. SubSeq(s, a, b) \in Seq(S)
  BY a..b \subseteq 1..Len(s)
<1>2. \A k \in DOMAIN SubSeq(s, a, b) :
         SubSeq(s, a, b)[k] = s[a + k - 1] /\ a + k - 1 \in DOMAIN s
  OBVIOUS
<1> QED
  BY <1>1, <1>2 DEF ToSet

LEMMA InARow ==
  ASSUME NEW S, NEW s \in Seq(S), NEW t \in Seq(S)
  PROVE  s \o t \in Seq(S) /\ ToSet(s \o t) = ToSet(s) \cup ToSet(t)
<1>1. s \o t \in Seq(S) /\ Len(s \o t) = Len(s) + Len(t)
  OBVIOUS
<1>2. ToSet(s \o t) \subseteq ToSet(s) \cup ToSet(t)
  BY <1>1 DEF ToSet
<1>3. \A k \in DOMAIN s : k \in DOMAIN (s \o t) /\ (s \o t)[k] = s[k]
  BY <1>1
<1>4. \A k \in DOMAIN t :
         k + Len(s) \in DOMAIN (s \o t) /\ (s \o t)[k + Len(s)] = t[k]
  BY <1>1
<1>5. ToSet(s) \subseteq ToSet(s \o t)
  <2> SUFFICES ASSUME NEW k \in DOMAIN s PROVE s[k] \in ToSet(s \o t)
    BY DEF ToSet
  <2> QED
    BY <1>3 DEF ToSet
<1>6. ToSet(t) \subseteq ToSet(s \o t)
  <2> SUFFICES ASSUME NEW k \in DOMAIN t PROVE t[k] \in ToSet(s \o t)
    BY DEF ToSet
  <2> QED
    BY <1>4 DEF ToSet
<1> QED
  BY <1>1, <1>2, <1>5, <1>6

\* The elements of a sequence with one more, and with one less.
LEMMA OneMore ==
  ASSUME NEW S, NEW s \in Seq(S), NEW e \in S, NEW i \in 1..(Len(s) + 1)
  PROVE  InsertAt(s, i, e) \in Seq(S) /\ ToSet(InsertAt(s, i, e)) = ToSet(s) \cup {e}
<1> DEFINE before == SubSeq(s, 1, i - 1)
           after == SubSeq(s, i, Len(s))
<1>1. before \in Seq(S) /\ ToSet(before) \subseteq ToSet(s)
  BY Piece, i - 1 \in Nat, i - 1 <= Len(s), 1 \in Nat \ {0}
<1>2. after \in Seq(S) /\ ToSet(after) \subseteq ToSet(s)
  BY Piece, i \in Nat \ {0}, Len(s) \in Nat, Len(s) <= Len(s)
<1>3. ToSet(s) \subseteq ToSet(before) \cup ToSet(after)
  <2> SUFFICES ASSUME NEW k \in DOMAIN s PROVE s[k] \in ToSet(before) \cup ToSet(after)
    BY Zenon DEF ToSet
  <2>1. CASE k < i
    <3>1. k \in DOMAIN before /\ before[k] = s[k]
      BY <2>1
    <3> QED
      BY <3>1 DEF ToSet
  <2>2. CASE k >= i
    <3>1. k - i + 1 \in DOMAIN after /\ after[k - i + 1] = s[k]
      BY <2>2
    <3> QED
      BY <3>1 DEF ToSet
  <2> QED
    BY <2>1, <2>2
<1>4. <<e>> \in Seq(S) /\ ToSet(<<e>>) = {e}
  BY DEF ToSet
<1>5. /\ before \o <<e>> \in Seq(S)
      /\ ToSet(before \o <<e>>) = ToSet(before) \cup {e}
  <2> HIDE DEF before
  <2> DEFINE one == <<e>>
  <2>1. one \in Seq(S) /\ ToSet(one) = {e}
    BY <1>4
  <2> HIDE DEF one
  <2>2. before \o one \in Seq(S) /\ ToSet(before \o one) = ToSet(before) \cup ToSet(one)
    BY <1>1, <2>1, InARow
  <2> QED
    BY <2>1, <2>2 DEF one
<1>6. /\ (before \o <<e>>) \o after \in Seq(S)
      /\ ToSet((before \o <<e>>) \o after) = ToSet(before \o <<e>>) \cup ToSet(after)
  <2> DEFINE front == before \o <<e>>
  <2>1. front \in Seq(S)
    BY <1>5
  <2> HIDE DEF before, after, front
  <2>2. front \o after \in Seq(S) /\ ToSet(front \o after) = ToSet(front) \cup ToSet(after)
    BY <1>2, <2>1, InARow
  <2> QED
    BY <2>2 DEF front
<1>7. InsertAt(s, i, e) = (before \o <<e>>) \o after
  BY DEF InsertAt
<1> HIDE DEF before, after
<1> QED
  BY <1>1, <1>2, <1>3, <1>5, <1>6, <1>7

LEMMA OneLess ==
  ASSUME NEW S, NEW s \in Seq(S), NEW i \in DOMAIN s
  PROVE  RemoveAt(s, i) \in Seq(S) /\ ToSet(RemoveAt(s, i)) \subseteq ToSet(s)
<1> DEFINE before == SubSeq(s, 1, i - 1)
           after == SubSeq(s, i + 1, Len(s))
<1>1. before \in Seq(S) /\ ToSet(before) \subseteq ToSet(s)
  BY Piece, i - 1 \in Nat, i - 1 <= Len(s), 1 \in Nat \ {0}
<1>2. after \in Seq(S) /\ ToSet(after) \subseteq ToSet(s)
  BY Piece, i + 1 \in Nat \ {0}, Len(s) \in Nat, Len(s) <= Len(s)
<1>3. before \o after \in Seq(S) /\ ToSet(before \o after) = ToSet(before) \cup ToSet(after)
  BY <1>1, <1>2, InARow
<1>4. RemoveAt(s, i) = before \o after
  BY DEF RemoveAt
<1> HIDE DEF before, after
<1> QED
  BY <1>1, <1>2, <1>3, <1>4

\* A page is a piece of the content.
LEMMA PageIsPiece ==
  ASSUME NEW p \in Nat \ {0}, content \in Seq(Names)
  PROVE  Page(p) \in Seq(Names) /\ ToSet(Page(p)) \subseteq ToSet(content)
<1>1. PageSize \in Nat
  BY ListingAssumption
<1>2. (p - 1) * PageSize \in Nat /\ p * PageSize \in Nat
  <2>1. \A x, y \in Nat : x * y \in Nat
    OBVIOUS
  <2> QED
    BY <1>1, <2>1, p - 1 \in Nat
<1> DEFINE from == (p - 1) * PageSize + 1
           to == IF p * PageSize < Len(content) THEN p * PageSize ELSE Len(content)
<1>3. from \in Nat \ {0}
  BY <1>2
<1>4. to \in Nat /\ to <= Len(content)
  BY <1>2
<1>5. Page(p) = SubSeq(content, from, to)
  BY DEF Page
<1> HIDE DEF from, to
<1> QED
  BY <1>3, <1>4, <1>5, Piece

\* Only names that have been in the content are listed, and what has been
\* there is there unless something was deleted.
ListingInv ==
    /\ content \in Seq(Names) /\ listed \in Seq(Names)
    /\ page \in Nat \ {0} /\ deletions \in Nat
    /\ ToSet(content) \subseteq seen /\ ToSet(listed) \subseteq seen
    /\ deletions = 0 => seen \subseteq ToSet(content)
    /\ verdict \in {"exists", "created"} => Wanted \in seen

LEMMA ListingInitOK == ListingInit => ListingInv
<1> SUFFICES ASSUME ListingInit PROVE ListingInv
  OBVIOUS
<1>1. <<>> \in Seq(Names) /\ ToSet(<<>>) = {}
  BY DEF ToSet
<1>2. content \in Seq(Names)
  BY <1>1, ListingAssumption DEF ListingInit
<1> QED
  BY <1>1, <1>2 DEF ListingInit, ListingInv

\* Names of the content are taken over.
LEMMA KnownKeeps ==
  ASSUME ListingInv, NEW names \in Seq(Names), ToSet(names) \subseteq seen,
         Known(names), verdict' = verdict \/ verdict' \in {"listed", "exists"}
  PROVE  /\ listed' \in Seq(Names) /\ ToSet(listed') \subseteq seen
         /\ verdict' \in {"exists", "created"} => Wanted \in seen
<1>1. listed' = names
  BY DEF Known
<1>2. verdict' \in {"exists", "created"} => Wanted \in seen
  BY DEF Known, ListingInv
<1> QED
  BY <1>1, <1>2

\* A name is added.
LEMMA InsertKeeps ==
  ASSUME ListingInv, NEW n \in Names, InsertName(n)
  PROVE  /\ content' \in Seq(Names) /\ ToSet(content') \subseteq seen'
         /\ seen \subseteq seen' /\ n \in seen'
         /\ deletions' = deletions
         /\ deletions = 0 => seen' \subseteq ToSet(content')
<1>1. PICK i \in 1..(Len(content) + 1) : content' = InsertAt(content, i, n)
  BY DEF InsertName
<1>2. content' \in Seq(Names) /\ ToSet(content') = ToSet(content) \cup {n}
  BY <1>1, OneMore DEF ListingInv
<1>3. seen' = seen \cup {n} /\ deletions' = deletions
  BY DEF InsertName
<1> QED
  BY <1>2, <1>3 DEF ListingInv

LEMMA ListingStepKeeps == ListingInv /\ [ListingNext]_allVars => ListingInv'
<1> SUFFICES ASSUME ListingInv, [ListingNext]_allVars PROVE ListingInv'
  OBVIOUS
<1>1. CASE ReadPage
  <2>1. Page(page) \in Seq(Names) /\ ToSet(Page(page)) \subseteq seen
    BY PageIsPiece DEF ListingInv
  <2>2. /\ listed \o Page(page) \in Seq(Names)
        /\ ToSet(listed \o Page(page)) \subseteq seen
    <3>1. listed \in Seq(Names) /\ ToSet(listed) \subseteq seen
      BY DEF ListingInv
    <3> QED
      BY <2>1, <3>1, InARow
  <2>3. UNCHANGED contentVars
    BY <1>1 DEF ReadPage
  <2>4. CASE Known(listed \o Page(page)) /\ UNCHANGED page
    <3>1. verdict' = verdict \/ verdict' \in {"listed", "exists"}
      BY <2>4 DEF Known
    <3> QED
      BY <2>2, <2>3, <2>4, <3>1, KnownKeeps DEF ListingInv, contentVars
  <2>5. CASE /\ listed' = listed \o Page(page) /\ page' = page + 1
             /\ UNCHANGED <<stage, verdict>>
    BY <2>2, <2>3, <2>5 DEF ListingInv, contentVars
  <2> QED
    BY <1>1, <2>4, <2>5 DEF ReadPage
<1>2. CASE PagesFail
  <2>1. <<>> \in Seq(Names) /\ ToSet(<<>>) = {}
    BY DEF ToSet
  <2> QED
    BY <1>2, <2>1 DEF PagesFail, ListingInv, contentVars
<1>3. CASE ReadCatalog
  <2>1. UNCHANGED <<content, seen, deletions, page>>
    BY <1>3 DEF ReadCatalog, contentVars
  <2>2. CASE UNCHANGED <<listed, verdict>>
    BY <2>1, <2>2 DEF ListingInv
  <2>3. ASSUME NEW room \in 0..Len(content),
               Known(listed \o SubSeq(content, 1, room))
        PROVE  ListingInv'
    <3>1. /\ SubSeq(content, 1, room) \in Seq(Names)
          /\ ToSet(SubSeq(content, 1, room)) \subseteq seen
      BY Piece, 1 \in Nat \ {0}, room \in Nat, room <= Len(content) DEF ListingInv
    <3>2. /\ listed \o SubSeq(content, 1, room) \in Seq(Names)
          /\ ToSet(listed \o SubSeq(content, 1, room)) \subseteq seen
      <4>1. listed \in Seq(Names) /\ ToSet(listed) \subseteq seen
        BY DEF ListingInv
      <4> DEFINE piece == SubSeq(content, 1, room)
      <4> HIDE DEF piece
      <4>2. piece \in Seq(Names) =>
              /\ listed \o piece \in Seq(Names)
              /\ ToSet(listed \o piece) = ToSet(listed) \cup ToSet(piece)
        BY <4>1, InARow
      <4> QED
        BY <3>1, <4>1, <4>2 DEF piece
    <3>3. verdict' = verdict \/ verdict' \in {"listed", "exists"}
      BY <2>3 DEF Known
    <3> QED
      BY <2>1, <2>3, <3>2, <3>3, KnownKeeps DEF ListingInv
  <2>4. CASE UNCHANGED listed /\ verdict' \in {"unknown", "error"}
    BY <2>1, <2>4 DEF ListingInv
  <2> QED
    BY <1>3, <2>2, <2>3, <2>4 DEF ReadCatalog, CatalogAnswer
<1>4. CASE Create
  <2>1. UNCHANGED <<page, listed>> /\ verdict' = "created"
    BY <1>4 DEF Create
  <2>2. CASE Wanted \in ToSet(content) /\ UNCHANGED <<content, stayed, seen, deletions>>
    BY <2>1, <2>2 DEF ListingInv
  <2>3. CASE InsertName(Wanted)
    <3>1. Wanted \in Names
      BY ListingAssumption
    <3> QED
      BY <2>1, <2>3, <3>1, InsertKeeps DEF ListingInv
  <2> QED
    BY <1>4, <2>2, <2>3 DEF Create
<1>5. CASE CreateFails
  <2>1. UNCHANGED <<page, listed>> /\ verdict' = "error"
    BY <1>5 DEF CreateFails
  <2>2. CASE UNCHANGED contentVars
    BY <2>1, <2>2 DEF ListingInv, contentVars
  <2>3. CASE InsertName(Wanted)
    <3>1. Wanted \in Names
      BY ListingAssumption
    <3> QED
      BY <2>1, <2>3, <3>1, InsertKeeps DEF ListingInv
  <2> QED
    BY <1>5, <2>2, <2>3 DEF CreateFails
<1>6. CASE Inserted
  <2>1. UNCHANGED <<page, listed, verdict>>
    BY <1>6 DEF Inserted, listVars
  <2>2. PICK n \in Names : InsertName(n)
    BY <1>6 DEF Inserted
  <2> QED
    BY <2>1, <2>2, InsertKeeps DEF ListingInv
<1>7. CASE Deleted
  <2>1. UNCHANGED <<page, listed, verdict, seen>> /\ deletions' = deletions + 1
    BY <1>7 DEF Deleted, listVars
  <2>2. PICK i \in DOMAIN content : content' = RemoveAt(content, i)
    BY <1>7 DEF Deleted
  <2>3. content' \in Seq(Names) /\ ToSet(content') \subseteq ToSet(content)
    BY <2>2, OneLess DEF ListingInv
  <2>4. deletions' \in Nat /\ deletions' # 0
    BY <2>1 DEF ListingInv
  <2> QED
    BY <2>1, <2>3, <2>4 DEF ListingInv
<1>8. CASE (\E c \in Callers : Transfer(c)) \/ Time \/ UNCHANGED allVars
  BY <1>8 DEF Transfer, Time, ListingInv, allVars, listVars, contentVars
<1> QED
  BY <1>1, <1>2, <1>3, <1>4, <1>5, <1>6, <1>7, <1>8 DEF ListingNext, ListerStep

\* A run goes on with a project only when it is there.
THEOREM ProjectsEnsured == ListingSpec => []ProjectEnsured
<1>1. ListingInv => ProjectEnsured
  BY DEF ListingInv, ProjectEnsured
<1> QED
  BY <1>1, ListingInitOK, ListingStepKeeps, PTL DEF ListingSpec

-----------------------------------------------------------------------------
(* What the listing of the pages misses and repeats.                        *)

\* What is in a sequence up to a place, behind it, and from one to another.
Before(s, q) == {s[k] : k \in {k \in DOMAIN s : k <= q}}
After(s, q) == {s[k] : k \in {k \in DOMAIN s : k > q}}
Span(s, a, b) == {s[k] : k \in a..b}

\* A sequence has at most as many elements as places.
LEMMA SeqCount ==
  ASSUME NEW S, NEW s \in Seq(S)
  PROVE  /\ IsFiniteSet(ToSet(s)) /\ Cardinality(ToSet(s)) \in Nat
         /\ Cardinality(ToSet(s)) <= Len(s)
         /\ IsInjective(s) => Cardinality(ToSet(s)) = Len(s)
<1> DEFINE n == Len(s)
<1>0. n \in Nat
  OBVIOUS
<1>1. IsFiniteSet(1..Len(s)) /\ Cardinality(1..Len(s)) = Len(s)
  <2> HIDE DEF n
  <2>1. IsFiniteSet(1..n) /\ Cardinality(1..n) = n
    BY <1>0, FS_Interval
  <2> QED
    BY <2>1 DEF n
<1>2. s \in Surjection(1..Len(s), ToSet(s))
  BY DEF Surjection, ToSet
<1>3. /\ IsFiniteSet(ToSet(s)) /\ Cardinality(ToSet(s)) <= Len(s)
      /\ Cardinality(ToSet(s)) = Len(s) <=> s \in Injection(1..Len(s), ToSet(s))
  BY <1>1, <1>2, FS_Surjection
<1>4. IsInjective(s) => s \in Injection(1..Len(s), ToSet(s))
  BY <1>2 DEF Injection, Surjection
<1> QED
  BY <1>3, <1>4, FS_CardinalityType

\* The two parts of a sequence.
LEMMA Parts ==
  ASSUME NEW S, NEW s \in Seq(S), NEW q \in Nat
  PROVE  /\ ToSet(s) = Before(s, q) \cup After(s, q)
         /\ IsFiniteSet(Before(s, q)) /\ IsFiniteSet(After(s, q))
<1>1. Before(s, q) \subseteq ToSet(s) /\ After(s, q) \subseteq ToSet(s)
  BY DEF Before, After, ToSet
<1>2. IsFiniteSet(Before(s, q)) /\ IsFiniteSet(After(s, q))
  BY <1>1, SeqCount, FS_Subset
<1> QED
  BY <1>1, <1>2 DEF Before, After, ToSet

\* A piece of a sequence.
LEMMA PieceAt ==
  ASSUME NEW S, NEW s \in Seq(S), NEW q \in Nat, NEW b \in Nat, b <= Len(s)
  PROVE  LET piece == SubSeq(s, q + 1, b)
         IN  /\ Len(piece) = IF q < b THEN b - q ELSE 0
             /\ ToSet(piece) = Span(s, q + 1, b)
             /\ IsInjective(s) => IsInjective(piece)
<1> DEFINE piece == SubSeq(s, q + 1, b)
<1>1. /\ Len(piece) = IF q < b THEN b - q ELSE 0
      /\ DOMAIN piece = 1..Len(piece)
      /\ \A k \in DOMAIN piece : piece[k] = s[q + k] /\ q + k \in (q + 1)..b
  OBVIOUS
<1>2. (q + 1)..b \subseteq DOMAIN s
  OBVIOUS
<1>3. \A k \in (q + 1)..b : k - q \in DOMAIN piece /\ piece[k - q] = s[k]
  OBVIOUS
<1> HIDE DEF piece
<1>4. ToSet(piece) = {s[k] : k \in (q + 1)..b}
  <2>1. ToSet(piece) \subseteq {s[k] : k \in (q + 1)..b}
    BY <1>1 DEF ToSet
  <2>2. {s[k] : k \in (q + 1)..b} \subseteq ToSet(piece)
    BY <1>3, Zenon DEF ToSet
  <2> QED
    BY <2>1, <2>2
<1>5. ASSUME IsInjective(s) PROVE IsInjective(piece)
  <2> SUFFICES ASSUME NEW j \in DOMAIN piece, NEW k \in DOMAIN piece,
                      piece[j] = piece[k]
               PROVE  j = k
    BY DEF IsInjective
  <2>1. q + j = q + k
    BY <1>1, <1>2, <1>5 DEF IsInjective
  <2> QED
    BY <1>1, <2>1
<1> QED
  BY <1>1, <1>4, <1>5 DEF piece, Span

\* A sequence with one more element, place by place.
LEMMA Insertion ==
  ASSUME NEW S, NEW s \in Seq(S), NEW e \in S, NEW i \in 1..(Len(s) + 1)
  PROVE  /\ InsertAt(s, i, e) \in Seq(S) /\ Len(InsertAt(s, i, e)) = Len(s) + 1
         /\ \A k \in 1..(Len(s) + 1) : InsertAt(s, i, e)[k] =
               IF k < i THEN s[k] ELSE IF k = i THEN e ELSE s[k - 1]
<1> DEFINE before == SubSeq(s, 1, i - 1)
           after == SubSeq(s, i, Len(s))
<1>1. /\ before \in Seq(S) /\ Len(before) = i - 1
      /\ \A k \in 1..(i - 1) : before[k] = s[k]
  OBVIOUS
<1>2. /\ after \in Seq(S) /\ Len(after) = Len(s) - i + 1
      /\ \A k \in 1..(Len(s) - i + 1) : after[k] = s[k + i - 1]
  OBVIOUS
<1>3. InsertAt(s, i, e) = (before \o <<e>>) \o after
  BY DEF InsertAt
<1> HIDE DEF before, after
<1>4. /\ before \o <<e>> \in Seq(S) /\ Len(before \o <<e>>) = i
      /\ \A k \in 1..(i - 1) : (before \o <<e>>)[k] = before[k]
      /\ (before \o <<e>>)[i] = e
  BY <1>1
<1> DEFINE front == before \o <<e>>
<1> HIDE DEF front
<1>5. front \in Seq(S) /\ Len(front) = i
  BY <1>4 DEF front
<1>6. /\ front \o after \in Seq(S) /\ Len(front \o after) = Len(s) + 1
      /\ \A k \in 1..i : (front \o after)[k] = front[k]
      /\ \A k \in (i + 1)..(Len(s) + 1) : (front \o after)[k] = after[k - i]
  <2>1. front \o after \in Seq(S) /\ Len(front \o after) = Len(s) + 1
    BY <1>2, <1>5
  <2>2. \A k \in 1..i : (front \o after)[k] = front[k]
    BY <1>2, <1>5
  <2>3. \A k \in (i + 1)..(Len(s) + 1) : (front \o after)[k] = after[k - i]
    BY <1>2, <1>5
  <2> QED
    BY <2>1, <2>2, <2>3
<1>7. ASSUME NEW k \in 1..(Len(s) + 1)
      PROVE  (front \o after)[k] = IF k < i THEN s[k] ELSE IF k = i THEN e ELSE s[k - 1]
  <2>1. CASE k < i
    BY <1>1, <1>4, <1>6, <2>1 DEF front
  <2>2. CASE k = i
    BY <1>4, <1>6, <2>2 DEF front
  <2>3. CASE k > i
    <3>1. k \in (i + 1)..(Len(s) + 1) /\ k - i \in 1..(Len(s) - i + 1)
          /\ (k - i) + i - 1 = k - 1
      BY <2>3
    <3> QED
      BY <1>2, <1>6, <2>3, <3>1
  <2>4. k < i \/ k = i \/ k > i
    OBVIOUS
  <2> HIDE DEF front
  <2> QED
    BY ONLY <2>1, <2>2, <2>3, <2>4
<1>8. InsertAt(s, i, e) = front \o after
  BY <1>3 DEF front
<1> QED
  BY <1>6, <1>7, <1>8

\* A sequence with one element less, place by place.
LEMMA Removal ==
  ASSUME NEW S, NEW s \in Seq(S), NEW i \in DOMAIN s
  PROVE  /\ RemoveAt(s, i) \in Seq(S) /\ Len(RemoveAt(s, i)) = Len(s) - 1
         /\ \A k \in 1..(Len(s) - 1) :
               RemoveAt(s, i)[k] = IF k < i THEN s[k] ELSE s[k + 1]
<1> DEFINE before == SubSeq(s, 1, i - 1)
           after == SubSeq(s, i + 1, Len(s))
<1>1. /\ before \in Seq(S) /\ Len(before) = i - 1
      /\ \A k \in 1..(i - 1) : before[k] = s[k]
  OBVIOUS
<1>2. /\ after \in Seq(S) /\ Len(after) = Len(s) - i
      /\ \A k \in 1..(Len(s) - i) : after[k] = s[k + i]
  OBVIOUS
<1>3. RemoveAt(s, i) = before \o after
  BY DEF RemoveAt
<1> HIDE DEF before, after
<1>4. /\ before \o after \in Seq(S) /\ Len(before \o after) = Len(s) - 1
      /\ \A k \in 1..(i - 1) : (before \o after)[k] = before[k]
      /\ \A k \in i..(Len(s) - 1) : (before \o after)[k] = after[k - (i - 1)]
  BY <1>1, <1>2
<1>5. ASSUME NEW k \in 1..(Len(s) - 1)
      PROVE  (before \o after)[k] = IF k < i THEN s[k] ELSE s[k + 1]
  <2>1. CASE k < i
    BY <1>1, <1>4, <2>1
  <2>2. CASE k >= i
    <3>1. k \in i..(Len(s) - 1) /\ k - (i - 1) \in 1..(Len(s) - i)
          /\ (k - (i - 1)) + i = k + 1
      BY <2>2
    <3>2. (before \o after)[k] = after[k - (i - 1)]
      BY <1>4, <3>1
    <3>3. after[k - (i - 1)] = s[k + 1]
      BY <1>2, <3>1
    <3> QED
      BY <2>2, <3>2, <3>3
  <2>3. k < i \/ k >= i
    OBVIOUS
  <2> QED
    BY ONLY <2>1, <2>2, <2>3
<1> QED
  BY <1>3, <1>4, <1>5

\* An insertion moves at most one element behind the place q.
LEMMA InsertionShifts ==
  ASSUME NEW S, NEW s \in Seq(S), NEW e \in S, e \notin ToSet(s), IsInjective(s),
         NEW i \in 1..(Len(s) + 1), NEW q \in Nat
  PROVE  LET t == InsertAt(s, i, e)
         IN  /\ IsInjective(t)
             /\ Before(t, q) \subseteq Before(s, q) \cup {e}
             /\ \E x : After(t, q) \subseteq After(s, q) \cup {x}
<1> DEFINE t == InsertAt(s, i, e)
<1>1. /\ DOMAIN t = 1..(Len(s) + 1)
      /\ \A k \in DOMAIN t :
           t[k] = IF k < i THEN s[k] ELSE IF k = i THEN e ELSE s[k - 1]
  <2>1. t \in Seq(S) /\ Len(t) = Len(s) + 1
    BY Insertion
  <2>2. DOMAIN t = 1..(Len(s) + 1)
    <3> HIDE DEF t
    <3> QED
      BY <2>1
  <2> QED
    <3>1. \A k \in 1..(Len(s) + 1) :
             t[k] = IF k < i THEN s[k] ELSE IF k = i THEN e ELSE s[k - 1]
      BY Insertion
    <3> HIDE DEF t
    <3> QED
      BY <2>2, <3>1
<1> HIDE DEF t
<1>2. \A k \in DOMAIN t : /\ k < i => k \in DOMAIN s
                          /\ k > i => k - 1 \in DOMAIN s
  BY <1>1
<1>3. \A k \in DOMAIN s : s[k] # e
  BY DEF ToSet
<1>4. IsInjective(t)
  <2> SUFFICES ASSUME NEW j \in DOMAIN t, NEW k \in DOMAIN t, t[j] = t[k], j < k
               PROVE  FALSE
    BY <1>1 DEF IsInjective
  <2>1. j < i \/ j = i \/ j > i
    BY <1>1
  <2>2. k < i \/ k = i \/ k > i
    BY <1>1
  <2>3. CASE j < i /\ k < i
    BY <2>3, <1>1, <1>2 DEF IsInjective
  <2>4. CASE j < i /\ k = i
    BY <2>4, <1>1, <1>2, <1>3
  <2>5. CASE j < i /\ k > i
    <3>1. s[j] = s[k - 1] /\ j \in DOMAIN s /\ k - 1 \in DOMAIN s /\ j # k - 1
      BY <2>5, <1>1, <1>2
    <3> QED
      BY <3>1 DEF IsInjective
  <2>6. CASE j = i /\ k > i
    BY <2>6, <1>1, <1>2, <1>3
  <2>7. CASE j > i /\ k > i
    <3>1. s[j - 1] = s[k - 1] /\ j - 1 \in DOMAIN s /\ k - 1 \in DOMAIN s /\ j - 1 # k - 1
      BY <2>7, <1>1, <1>2
    <3> QED
      BY <3>1 DEF IsInjective
  <2> QED
    BY <2>1, <2>2, <2>3, <2>4, <2>5, <2>6, <2>7, <1>1
<1>5. Before(t, q) \subseteq Before(s, q) \cup {e}
  <2> SUFFICES ASSUME NEW k \in DOMAIN t, k <= q, t[k] # e
               PROVE  t[k] \in Before(s, q)
    BY DEF Before
  <2>1. CASE k < i
    BY <1>1, <1>2, <2>1 DEF Before
  <2>2. CASE k > i
    <3>1. k - 1 \in DOMAIN s /\ k - 1 <= q /\ t[k] = s[k - 1]
      BY <1>1, <1>2, <2>2
    <3> QED
      BY <3>1 DEF Before
  <2> QED
    BY <1>1, <2>1, <2>2
<1>6. \E x : After(t, q) \subseteq After(s, q) \cup {x}
  <2> DEFINE x == IF i <= q THEN s[q] ELSE e
  <2> SUFFICES ASSUME NEW k \in DOMAIN t, k > q, t[k] # x
               PROVE  t[k] \in After(s, q)
    <3>1. \A y \in After(t, q) : y = x \/ y \in After(s, q)
      BY DEF After
    <3> QED
      BY <3>1
  <2>1. CASE k < i
    BY <1>1, <1>2, <2>1 DEF After
  <2>2. CASE k = i
    BY <1>1, <2>2
  <2>3. CASE k > i
    <3>1. k - 1 \in DOMAIN s /\ t[k] = s[k - 1]
      BY <1>1, <1>2, <2>3
    <3>2. k - 1 # q
      BY <1>1, <2>3, <3>1
    <3>3. k - 1 > q
      BY <1>1, <3>2
    <3> QED
      BY <3>1, <3>3 DEF After
  <2> QED
    BY <1>1, <2>1, <2>2, <2>3
<1> QED
  BY <1>4, <1>5, <1>6 DEF t

\* A removal moves at most one element before the place q.
LEMMA RemovalShifts ==
  ASSUME NEW S, NEW s \in Seq(S), IsInjective(s), NEW i \in DOMAIN s, NEW q \in Nat
  PROVE  LET t == RemoveAt(s, i)
         IN  /\ IsInjective(t)
             /\ ToSet(s) \subseteq ToSet(t) \cup {s[i]}
             /\ \E x : Before(t, q) \subseteq Before(s, q) \cup {x}
             /\ After(t, q) \subseteq After(s, q)
<1> DEFINE t == RemoveAt(s, i)
<1>1. /\ DOMAIN t = 1..(Len(s) - 1) /\ DOMAIN s = 1..Len(s)
      /\ \A k \in DOMAIN t : t[k] = IF k < i THEN s[k] ELSE s[k + 1]
  <2>1. t \in Seq(S) /\ Len(t) = Len(s) - 1
    BY Removal
  <2>2. DOMAIN t = 1..(Len(s) - 1)
    <3> HIDE DEF t
    <3> QED
      BY <2>1
  <2> QED
    <3>1. \A k \in 1..(Len(s) - 1) : t[k] = IF k < i THEN s[k] ELSE s[k + 1]
      BY Removal
    <3> HIDE DEF t
    <3> QED
      BY <2>2, <3>1
<1> HIDE DEF t
<1>2. \A k \in DOMAIN t : k \in DOMAIN s /\ k + 1 \in DOMAIN s
  BY <1>1
<1>3. IsInjective(t)
  <2> SUFFICES ASSUME NEW j \in DOMAIN t, NEW k \in DOMAIN t, t[j] = t[k], j < k
               PROVE  FALSE
    BY <1>1 DEF IsInjective
  <2>1. CASE k < i
    BY <2>1, <1>1, <1>2 DEF IsInjective
  <2>2. CASE j < i /\ k >= i
    <3>1. s[j] = s[k + 1] /\ j # k + 1
      BY <2>2, <1>1
    <3> QED
      BY <3>1, <1>2 DEF IsInjective
  <2>3. CASE j >= i
    <3>1. s[j + 1] = s[k + 1] /\ j + 1 # k + 1
      BY <2>3, <1>1
    <3> QED
      BY <3>1, <1>2 DEF IsInjective
  <2> QED
    BY <2>1, <2>2, <2>3, <1>1
<1>4. ToSet(s) \subseteq ToSet(t) \cup {s[i]}
  <2> SUFFICES ASSUME NEW k \in DOMAIN s, k # i PROVE s[k] \in ToSet(t)
    BY DEF ToSet
  <2>1. CASE k < i
    <3>1. k \in DOMAIN t /\ t[k] = s[k]
      BY <1>1, <2>1
    <3> QED
      BY <3>1 DEF ToSet
  <2>2. CASE k > i
    <3>1. k - 1 \in DOMAIN t /\ t[k - 1] = s[k]
      BY <1>1, <2>2
    <3> QED
      BY <3>1 DEF ToSet
  <2> QED
    BY <1>1, <2>1, <2>2
<1>5. \E x : Before(t, q) \subseteq Before(s, q) \cup {x}
  <2> SUFFICES ASSUME NEW k \in DOMAIN t, k <= q, t[k] # s[q + 1]
               PROVE  t[k] \in Before(s, q)
    <3>1. \A y \in Before(t, q) : y = s[q + 1] \/ y \in Before(s, q)
      BY DEF Before
    <3> QED
      BY <3>1
  <2>1. CASE k < i
    BY <1>1, <1>2, <2>1 DEF Before
  <2>2. CASE k >= i
    <3>1. k + 1 \in DOMAIN s /\ k + 1 <= q /\ t[k] = s[k + 1]
      <4>1. t[k] = s[k + 1]
        BY <1>1, <2>2
      <4>2. k + 1 # q + 1
        BY <4>1
      <4> QED
        BY <1>1, <1>2, <4>1, <4>2
    <3> QED
      BY <3>1 DEF Before
  <2> QED
    BY <1>1, <2>1, <2>2
<1>6. After(t, q) \subseteq After(s, q)
  <2> SUFFICES ASSUME NEW k \in DOMAIN t, k > q PROVE t[k] \in After(s, q)
    BY DEF After
  <2>1. k + 1 > q
    BY <1>1
  <2> QED
    BY <1>1, <1>2, <2>1 DEF After
<1> QED
  BY <1>3, <1>4, <1>5, <1>6 DEF t

\* A page that is read moves from what is behind to what is before.
LEMMA PageMoves ==
  ASSUME NEW q \in Nat, content \in Seq(Names), IsInjective(content),
         page \in Nat \ {0}, q = (page - 1) * PageSize
  PROVE  LET read == ToSet(Page(page))
         IN  /\ Cardinality(read) = Len(Page(page)) /\ Page(page) \in Seq(Names)
             /\ Before(content, q + PageSize) = Before(content, q) \cup read
             /\ read \subseteq After(content, q)
             /\ After(content, q + PageSize) = After(content, q) \ read
             /\ Len(Page(page)) < PageSize => After(content, q) = read
             /\ Len(Page(page)) <= PageSize
<1> DEFINE n == Len(content)
           b == IF q + PageSize < n THEN q + PageSize ELSE n
           read == ToSet(Page(page))
<1>1. PageSize \in Nat \ {0} /\ n \in Nat
  BY ListingAssumption
<1>2. page * PageSize = q + PageSize
  <2>1. \A x, y \in Nat : x # 0 => x * y = (x - 1) * y + y
    OBVIOUS
  <2> QED
    BY <1>1, <2>1
<1>3. Page(page) = SubSeq(content, q + 1, b)
  BY <1>2 DEF Page
<1>4. b \in Nat /\ b <= n
  BY <1>1
<1>5. /\ Len(Page(page)) = IF q < b THEN b - q ELSE 0
      /\ read = {content[k] : k \in (q + 1)..b}
      /\ IsInjective(Page(page))
  <2>1. b <= Len(content)
    BY <1>4
  <2> DEFINE piece == SubSeq(content, q + 1, b)
  <2> HIDE DEF b
  <2>2. /\ Len(piece) = IF q < b THEN b - q ELSE 0
        /\ ToSet(piece) = Span(content, q + 1, b)
        /\ IsInjective(piece)
    BY <1>4, <2>1, PieceAt
  <2> HIDE DEF piece
  <2>3. Page(page) = piece
    BY <1>3 DEF piece
  <2> QED
    BY <2>2, <2>3 DEF Span
<1>6. Page(page) \in Seq(Names)
  BY PageIsPiece
<1>7. Cardinality(read) = Len(Page(page))
  BY <1>5, <1>6, SeqCount
<1> HIDE DEF read
<1>8. DOMAIN content = 1..n
  OBVIOUS
<1>9. Before(content, q + PageSize) = Before(content, q) \cup read
  <2>1. \A k \in 1..n : k <= q + PageSize <=> k <= q \/ k \in (q + 1)..b
    BY <1>1
  <2>2. \A k \in (q + 1)..b : k \in 1..n
    BY <1>1
  <2> HIDE DEF b, n
  <2> QED
    BY <1>5, <1>8, <2>1, <2>2 DEF Before
<1>10. After(content, q) = After(content, q + PageSize) \cup read
  <2>1. \A k \in 1..n : k > q <=> k > q + PageSize \/ k \in (q + 1)..b
    BY <1>1
  <2>2. \A k \in (q + 1)..b : k \in 1..n
    BY <1>1
  <2> HIDE DEF b, n
  <2> QED
    BY <1>5, <1>8, <2>1, <2>2 DEF After
<1>11. After(content, q + PageSize) \cap read = {}
  <2>1. \A k \in 1..n : k > q + PageSize => k \notin (q + 1)..b
    BY <1>1
  <2>2. \A k \in (q + 1)..b : k \in 1..n
    BY <1>1
  <2> HIDE DEF b, n
  <2> QED
    BY <1>5, <1>8, <2>1, <2>2 DEF After, IsInjective
<1>12. ASSUME Len(Page(page)) < PageSize PROVE After(content, q) = read
  <2>1. \A k \in 1..n : ~(k > q + PageSize)
    BY <1>1, <1>5, <1>12
  <2>2. After(content, q + PageSize) = {}
    BY <1>8, <2>1 DEF After
  <2> QED
    BY <1>10, <2>2
<1>13. Len(Page(page)) <= PageSize
  BY <1>1, <1>5
<1> QED
  BY <1>6, <1>7, <1>9, <1>10, <1>11, <1>12, <1>13 DEF read

\* What a page adds to the repetitions, it takes from those to come.
LEMMA Overlap ==
  ASSUME NEW L, NEW P, NEW A, IsFiniteSet(L), IsFiniteSet(P), IsFiniteSet(A),
         P \subseteq A
  PROVE  /\ Cardinality(L \cup P) \in Nat /\ Cardinality(A \cap L) \in Nat
         /\ Cardinality(L) \in Nat /\ Cardinality(P) \in Nat
         /\ Cardinality((A \ P) \cap (L \cup P)) \in Nat
         /\ Cardinality(L \cup P) + Cardinality(A \cap L)
              = Cardinality(L) + Cardinality(P)
                  + Cardinality((A \ P) \cap (L \cup P))
<1> DEFINE R == (A \ P) \cap L
           Q == L \cap P
<1>1. /\ IsFiniteSet(L \cup P)
      /\ Cardinality(L \cup P) = Cardinality(L) + Cardinality(P) - Cardinality(Q)
  BY FS_Union
<1>2. IsFiniteSet(Q) /\ IsFiniteSet(R)
  BY FS_Intersection, FS_Difference
<1>3. A \cap L = R \cup Q /\ R \cap Q = {} /\ (A \ P) \cap (L \cup P) = R
  OBVIOUS
<1> HIDE DEF R, Q
<1>4. /\ IsFiniteSet(R \cup Q)
      /\ Cardinality(R \cup Q) = Cardinality(R) + Cardinality(Q) - Cardinality({})
  BY <1>2, <1>3, FS_Union
<1>6. /\ Cardinality(A \cap L) = Cardinality(R \cup Q)
      /\ Cardinality((A \ P) \cap (L \cup P)) = Cardinality(R)
      /\ Cardinality(R \cap Q) = Cardinality({})
  BY <1>3
<1>5. /\ Cardinality({}) = 0
      /\ Cardinality(L) \in Nat /\ Cardinality(P) \in Nat /\ Cardinality(Q) \in Nat
      /\ Cardinality(R) \in Nat /\ Cardinality(L \cup P) \in Nat
      /\ Cardinality(R \cup Q) \in Nat
  BY <1>1, <1>2, <1>4, FS_CardinalityType, FS_EmptySet
<1> HIDE DEF Q
<1> QED
  BY <1>1, <1>4, <1>5, <1>6

\* One element more is one more to count at most.
LEMMA AtMostOne ==
  ASSUME NEW T, NEW U, NEW x, IsFiniteSet(T), U \subseteq T \cup {x}
  PROVE  /\ IsFiniteSet(U) /\ Cardinality(U) \in Nat /\ Cardinality(T) \in Nat
         /\ Cardinality(U) <= Cardinality(T) + 1
         /\ U \subseteq T => Cardinality(U) <= Cardinality(T)
<1>1. /\ IsFiniteSet(T \cup {x}) /\ Cardinality(T) \in Nat
      /\ Cardinality(T \cup {x}) \in {Cardinality(T), Cardinality(T) + 1}
  BY FS_AddElement, FS_CardinalityType
<1>2. IsFiniteSet(U) /\ Cardinality(U) \in Nat
      /\ Cardinality(U) <= Cardinality(T \cup {x})
  BY <1>1, FS_Subset, FS_CardinalityType
<1>3. U \subseteq T => Cardinality(U) <= Cardinality(T)
  BY FS_Subset
<1> QED
  BY <1>1, <1>2, <1>3

-----------------------------------------------------------------------------
(* A listing of pages goes wrong by what is shifted over the place it has   *)
(* read up to, and by nothing else.                                         *)

Passed == (page - 1) * PageSize

\* Names that the pages have been read past, and names listed that a page to
\* come may list again.
Missed == (stayed \cap Before(content, Passed)) \ ToSet(listed)
ToCome == After(content, Passed) \cap ToSet(listed)

SoundInv ==
    /\ IsInjective(content) /\ stayed \subseteq ToSet(content)
    /\ insertions \in Nat /\ lost \in Nat
    /\ stage = "pages" =>
         /\ Cardinality(Missed) <= deletions
         /\ Len(listed) + Cardinality(ToCome)
              <= Cardinality(ToSet(listed)) + insertions
    /\ stage = "catalog" => listed = <<>>
    /\ verdict = "listed" =>
         /\ stage = "done"
         /\ Cardinality(stayed \ ToSet(listed)) <= deletions + lost
         /\ Len(listed) <= Cardinality(ToSet(listed)) + insertions

\* What the invariant counts is finite.
LEMMA CountsAreFinite ==
  ASSUME ListingInv
  PROVE  /\ PageSize \in Nat \ {0} /\ Passed \in Nat
         /\ IsFiniteSet(ToSet(listed)) /\ Cardinality(ToSet(listed)) \in Nat
         /\ Len(listed) \in Nat
         /\ IsFiniteSet(Missed) /\ Cardinality(Missed) \in Nat
         /\ IsFiniteSet(After(content, Passed))
         /\ IsFiniteSet(ToCome) /\ Cardinality(ToCome) \in Nat
<1>1. content \in Seq(Names) /\ listed \in Seq(Names) /\ page \in Nat \ {0}
  BY DEF ListingInv
<1>2. PageSize \in Nat \ {0} /\ Passed \in Nat
  <2>1. \A x, y \in Nat : x * y \in Nat
    OBVIOUS
  <2>2. PageSize \in Nat \ {0}
    BY ListingAssumption
  <2> QED
    BY <1>1, <2>1, <2>2, page - 1 \in Nat DEF Passed
<1>3. IsFiniteSet(ToSet(listed)) /\ Cardinality(ToSet(listed)) \in Nat
  BY <1>1, SeqCount
<1>4. IsFiniteSet(Before(content, Passed)) /\ IsFiniteSet(After(content, Passed))
  BY <1>1, <1>2, Parts
<1>5. IsFiniteSet(Missed) /\ IsFiniteSet(ToCome)
  <2>1. Missed \subseteq Before(content, Passed)
    BY DEF Missed
  <2>2. ToCome \subseteq After(content, Passed)
    BY DEF ToCome
  <2> QED
    BY <1>4, <2>1, <2>2, FS_Subset
<1> QED
  BY <1>1, <1>2, <1>3, <1>4, <1>5, FS_CardinalityType

LEMMA SoundInitOK == ListingInit => SoundInv
<1> SUFFICES ASSUME ListingInit PROVE SoundInv
  OBVIOUS
<1>1. IsInjective(content)
  <2>1. IsInjective(<<>>)
    BY DEF IsInjective
  <2> QED
    BY <2>1, ListingAssumption DEF ListingInit
<1>2. listed = <<>> /\ ToSet(listed) = {} /\ Len(listed) = 0
  BY DEF ListingInit, ToSet
<1>3. Passed = 0
  BY ListingAssumption DEF ListingInit, Passed
<1>4. content \in Seq(Names)
  BY ListingInitOK DEF ListingInv
<1>5. Missed = {} /\ ToCome = {}
  <2>1. Before(content, Passed) = {}
    BY <1>3, <1>4 DEF Before
  <2> QED
    BY <1>2, <2>1 DEF Missed, ToCome
<1>6. Cardinality(Missed) = 0 /\ Cardinality(ToCome) = 0 /\ Cardinality(ToSet(listed)) = 0
  BY <1>2, <1>5, FS_EmptySet
<1> QED
  BY <1>1, <1>2, <1>6 DEF ListingInit, SoundInv

\* A page is read.
LEMMA SoundReadPage ==
  ASSUME ListingInv, SoundInv, ReadPage
  PROVE  SoundInv'
<1> DEFINE P == ToSet(Page(page))
           L == ToSet(listed)
           A == After(content, Passed)
           B == Before(content, Passed)
<1>1. /\ content \in Seq(Names) /\ listed \in Seq(Names) /\ page \in Nat \ {0}
      /\ deletions \in Nat /\ insertions \in Nat /\ lost \in Nat
      /\ IsInjective(content) /\ stayed \subseteq ToSet(content)
      /\ Cardinality(Missed) <= deletions
      /\ Len(listed) + Cardinality(ToCome) <= Cardinality(L) + insertions
      /\ verdict # "listed" /\ stage = "pages"
  BY DEF ListingInv, SoundInv, ReadPage
<1>2. UNCHANGED <<content, stayed, insertions, deletions, lost>>
  BY DEF ReadPage, contentVars
<1>3. /\ Cardinality(P) = Len(Page(page)) /\ Page(page) \in Seq(Names)
      /\ Before(content, Passed + PageSize) = B \cup P
      /\ P \subseteq A
      /\ After(content, Passed + PageSize) = A \ P
      /\ Len(Page(page)) < PageSize => A = P
  BY <1>1, CountsAreFinite, PageMoves DEF Passed
<1>4. ToSet(listed \o Page(page)) = L \cup P
      /\ Len(listed \o Page(page)) = Len(listed) + Cardinality(P)
  <2> DEFINE p == Page(page)
  <2>1. p \in Seq(Names) /\ Cardinality(P) = Len(p)
    BY <1>3
  <2> HIDE DEF p
  <2>2. ToSet(listed \o p) = L \cup ToSet(p) /\ Len(listed \o p) = Len(listed) + Len(p)
    BY <1>1, <2>1, InARow
  <2> QED
    BY <2>1, <2>2 DEF p
<1>5. /\ IsFiniteSet(L) /\ IsFiniteSet(A) /\ IsFiniteSet(P) /\ IsFiniteSet(Missed)
      /\ Len(listed) \in Nat /\ Cardinality(Missed) \in Nat
  BY <1>3, CountsAreFinite, SeqCount
<1> HIDE DEF P, L, A, B
<1>6. /\ Cardinality(L \cup P) \in Nat /\ Cardinality(A \cap L) \in Nat
      /\ Cardinality(L) \in Nat /\ Cardinality(P) \in Nat
      /\ Cardinality((A \ P) \cap (L \cup P)) \in Nat
      /\ Cardinality(L \cup P) + Cardinality(A \cap L)
           = Cardinality(L) + Cardinality(P)
               + Cardinality((A \ P) \cap (L \cup P))
  BY <1>3, <1>5, Overlap
<1>7. ToCome = A \cap L /\ Missed = (stayed \cap B) \ L
  BY DEF ToCome, Missed, A, B, L
<1>8. Len(listed) + Cardinality(P) + Cardinality((A \ P) \cap (L \cup P))
        <= Cardinality(L \cup P) + insertions
  BY <1>1, <1>5, <1>6, <1>7 DEF L
<1>9. CASE Len(Page(page)) < PageSize
  <2>1. Known(listed \o Page(page))
    BY <1>9 DEF ReadPage
  <2>2. /\ listed' = listed \o Page(page)
        /\ \/ stage' = "done" /\ verdict' = "listed"
           \/ stage' \in {"done", "create"} /\ verdict' # "listed"
    BY <1>1, <2>1 DEF Known
  <2>3. stayed \ (L \cup P) \subseteq Missed
    <3>1. ToSet(content) = B \cup A
      BY <1>1, CountsAreFinite, Parts DEF A, B
    <3> QED
      BY <1>1, <1>3, <1>7, <1>9, <3>1
  <2>4. Cardinality(stayed \ (L \cup P)) <= deletions + lost
    <3>1. /\ Cardinality(stayed \ (L \cup P)) <= Cardinality(Missed)
          /\ Cardinality(stayed \ (L \cup P)) \in Nat
      BY <1>5, <2>3, FS_Subset, FS_CardinalityType
    <3> QED
      BY <1>1, <1>5, <3>1
  <2>5. Len(listed) + Cardinality(P) <= Cardinality(L \cup P) + insertions
    BY <1>1, <1>5, <1>6, <1>8
  <2> QED
    BY <1>1, <1>2, <1>4, <2>2, <2>4, <2>5 DEF SoundInv
<1>10. CASE ~(Len(Page(page)) < PageSize)
  <2>1. /\ listed' = listed \o Page(page) /\ page' = page + 1
        /\ UNCHANGED <<stage, verdict>>
    BY <1>10 DEF ReadPage
  <2>2. Passed' = Passed + PageSize
    <3>1. \A x, y \in Nat : x # 0 => x * y = (x - 1) * y + y
      OBVIOUS
    <3>2. page' - 1 = page
      BY <1>1, <2>1
    <3> QED
      BY <1>1, <3>1, <3>2, CountsAreFinite DEF Passed
  <2>3. Missed' = (stayed \cap (B \cup P)) \ (L \cup P)
        /\ ToCome' = (A \ P) \cap (L \cup P)
    BY <1>2, <1>3, <1>4, <2>1, <2>2 DEF Missed, ToCome
  <2>4. Cardinality(Missed') <= deletions
    <3>1. Missed' \subseteq Missed
      BY <1>7, <2>3
    <3>2. Cardinality(Missed') \in Nat /\ Cardinality(Missed') <= Cardinality(Missed)
      BY <1>5, <3>1, FS_Subset, FS_CardinalityType
    <3> QED
      BY <1>1, <1>5, <3>2
  <2>5. Len(listed') + Cardinality(ToCome')
          <= Cardinality(ToSet(listed')) + insertions
    BY <1>4, <1>8, <2>1, <2>3
  <2> QED
    BY <1>1, <1>2, <2>1, <2>4, <2>5 DEF SoundInv
<1> QED
  BY <1>9, <1>10

\* The catalog is read at once, as far as there is room.
LEMMA SoundReadCatalog ==
  ASSUME ListingInv, SoundInv, ReadCatalog
  PROVE  SoundInv'
<1>1. /\ content \in Seq(Names) /\ deletions \in Nat
      /\ insertions \in Nat /\ lost \in Nat
      /\ IsInjective(content) /\ stayed \subseteq ToSet(content)
      /\ listed = <<>> /\ verdict # "listed" /\ stage = "catalog"
  BY DEF ListingInv, SoundInv, ReadCatalog
<1>2. UNCHANGED <<content, stayed, insertions, deletions>>
  BY DEF ReadCatalog, contentVars
<1>3. CASE UNCHANGED <<stage, listed, verdict, lost>>
  BY <1>1, <1>2, <1>3 DEF SoundInv
<1>4. ASSUME stage' = "done", verdict' # "listed", UNCHANGED <<listed, lost>>
      PROVE  SoundInv'
  BY <1>1, <1>2, <1>4 DEF SoundInv
<1>5. ASSUME NEW room \in 0..Len(content),
             Known(listed \o SubSeq(content, 1, room)),
             lost' = Len(content) - room
      PROVE  SoundInv'
  <2> DEFINE piece == SubSeq(content, 0 + 1, room)
  <2>1. listed \o SubSeq(content, 1, room) = piece
    BY <1>1
  <2>2. room \in Nat /\ room <= Len(content) /\ lost' \in Nat
    BY <1>5
  <2>3. /\ ToSet(piece) = Span(content, 0 + 1, room) /\ IsInjective(piece)
        /\ Len(piece) = IF 0 < room THEN room - 0 ELSE 0
    BY <1>1, <2>2, 0 \in Nat, PieceAt
  <2>4. piece \in Seq(Names)
    BY <1>1, <2>2
  <2> HIDE DEF piece
  <2>5. Cardinality(ToSet(piece)) = Len(piece) /\ Len(piece) \in Nat
    BY <2>3, <2>4, SeqCount
  <2>6. /\ listed' = piece
        /\ \/ stage' = "done" /\ verdict' = "listed"
           \/ stage' \in {"done", "create"} /\ verdict' # "listed"
    BY <1>1, <1>5, <2>1 DEF Known
  <2>7. Cardinality(stayed \ ToSet(piece)) <= lost'
    <3> DEFINE rest == SubSeq(content, room + 1, Len(content))
    <3>1. /\ Len(rest) = IF room < Len(content) THEN Len(content) - room ELSE 0
          /\ ToSet(rest) = Span(content, room + 1, Len(content))
      BY <1>1, <2>2, PieceAt
    <3>2. rest \in Seq(Names)
      BY <1>1, <2>2
    <3> HIDE DEF rest
    <3>3. stayed \ ToSet(piece) \subseteq ToSet(rest)
      <4>1. \A k \in DOMAIN content : k \in (0 + 1)..room \/ k \in (room + 1)..Len(content)
        BY <1>1, <2>2
      <4>2. ToSet(content) \subseteq ToSet(piece) \cup ToSet(rest)
        BY <2>3, <3>1, <4>1 DEF ToSet, Span
      <4> QED
        BY <1>1, <4>2
    <3>4. IsFiniteSet(ToSet(rest)) /\ Cardinality(ToSet(rest)) \in Nat
          /\ Cardinality(ToSet(rest)) <= Len(rest)
      BY <3>2, SeqCount
    <3>5. Cardinality(stayed \ ToSet(piece)) \in Nat
          /\ Cardinality(stayed \ ToSet(piece)) <= Cardinality(ToSet(rest))
      BY <3>3, <3>4, FS_Subset, FS_CardinalityType
    <3>6. Len(rest) = lost'
      BY <1>1, <1>5, <2>2, <3>1
    <3> QED
      BY <2>2, <3>4, <3>5, <3>6
  <2>8. Cardinality(stayed \ ToSet(piece)) <= deletions + lost'
    <3>1. IsFiniteSet(stayed \ ToSet(piece))
      <4>1. IsFiniteSet(ToSet(content))
        BY <1>1, SeqCount
      <4> QED
        BY <1>1, <4>1, FS_Subset
    <3>2. Cardinality(stayed \ ToSet(piece)) \in Nat
      BY <3>1, FS_CardinalityType
    <3> QED
      BY <1>1, <2>2, <2>7, <3>2
  <2>9. Len(piece) <= Cardinality(ToSet(piece)) + insertions
    BY <1>1, <2>5
  <2> QED
    BY <1>1, <1>2, <2>2, <2>6, <2>8, <2>9 DEF SoundInv
<1> QED
  BY <1>3, <1>4, <1>5 DEF ReadCatalog, CatalogAnswer

\* A name is inserted before what has been read, or behind it.
LEMMA SoundInsert ==
  ASSUME ListingInv, SoundInv, NEW n \in Names, n \notin ToSet(content),
         InsertName(n), UNCHANGED <<page, listed>>
  PROVE  /\ IsInjective(content') /\ stayed' = stayed
         /\ stayed' \subseteq ToSet(content')
         /\ Cardinality(Missed') <= Cardinality(Missed)
         /\ Cardinality(ToCome') <= Cardinality(ToCome) + 1
         /\ Cardinality(Missed') \in Nat /\ Cardinality(ToCome') \in Nat
<1>1. PICK i \in 1..(Len(content) + 1) : content' = InsertAt(content, i, n)
  BY DEF InsertName
<1>2. content \in Seq(Names) /\ IsInjective(content)
      /\ stayed \subseteq ToSet(content)
  BY DEF ListingInv, SoundInv
<1>3. Passed' = Passed /\ ToSet(listed)' = ToSet(listed) /\ stayed' = stayed
  BY DEF Passed, ToSet, InsertName
<1>4. /\ IsInjective(content')
      /\ Before(content', Passed) \subseteq Before(content, Passed) \cup {n}
      /\ \E x : After(content', Passed) \subseteq After(content, Passed) \cup {x}
  <2> DEFINE t == InsertAt(content, i, n)
  <2>1. Passed \in Nat /\ content \in Seq(Names) /\ IsInjective(content)
    BY <1>2, CountsAreFinite
  <2>2. n \in Names /\ n \notin ToSet(content) /\ i \in 1..(Len(content) + 1)
    OBVIOUS
  <2>3. IsInjective(t)
    BY <2>1, <2>2, InsertionShifts
  <2>4. Before(t, Passed) \subseteq Before(content, Passed) \cup {n}
    BY <2>1, <2>2, InsertionShifts
  <2>5. \E x : After(t, Passed) \subseteq After(content, Passed) \cup {x}
    BY <2>1, <2>2, InsertionShifts
  <2>6. content' = t
    BY <1>1
  <2> HIDE DEF t
  <2> QED
    BY <2>3, <2>4, <2>5, <2>6
<1>5. ToSet(content') = ToSet(content) \cup {n}
  BY <1>1, <1>2, OneMore
<1>6. Missed' \subseteq Missed
  BY <1>2, <1>3, <1>4 DEF Missed
<1>7. PICK x : ToCome' \subseteq ToCome \cup {x}
  BY <1>3, <1>4 DEF ToCome
<1>8. /\ Cardinality(ToCome') <= Cardinality(ToCome) + 1
      /\ Cardinality(ToCome') \in Nat
  BY <1>7, CountsAreFinite, AtMostOne
<1>9. Cardinality(Missed') <= Cardinality(Missed) /\ Cardinality(Missed') \in Nat
  BY <1>6, CountsAreFinite, FS_Subset, FS_CardinalityType
<1> QED
  BY <1>2, <1>3, <1>4, <1>5, <1>8, <1>9

\* Every step keeps the count of what goes wrong.
LEMMA SoundStepKeeps == ListingInv /\ SoundInv /\ [ListingNext]_allVars => SoundInv'
<1> SUFFICES ASSUME ListingInv, SoundInv, [ListingNext]_allVars PROVE SoundInv'
  OBVIOUS
<1>1. CASE ReadPage
  BY <1>1, SoundReadPage
<1>2. CASE PagesFail
  BY <1>2 DEF PagesFail, SoundInv, contentVars
<1>3. CASE ReadCatalog
  BY <1>3, SoundReadCatalog
<1>4. CASE Create \/ CreateFails
  <2>1. /\ stage' = "done" /\ verdict' \in {"created", "error"}
        /\ UNCHANGED <<page, listed, lost, insertions>>
    BY <1>4 DEF Create, CreateFails, contentVars
  <2>2. \/ UNCHANGED <<content, stayed>>
        \/ InsertName(Wanted) /\ Wanted \notin ToSet(content)
    BY <1>4 DEF Create, CreateFails, contentVars
  <2>3. CASE UNCHANGED <<content, stayed>>
    BY <2>1, <2>3 DEF SoundInv
  <2>4. CASE InsertName(Wanted) /\ Wanted \notin ToSet(content)
    <3>1. IsInjective(content') /\ stayed' \subseteq ToSet(content')
      BY <2>1, <2>4, ListingAssumption, SoundInsert
    <3> QED
      BY <2>1, <3>1 DEF SoundInv
  <2> QED
    BY <2>2, <2>3, <2>4
<1>5. CASE Inserted
  <2>1. /\ UNCHANGED <<stage, page, listed, verdict, lost, deletions>>
        /\ insertions' = insertions + 1 /\ stage # "done"
    BY <1>5 DEF Inserted, InsertName, listVars
  <2>2. PICK n \in Names \ ToSet(content) : InsertName(n)
    BY <1>5 DEF Inserted
  <2>3. /\ IsInjective(content') /\ stayed' \subseteq ToSet(content')
        /\ Cardinality(Missed') <= Cardinality(Missed)
        /\ Cardinality(ToCome') <= Cardinality(ToCome) + 1
        /\ Cardinality(Missed') \in Nat /\ Cardinality(ToCome') \in Nat
    BY <2>1, <2>2, SoundInsert
  <2>4. insertions' \in Nat /\ deletions \in Nat
    BY <2>1 DEF SoundInv, ListingInv
  <2>5. stage = "pages" =>
          /\ Cardinality(Missed') <= deletions
          /\ Len(listed) + Cardinality(ToCome')
               <= Cardinality(ToSet(listed)) + insertions'
    BY <2>1, <2>3, <2>4, CountsAreFinite DEF SoundInv
  <2> QED
    BY <2>1, <2>3, <2>4, <2>5 DEF SoundInv
<1>6. CASE Deleted
  <2>1. /\ UNCHANGED <<stage, page, listed, verdict, lost, insertions>>
        /\ deletions' = deletions + 1 /\ stage # "done"
    BY <1>6 DEF Deleted, listVars
  <2>2. PICK i \in DOMAIN content :
           content' = RemoveAt(content, i) /\ stayed' = stayed \ {content[i]}
    BY <1>6 DEF Deleted
  <2>3. content \in Seq(Names) /\ IsInjective(content)
        /\ stayed \subseteq ToSet(content) /\ deletions \in Nat /\ insertions \in Nat
    BY DEF ListingInv, SoundInv
  <2>4. Passed' = Passed /\ ToSet(listed)' = ToSet(listed)
    BY <2>1 DEF Passed, ToSet
  <2>5. /\ IsInjective(content')
        /\ ToSet(content) \subseteq ToSet(content') \cup {content[i]}
        /\ \E x : Before(content', Passed) \subseteq Before(content, Passed) \cup {x}
        /\ After(content', Passed) \subseteq After(content, Passed)
    BY <2>2, <2>3, CountsAreFinite, RemovalShifts
  <2>6. PICK x : Missed' \subseteq Missed \cup {x}
    BY <2>2, <2>4, <2>5 DEF Missed
  <2>7. ToCome' \subseteq ToCome
    BY <2>4, <2>5 DEF ToCome
  <2>8. /\ Cardinality(Missed') <= Cardinality(Missed) + 1
        /\ Cardinality(Missed') \in Nat
    BY <2>6, CountsAreFinite, AtMostOne
  <2>9. Cardinality(ToCome') <= Cardinality(ToCome) /\ Cardinality(ToCome') \in Nat
    BY <2>7, CountsAreFinite, FS_Subset, FS_CardinalityType
  <2>10. stage = "pages" =>
          /\ Cardinality(Missed') <= deletions'
          /\ Len(listed) + Cardinality(ToCome')
               <= Cardinality(ToSet(listed)) + insertions
    BY <2>1, <2>3, <2>8, <2>9, CountsAreFinite DEF SoundInv
  <2>11. stayed' \subseteq ToSet(content')
    BY <2>2, <2>3, <2>5
  <2> QED
    BY <2>1, <2>5, <2>10, <2>11 DEF SoundInv
<1>7. CASE (\E c \in Callers : Transfer(c)) \/ Time \/ UNCHANGED allVars
  <2>1. UNCHANGED <<listVars, contentVars>>
    BY <1>7 DEF Transfer, Time, allVars
  <2> QED
    BY <2>1 DEF SoundInv, Missed, ToCome, Passed, listVars, contentVars
<1> QED
  BY <1>1, <1>2, <1>3, <1>4, <1>5, <1>6, <1>7 DEF ListingNext, ListerStep

\* A listing misses no more than was deleted or cut off, repeats no more than
\* was inserted, and makes nothing up, however the content shifts.
THEOREM ListingsSound == ListingSpec => []ListingSound
<1>1. ListingInv /\ SoundInv => ListingSound
  <2> SUFFICES ASSUME ListingInv, SoundInv, verdict = "listed"
               PROVE  Len(listed) - Cardinality(ToSet(listed)) <= insertions
    BY DEF ListingSound, ListingInv, SoundInv
  <2> QED
    BY CountsAreFinite DEF SoundInv
<1> QED
  BY <1>1, ListingInitOK, ListingStepKeeps, SoundInitOK, SoundStepKeeps, PTL
     DEF ListingSpec

-----------------------------------------------------------------------------
(* What a listing sends past the limiter.                                   *)

\* A full page for each request but the last two, and the names on the full
\* pages are names that were there, or were shifted into view once more.
DirectInv ==
    /\ stage \in {"pages", "catalog", "create", "done"} /\ direct \in Nat
    /\ stage = "pages" => Len(listed) = Passed /\ direct <= page - 1
    /\ stage \in {"catalog", "create"} => direct <= page
    /\ direct <= page + 1
    /\ IsFiniteSet(seen)
    /\ Passed <= Cardinality(seen) + insertions

LEMMA DirectInitOK == ListingInit => DirectInv
<1> SUFFICES ASSUME ListingInit PROVE DirectInv
  OBVIOUS
<1>1. Passed = 0 /\ page = 1 /\ Len(listed) = 0
  BY ListingAssumption DEF ListingInit, Passed
<1>2. content \in Seq(Names)
  BY ListingInitOK DEF ListingInv
<1>3. IsFiniteSet(seen) /\ Cardinality(seen) \in Nat
  BY <1>2, SeqCount DEF ListingInit
<1> QED
  BY <1>1, <1>3 DEF ListingInit, DirectInv

\* The set of names that were there grows.
LEMMA SeenGrows ==
  ASSUME DirectInv, NEW n \in Names, InsertName(n)
  PROVE  IsFiniteSet(seen') /\ Cardinality(seen') \in Nat
         /\ Cardinality(seen) \in Nat /\ Cardinality(seen) <= Cardinality(seen')
<1>1. seen' = seen \cup {n} /\ IsFiniteSet(seen)
  BY DEF InsertName, DirectInv
<1>2. IsFiniteSet(seen')
  BY <1>1, FS_AddElement
<1> QED
  BY <1>1, <1>2, FS_Subset, FS_CardinalityType

\* A page is read: the next one begins where it ends.
LEMMA DirectReadPage ==
  ASSUME ListingInv, SoundInv, DirectInv, ListingInv', SoundInv', ReadPage
  PROVE  DirectInv'
<1>1. /\ stage = "pages" /\ direct \in Nat /\ direct <= page - 1
      /\ Len(listed) = Passed /\ page \in Nat \ {0} /\ PageSize \in Nat \ {0}
      /\ IsFiniteSet(seen) /\ Cardinality(seen) \in Nat /\ insertions \in Nat
      /\ Passed <= Cardinality(seen) + insertions
  BY CountsAreFinite, FS_CardinalityType DEF DirectInv, ReadPage, ListingInv, SoundInv
<1>2. direct' = direct + 1 /\ UNCHANGED <<seen, insertions>>
  BY DEF ReadPage, contentVars
<1>3. CASE Len(Page(page)) < PageSize
  <2>1. UNCHANGED page /\ stage' \in {"done", "create"}
    BY <1>3 DEF ReadPage, Known
  <2>2. Passed' = Passed
    BY <2>1 DEF Passed
  <2> QED
    BY <1>1, <1>2, <2>1, <2>2 DEF DirectInv
<1>4. CASE ~(Len(Page(page)) < PageSize)
  <2>1. /\ listed' = listed \o Page(page) /\ page' = page + 1
        /\ UNCHANGED <<stage, verdict>>
    BY <1>4 DEF ReadPage
  <2>2. Passed' = Passed + PageSize
    <3>1. \A x, y \in Nat : x # 0 => x * y = (x - 1) * y + y
      OBVIOUS
    <3>2. page' - 1 = page
      BY <1>1, <2>1
    <3> QED
      BY <1>1, <3>1, <3>2 DEF Passed
  <2>3. Len(Page(page)) = PageSize
    <3>1. Len(Page(page)) \in Nat
      BY PageIsPiece DEF ListingInv
    <3>2. Len(Page(page)) <= PageSize
      BY <1>1, CountsAreFinite, PageMoves DEF ListingInv, SoundInv, Passed
    <3> QED
      BY <1>1, <1>4, <3>1, <3>2
  <2>4. Len(listed') = Passed'
    <3>1. listed \in Seq(Names) /\ Page(page) \in Seq(Names)
      BY PageIsPiece DEF ListingInv
    <3> DEFINE p == Page(page)
    <3> HIDE DEF p
    <3>2. p \in Seq(Names) => Len(listed \o p) = Len(listed) + Len(p)
      BY <3>1
    <3> QED
      BY <1>1, <2>1, <2>2, <2>3, <3>1, <3>2 DEF p
  <2>5. Passed' <= Cardinality(seen') + insertions'
    <3>1. /\ Len(listed') + Cardinality(ToCome') <= Cardinality(ToSet(listed')) + insertions'
          /\ ToSet(listed') \subseteq seen'
      BY <1>1, <2>1 DEF SoundInv, ListingInv
    <3>2. /\ Cardinality(ToCome') \in Nat /\ Len(listed') \in Nat
          /\ Cardinality(ToSet(listed')) \in Nat
      <4>1. listed' \in Seq(Names)
        BY DEF ListingInv
      <4>2. /\ Len(listed') \in Nat /\ IsFiniteSet(ToSet(listed'))
            /\ Cardinality(ToSet(listed')) \in Nat
        BY <4>1, SeqCount
      <4>3. ToCome' \subseteq ToSet(listed')
        BY DEF ToCome, ToSet
      <4> QED
        BY <4>2, <4>3, FS_Subset, FS_CardinalityType
    <3>3. Cardinality(ToSet(listed')) <= Cardinality(seen')
      BY <1>1, <1>2, <3>1, FS_Subset
    <3> QED
      BY <1>1, <1>2, <2>4, <3>1, <3>2, <3>3
  <2> QED
    BY <1>1, <1>2, <2>1, <2>4, <2>5 DEF DirectInv
<1> QED
  BY <1>3, <1>4

LEMMA DirectStepKeeps ==
  ListingInv /\ SoundInv /\ DirectInv /\ ListingInv' /\ SoundInv'
    /\ [ListingNext]_allVars => DirectInv'
<1> SUFFICES ASSUME ListingInv, SoundInv, DirectInv, ListingInv', SoundInv',
                    [ListingNext]_allVars
             PROVE  DirectInv'
  OBVIOUS
<1>1. /\ page \in Nat \ {0} /\ direct \in Nat /\ insertions \in Nat
      /\ IsFiniteSet(seen) /\ Cardinality(seen) \in Nat /\ Passed \in Nat
  BY CountsAreFinite, FS_CardinalityType DEF DirectInv, ListingInv, SoundInv
<1>2. UNCHANGED page => Passed' = Passed
  BY DEF Passed
<1>3. CASE ReadPage
  BY <1>3, DirectReadPage
<1>4. CASE PagesFail
  BY <1>1, <1>2, <1>4 DEF PagesFail, DirectInv, contentVars
<1>5. CASE ReadCatalog
  <2>1. stage = "catalog" /\ UNCHANGED <<page, direct, seen, insertions>>
    BY <1>5 DEF ReadCatalog, contentVars
  <2>2. stage' \in {"catalog", "create", "done"}
    BY <1>5, <2>1 DEF ReadCatalog, CatalogAnswer, Known
  <2> QED
    BY <1>1, <1>2, <2>1, <2>2 DEF DirectInv
<1>6. CASE Create \/ CreateFails
  <2>1. /\ stage = "create" /\ stage' = "done" /\ direct' = direct + 1
        /\ UNCHANGED <<page, insertions>>
        /\ UNCHANGED seen \/ InsertName(Wanted)
    BY <1>6 DEF Create, CreateFails, contentVars
  <2>2. /\ IsFiniteSet(seen') /\ Cardinality(seen') \in Nat
        /\ Cardinality(seen) <= Cardinality(seen')
    BY <1>1, <2>1, ListingAssumption, SeenGrows
  <2> QED
    BY <1>1, <1>2, <2>1, <2>2 DEF DirectInv
<1>7. CASE Inserted
  <2>1. /\ UNCHANGED <<stage, page, direct, listed>> /\ insertions' = insertions + 1
        /\ \E n \in Names : InsertName(n)
    BY <1>7 DEF Inserted, listVars
  <2>2. /\ IsFiniteSet(seen') /\ Cardinality(seen') \in Nat
        /\ Cardinality(seen) <= Cardinality(seen')
    BY <2>1, SeenGrows
  <2> QED
    BY <1>1, <1>2, <2>1, <2>2 DEF DirectInv
<1>8. CASE Deleted \/ (\E c \in Callers : Transfer(c)) \/ Time \/ UNCHANGED allVars
  <2>1. UNCHANGED <<stage, page, direct, listed, seen, insertions>>
    BY <1>8 DEF Deleted, Transfer, Time, allVars, listVars, contentVars
  <2> QED
    BY <1>1, <1>2, <2>1 DEF DirectInv
<1> QED
  BY <1>3, <1>4, <1>5, <1>6, <1>7, <1>8 DEF ListingNext, ListerStep

\* A listing and the making of a project send past the limiter no more than
\* the full pages of what there was to list, and two requests.
THEOREM DirectRequestsBounded == ListingSpec => []DirectBounded
<1>1. ListingInv /\ SoundInv /\ DirectInv => DirectBounded
  <2> SUFFICES ASSUME ListingInv, SoundInv, DirectInv PROVE DirectBounded
    OBVIOUS
  <2>1. /\ page \in Nat \ {0} /\ PageSize \in Nat \ {0} /\ direct \in Nat
        /\ direct <= page + 1 /\ Passed <= Cardinality(seen) + insertions
        /\ Cardinality(seen) \in Nat /\ insertions \in Nat /\ Passed \in Nat
    BY CountsAreFinite, FS_CardinalityType DEF DirectInv, ListingInv, SoundInv
  <2>2. \A x, y, z \in Nat : x <= y => x * z <= y * z
    OBVIOUS
  <2>3. \A y \in Nat \ {0}, z \in Nat : (y + 1) * z = (y - 1) * z + 2 * z
    OBVIOUS
  <2>4. direct * PageSize <= (page + 1) * PageSize
    BY <2>1, <2>2
  <2>5. (page + 1) * PageSize = Passed + 2 * PageSize
    BY <2>1, <2>3 DEF Passed
  <2> DEFINE product == direct * PageSize
  <2>6. product \in Nat
    <3>1. \A x, y \in Nat : x * y \in Nat
      OBVIOUS
    <3> QED
      BY <2>1, <3>1
  <2>7. product <= Passed + 2 * PageSize
    BY <2>4, <2>5
  <2> HIDE DEF product
  <2>8. product <= Cardinality(seen) + insertions + 2 * PageSize
    BY <2>1, <2>6, <2>7
  <2> QED
    BY <2>8 DEF product, DirectBounded
<1> QED
  BY <1>1, ListingInitOK, ListingStepKeeps, SoundInitOK, SoundStepKeeps,
     DirectInitOK, DirectStepKeeps, PTL DEF ListingSpec
=============================================================================
