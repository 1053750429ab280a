------------------------------- MODULE Request -------------------------------
(***************************************************************************)
(* doRequest of pkg/registry/client.go: how one request of a client gets   *)
(* past the rate limiter and the authentication of a registry; and what an *)
(* upload (PutBlob of pkg/registry/blob.go) sends after it, past both.     *)
(* Several goroutines share the client, its limiter and a context that may *)
(* be cancelled at any moment.                                             *)
(*                                                                         *)
(* The registry is external.  Its kind says what it asks of a request:     *)
(*   open     nothing                                                      *)
(*   basic    Basic credentials, with a Basic challenge                    *)
(*   bare     Basic credentials, with a 401 that names no scheme           *)
(*   bearer   a token, with a Bearer challenge (Docker Hub)                *)
(*   both     Basic credentials or a token, with a Bearer challenge        *)
(*            (Harbor)                                                     *)
(* It names in the challenge every right that the request needs, in any    *)
(* order, and the token server grants what the account has of what it is   *)
(* asked for.  A manifest whose bytes are not whole is refused.  A request *)
(* that fails may have been carried out.                                   *)
(***************************************************************************)
EXTENDS Naturals, FiniteSets

CONSTANTS
    Callers,        \* goroutines
    Qps,            \* qps of the registry, 0 for no limit
    MaxRequests,    \* bound: requests of one caller
    Registries      \* [kind, account, public]: what the account of the
                    \* credentials may do there, and what everybody may

ASSUME CallersAssumption == IsFiniteSet(Callers) /\ Callers # {}
ASSUME QpsAssumption == Qps \in Nat
ASSUME MaxRequestsAssumption == MaxRequests \in Nat

AllRights == {"pull", "push", "list"}

\* The requests the client makes through doRequest, and what a registry asks
\* of them: GET and HEAD of manifests, blobs and tags; POST of a mount; POST
\* of an upload, and what follows it; PUT of a manifest; GET of the catalog.
Needs == [get |-> {"pull"}, post |-> {"pull", "push"},
          upload |-> {"pull", "push"}, put |-> {"pull", "push"},
          catalog |-> {"list"}]
Ops == DOMAIN Needs

Kinds == {"open", "basic", "bare", "bearer", "both"}

ASSUME RegistriesAssumption ==
    Registries \subseteq [kind: Kinds, account: SUBSET AllRights,
                         public: SUBSET AllRights]

VARIABLES
    registry,   \* the one of Registries that the client is for
    creds,      \* "full", "user" (no password) or "none"
    req,        \* the request of each caller
    count,      \* how many requests each caller has begun
    granted,    \* permits the limiter has given
    ticks,      \* permits it has regained, one each 1/qps seconds
    sends,      \* requests sent to the registry, those of an upload included
    asks,       \* requests sent to its token server
    cancelled   \* the context is cancelled

vars == <<registry, creds, req, count, granted, ticks, sends, asks, cancelled>>
counters == <<granted, ticks, sends, asks>>
fixed == <<registry, creds>>

Idle == [at |-> "idle", op |-> "get", scheme |-> "none", rights |-> {},
         whole |-> TRUE, result |-> "none"]

Init ==
    /\ registry \in Registries
    /\ creds \in {"full", "user", "none"}
    /\ req = [c \in Callers |-> Idle]
    /\ count = [c \in Callers |-> 0]
    /\ granted = 0 /\ ticks = 0 /\ sends = 0 /\ asks = 0
    /\ cancelled = FALSE

-----------------------------------------------------------------------------
(* What the registry makes of a request.                                    *)

\* The rights a request carries.  Basic credentials without a user are none.
Carried(r) ==
    LET k == registry.kind IN
    IF k = "open" THEN AllRights
    ELSE IF r.scheme = "basic"
         THEN IF k # "bearer" /\ creds # "none" THEN registry.account ELSE {}
    ELSE IF r.scheme = "bearer"
         THEN IF k \in {"bearer", "both"} THEN r.rights ELSE {}
    ELSE IF k = "both" THEN registry.public ELSE {}

Allowed(r) == Needs[r.op] \subseteq Carried(r)

\* What it does when it carries the request out.
Served(r) == IF r.op = "put" /\ ~r.whole THEN "refused" ELSE "ok"

-----------------------------------------------------------------------------
(* doRequest.                                                               *)

Ends(c, result) ==
    req' = [req EXCEPT ![c] = [Idle EXCEPT !.op = req[c].op, !.result = result]]

Begin(c, op) ==
    /\ req[c].at = "idle"
    /\ count[c] < MaxRequests
    /\ count' = [count EXCEPT ![c] = @ + 1]
    /\ req' = [req EXCEPT ![c] = [Idle EXCEPT !.at = "limit", !.op = op]]
    /\ UNCHANGED <<fixed, counters, cancelled>>

\* The credentials go with a request when they are complete.
FirstScheme == IF creds = "full" THEN "basic" ELSE "none"

\* Limiter.Wait: a bucket of qps permits, full at first.
Permit(c) ==
    /\ req[c].at = "limit"
    /\ Qps > 0 => granted < Qps + ticks
    /\ granted' = granted + 1
    /\ req' = [req EXCEPT ![c].at = "first",
                          ![c].scheme = FirstScheme]
    /\ UNCHANGED <<fixed, count, ticks, sends, asks, cancelled>>

WaitCancelled(c) ==
    /\ req[c].at = "limit" /\ cancelled /\ Qps > 0
    /\ Ends(c, "error")
    /\ UNCHANGED <<fixed, count, counters, cancelled>>

\* The answer to a request that is allowed.  PutBlob goes on with an upload.
Answered(c) ==
    IF req[c].op = "upload" THEN req' = [req EXCEPT ![c].at = "patch"]
    ELSE Ends(c, Served(req[c]))

\* The first answer.  After a 401 the reader of the body has been read.
SendFirst(c) ==
    /\ req[c].at = "first" /\ ~cancelled
    /\ sends' = sends + 1
    /\ \/ Allowed(req[c]) /\ Answered(c)
       \/ /\ ~Allowed(req[c])
          /\ req' = [req EXCEPT ![c].at = "challenged", ![c].whole = FALSE]
    /\ UNCHANGED <<fixed, count, granted, ticks, asks, cancelled>>

\* A Basic challenge has no parameter "realm": "Basic realm" is its key.
NoRealm(c) ==
    /\ req[c].at = "challenged"
    /\ registry.kind = "basic"
    /\ Ends(c, "error")
    /\ UNCHANGED <<fixed, count, counters, cancelled>>

\* No challenge: once more, with the credentials there are.
TryBasic(c) ==
    /\ req[c].at = "challenged"
    /\ registry.kind = "bare"
    /\ req' = [req EXCEPT ![c].at = "second", ![c].scheme = "basic"]
    /\ UNCHANGED <<fixed, count, counters, cancelled>>

\* Mutant: the token is asked for without the credentials.
GetTokenAnonymous(c) ==
    /\ req[c].at = "challenged" /\ ~cancelled
    /\ registry.kind \in {"bearer", "both"}
    /\ asks' = asks + 1
    /\ \E action \in Needs[req[c].op] :
         req' = [req EXCEPT ![c].at = "second", ![c].scheme = "bearer",
                            ![c].rights = {action} \cap registry.public]
    /\ UNCHANGED <<fixed, count, granted, ticks, sends, cancelled>>

\* getBearerToken, which the limiter does not see.  parseAuthHeader cuts the
\* header at its commas, so only the first action of the scope is asked for.
GetToken(c) ==
    /\ req[c].at = "challenged" /\ ~cancelled
    /\ registry.kind \in {"bearer", "both"}
    /\ asks' = asks + 1
    /\ \E action \in Needs[req[c].op] :
         req' = [req EXCEPT
                   ![c].at = "second", ![c].scheme = "bearer",
                   ![c].rights = {action} \cap (registry.public \cup
                       IF creds = "full" THEN registry.account ELSE {})]
    /\ UNCHANGED <<fixed, count, granted, ticks, sends, cancelled>>

\* Mutant: a second 401 is challenged again.
SendSecondAgain(c) ==
    /\ req[c].at = "second" /\ ~cancelled
    /\ sends' = sends + 1
    /\ \/ Allowed(req[c]) /\ Answered(c)
       \/ ~Allowed(req[c]) /\ req' = [req EXCEPT ![c].at = "challenged"]
    /\ UNCHANGED <<fixed, count, granted, ticks, asks, cancelled>>

\* The second answer is the caller's, whatever it is.
SendSecond(c) ==
    /\ req[c].at = "second" /\ ~cancelled
    /\ sends' = sends + 1
    /\ IF Allowed(req[c]) THEN Answered(c) ELSE Ends(c, "denied")
    /\ UNCHANGED <<fixed, count, granted, ticks, asks, cancelled>>

\* uploadContent and completeUpload: a PATCH and a PUT that pass by the
\* limiter and answer no challenge.
SendRest(c) ==
    /\ req[c].at \in {"patch", "close"} /\ ~cancelled
    /\ sends' = sends + 1
    /\ LET allowed == Allowed([req[c] EXCEPT !.scheme = FirstScheme]) IN
       \/ allowed /\ req[c].at = "patch" /\ req' = [req EXCEPT ![c].at = "close"]
       \/ allowed /\ req[c].at = "close" /\ Ends(c, "ok")
       \/ ~allowed /\ Ends(c, "denied")
    /\ UNCHANGED <<fixed, count, granted, ticks, asks, cancelled>>

\* A connection, a timeout, a status that is neither a success nor a 401, or
\* the context.  The request may have been sent.
Fails(c) ==
    /\ req[c].at \in {"first", "challenged", "second", "patch", "close"}
    /\ req[c].at = "challenged" => registry.kind \in {"bearer", "both"}
    /\ \/ UNCHANGED <<sends, asks>>
       \/ /\ ~cancelled
          /\ IF req[c].at = "challenged"
             THEN asks' = asks + 1 /\ UNCHANGED sends
             ELSE sends' = sends + 1 /\ UNCHANGED asks
    /\ Ends(c, "error")
    /\ UNCHANGED <<fixed, count, granted, ticks, cancelled>>

Refill ==
    /\ Qps > 0 /\ ticks < granted
    /\ ticks' = ticks + 1
    /\ UNCHANGED <<fixed, req, count, granted, sends, asks, cancelled>>

Cancel ==
    /\ ~cancelled
    /\ cancelled' = TRUE
    /\ UNCHANGED <<fixed, req, count, counters>>

-----------------------------------------------------------------------------
Step(c) == \/ Permit(c) \/ WaitCancelled(c) \/ SendFirst(c) \/ NoRealm(c)
           \/ TryBasic(c) \/ GetToken(c) \/ SendSecond(c) \/ SendRest(c) \/ Fails(c)

Next == \/ \E c \in Callers : Step(c) \/ \E op \in Ops : Begin(c, op)
        \/ Refill \/ Cancel

Spec == Init /\ [][Next]_vars

-----------------------------------------------------------------------------
(* Properties.                                                              *)

\* The variables keep their types.
RequestTypeOK ==
    /\ registry \in Registries
    /\ creds \in {"full", "user", "none"}
    /\ req \in [Callers ->
                  [at: {"idle", "limit", "first", "challenged", "second",
                        "patch", "close"},
                   op: Ops, scheme: {"none", "basic", "bearer"},
                   rights: SUBSET AllRights, whole: BOOLEAN,
                   result: {"none", "ok", "refused", "denied", "error"}]]
    /\ count \in [Callers -> 0..MaxRequests]
    /\ granted \in Nat /\ ticks \in Nat /\ sends \in Nat /\ asks \in Nat
    /\ cancelled \in BOOLEAN

\* What the registry entitles the client to: what it serves to the public, if
\* it serves anything without credentials, and what the account may do.
Entitled == (IF registry.kind \in {"bearer", "both"} THEN registry.public ELSE {})
            \cup (IF creds = "full" THEN registry.account ELSE {})

\* A read is denied only to a client that may not read: it gets through
\* every kind of challenge that doRequest answers.
ReadsGetThrough == \A c \in Callers :
    req[c].result = "denied" /\ req[c].op \in {"get", "catalog"}
        => ~(Needs[req[c].op] \subseteq Entitled)

\* Although the answer to a 401, its token and the rest of an upload pass by
\* the limiter, one permit lets through at most four requests to the registry
\* (two, and two more of an upload) and one to its token server, and the
\* permits keep to the bucket: in the time of t ticks, at most qps + t.
RateKept ==
    /\ Qps > 0 => granted <= Qps + ticks
    /\ sends <= 4 * granted
    /\ asks <= granted

-----------------------------------------------------------------------------
\* client.go:122 "Retry with token", for a tool that "support[s] Docker Hub,
\* Harbor, ACR" (USER_MANUAL.md:44): a push, too, is denied only to an
\* account that may not push.
PushesGetThrough == \A c \in Callers :
    req[c].result = "denied" /\ registry.kind \in {"bearer", "both"}
        => ~(Needs[req[c].op] \subseteq Entitled)
=============================================================================
