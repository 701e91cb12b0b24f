----------------------------- MODULE HttpClient -----------------------------
(* The requests of the SDK: options per endpoint (backend.rs), retries, the  *)
(* ETag cache and the verification of answers (http/client.rs, etag.rs),     *)
(* against the backend of MockBackend and a network that loses requests and  *)
(* answers.  One request per caller; the requests share the ETag cache.      *)
EXTENDS MockBackend

CONSTANTS Callers, MaxCalls, MaxTime, NoEntry, NoReply, NoRequest, NoResult,
          Apps  \* the sets of endpoints that are used together (bound)

Modes == {"disabled", "informational", "enforced"}

Endpoints == {"get_customer", "get_offerings", "get_virtual_currencies", "get_products",
              "post_receipt", "log_in", "attributes", "post_redeem_web_purchase"}

\* What backend.rs asks of the client for each endpoint.
Gets == {"get_customer", "get_offerings", "get_virtual_currencies", "get_products"}

VerifiedEndpoints == Endpoints \ {"get_products", "attributes"}

RetryableEndpoints == {"post_receipt", "post_redeem_web_purchase"}

Attempts == 3  \* RETRY_BACKOFF.len()

\* The arguments of an endpoint beside the user.
Arguments(endpoint) ==
  CASE endpoint \in Gets                      -> {<<>>}
    [] endpoint = "post_receipt"              -> Receipts \X (Products \union {"unknown"})
    [] endpoint = "log_in"                    -> {<<u>> : u \in Users}
    [] endpoint = "attributes"                -> {<<{"email"}>>, <<{"email", "unknownReserved"}>>}
    [] endpoint = "post_redeem_web_purchase"  -> {<<v>> : v \in Vouchers \union {"unknown"}}

Requests == UNION {{[endpoint |-> e, user |-> u, args |-> a] : u \in Users, a \in Arguments(e)}
                   : e \in Endpoints}

\* The cache is keyed by URL: the endpoint and the user.
Url(request) == <<request.endpoint, request.user>>

Urls == Gets \X Users

\* A body as it arrived: what it says, and whether this is what was sent.
Bodies == [content: Contents, genuine: BOOLEAN]

Verifications == {"notRequested", "verified", "failed"}

Entries == [etag: Contents, body: Bodies, verification: Verifications]

\* `signed`: the signature matches.
Replies == [status: {200, 201, 304, 400, 403, 429, 500}, code: Nat, body: Bodies,
            etag: Contents \union {NoEntry}, signed: BOOLEAN]

\* The code of an error: the backend's, or one of the client's own.
Errors == {"network", "signature", "rateLimited", "notModified", "backend"}

Results == [ok: {TRUE}, status: {200, 201}, body: Bodies, verification: Verifications]
             \union [ok: {FALSE}, error: Errors, code: Nat]

Calls == [at: {"idle", "sent", "answered", "waiting", "done"},
          request: Requests \union {NoRequest}, etag: Contents \union {NoEntry},
          refresh: BOOLEAN, attempt: 0..(Attempts - 1), reply: Replies \union {NoReply},
          result: Results \union {NoResult}, handled: Nat]

VARIABLES
  mode,    \* the configured verification mode
  app,     \* the endpoints in use (bound)
  etags,   \* ETagManager: a response per URL
  call,    \* the request of each caller
  calls,   \* how many were made (bound)
  server

vars == <<mode, app, etags, call, calls, server>>

Idle == [at |-> "idle", request |-> NoRequest, etag |-> NoEntry, refresh |-> FALSE,
         attempt |-> 0, reply |-> NoReply, result |-> NoResult, handled |-> 0]

Init == /\ mode \in Modes
        /\ app \in Apps
        /\ etags = [url \in Urls |-> NoEntry]
        /\ call = [c \in Callers |-> Idle]
        /\ calls = 0
        /\ server = NewServer

-----------------------------------------------------------------------------
Verifying(request) == mode # "disabled" /\ request.endpoint \in VerifiedEndpoints

\* The ETag a request carries; NoEntry stands for the empty one.
RequestETag(request, refresh) ==
  IF request.endpoint \notin Gets \/ refresh THEN NoEntry
  ELSE LET entry == etags[Url(request)] IN
       IF entry = NoEntry \/ (Verifying(request) /\ entry.verification # "verified")
       THEN NoEntry
       ELSE entry.etag

Call(c, request) ==
  /\ call[c].at = "idle"
  /\ calls < MaxCalls /\ request.endpoint \in app
  /\ calls' = calls + 1
  /\ call' = [call EXCEPT ![c] = [Idle EXCEPT !.at = "sent", !.request = request,
                                              !.etag = RequestETag(request, FALSE)]]
  /\ UNCHANGED <<mode, app, etags, server>>

-----------------------------------------------------------------------------
(* The server and the network. *)

Handled(r, etag, forced) ==
  CASE r.endpoint = "get_customer"           -> GetSubscriber(server, r.user, etag, forced)
    [] r.endpoint = "get_offerings"          -> GetOfferings(server, r.user, etag, forced)
    [] r.endpoint = "get_virtual_currencies" -> GetVirtualCurrencies(server, r.user, etag, forced)
    [] r.endpoint = "get_products"           -> GetProducts(server, r.user)
    [] r.endpoint = "post_receipt"           -> PostReceipts(server, r.user, r.args[1], r.args[2])
    [] r.endpoint = "log_in"                 -> PostIdentify(server, r.user, r.args[1])
    [] r.endpoint = "attributes"             -> PostAttributes(server, r.user, r.args[1])
    [] r.endpoint = "post_redeem_web_purchase" -> PostRedeem(server, r.user, r.args[1])

HasETag(r) == r.endpoint \in Gets \ {"get_products"}

\* The answer is signed on every endpoint that is verified; on its way body and
\* signature may stop to match.  Where nobody looks this is not told apart.
ServerHandles(c) ==
  /\ call[c].at = "sent"
  /\ \E forced \in BOOLEAN, signed \in BOOLEAN, genuine \in BOOLEAN :
       LET r == call[c].request
           handled == Handled(r, call[c].etag, forced)
       IN /\ forced => HasETag(r)
          /\ signed => genuine /\ Verifying(r)
          /\ ~genuine => Verifying(r)
          /\ call' = [call EXCEPT
               ![c].at = "answered", ![c].handled = @ + 1,
               ![c].reply = [status |-> handled.status, code |-> handled.code,
                             body |-> [content |-> handled.content, genuine |-> genuine],
                             etag |-> IF HasETag(r) THEN handled.content ELSE NoEntry,
                             signed |-> signed]]
          /\ server' = handled.server
  /\ UNCHANGED <<mode, app, etags, calls>>

\* Refused before the request has any effect: too many requests, an outage.
ServerRefuses(c) ==
  /\ call[c].at = "sent"
  /\ \E status \in {429, 500} :
       call' = [call EXCEPT ![c] = [@ EXCEPT
         !.at = "answered",
         !.reply = [status |-> status, code |-> 0, signed |-> FALSE,
                    body |-> [content |-> CatalogPage(call[c].request.user), genuine |-> TRUE],
                    etag |-> NoEntry]]]
  /\ UNCHANGED <<mode, app, etags, calls, server>>

\* The date of an answer matters where it may be stored.
TimePasses ==
  /\ server.at < MaxTime
  /\ "get_customer" \in app
  /\ server' = [server EXCEPT !.at = @ + 1]
  /\ UNCHANGED <<mode, app, etags, call, calls>>

-----------------------------------------------------------------------------
Ends(c, result) ==
  call' = [call EXCEPT ![c] = [@ EXCEPT !.at = "done", !.reply = NoReply, !.result = result]]

Fails(c, error, code) == Ends(c, [ok |-> FALSE, error |-> error, code |-> code])

\* Faulty variant of MayRetry: an attempt too many.
MayRetryOnceMore(c) == /\ ~call[c].refresh
                       /\ call[c].request.endpoint \in RetryableEndpoints
                       /\ call[c].attempt < Attempts

MayRetry(c) == /\ ~call[c].refresh
               /\ call[c].request.endpoint \in RetryableEndpoints
               /\ call[c].attempt + 1 < Attempts

\* Faulty variant of Lost: tried again like a refusal.
LostAndRetried(c) ==
  /\ call[c].at \in {"sent", "answered"}
  /\ IF MayRetry(c)
     THEN call' = [call EXCEPT ![c] = [@ EXCEPT !.at = "waiting", !.reply = NoReply]]
     ELSE Fails(c, "network", 0)
  /\ UNCHANGED <<mode, app, etags, calls, server>>

\* The answer, or the connection, is lost, or the request times out.
Lost(c) ==
  /\ call[c].at \in {"sent", "answered"}
  /\ Fails(c, "network", 0)
  /\ UNCHANGED <<mode, app, etags, calls, server>>

\* verify_response; "rejected" is the error of the enforced mode.
Verification(request, reply) ==
  IF ~Verifying(request) THEN "notRequested"
  ELSE IF reply.signed THEN "verified"
  ELSE IF mode = "enforced" THEN "rejected"
  ELSE "failed"

\* Faulty variant of Storable: an answer that failed verification is stored.
StorableUnverified(request, reply, verification) ==
  request.endpoint \in Gets /\ reply.etag # NoEntry

Storable(request, reply, verification) ==
  /\ request.endpoint \in Gets
  /\ verification # "failed"
  /\ reply.etag # NoEntry

\* A 2xx answer, verified and stored.
Resolves(c) ==
  LET r == call[c].request
      reply == call[c].reply
      verification == Verification(r, reply)
  IN /\ call[c].at = "answered"
     /\ reply.status \in {200, 201}
     /\ IF verification = "rejected"
        THEN /\ Fails(c, "signature", 0)
             /\ UNCHANGED etags
        ELSE /\ Ends(c, [ok |-> TRUE, status |-> reply.status, body |-> reply.body,
                         verification |-> verification])
             /\ etags' = IF Storable(r, reply, verification)
                         THEN [etags EXCEPT ![Url(r)] =
                                 [etag |-> reply.etag, body |-> reply.body,
                                  verification |-> verification]]
                         ELSE etags
     /\ UNCHANGED <<mode, app, calls, server>>

\* An error answer is not verified and not stored.
BackendRefuses(c) ==
  /\ call[c].at = "answered"
  /\ call[c].reply.status \in {400, 403, 500}
  /\ Fails(c, "backend", call[c].reply.code)
  /\ UNCHANGED <<mode, app, etags, calls, server>>

\* 304: the entry as it is now is replayed with the verification of this answer.
NotModified(c) ==
  LET r == call[c].request
      verification == Verification(r, call[c].reply)
      entry == etags[Url(r)]
  IN /\ call[c].at = "answered"
     /\ call[c].reply.status = 304
     /\ \/ /\ verification = "rejected"
           /\ Fails(c, "signature", 0)
        \/ /\ verification # "rejected"
           /\ entry # NoEntry
           /\ Ends(c, [ok |-> TRUE, status |-> 200, body |-> entry.body,
                       verification |-> verification])
        \/ /\ verification # "rejected"
           /\ entry = NoEntry
           /\ IF call[c].refresh
              THEN Fails(c, "notModified", 0)
              ELSE call' = [call EXCEPT ![c].at = "sent", ![c].refresh = TRUE,
                                        ![c].etag = RequestETag(r, TRUE), ![c].reply = NoReply]
     /\ UNCHANGED <<mode, app, etags, calls, server>>

RateLimited(c) ==
  /\ call[c].at = "answered"
  /\ call[c].reply.status = 429
  /\ IF MayRetry(c)
     THEN call' = [call EXCEPT ![c] = [@ EXCEPT !.at = "waiting", !.reply = NoReply]]
     ELSE Fails(c, "rateLimited", 0)
  /\ UNCHANGED <<mode, app, etags, calls, server>>

\* The delay is over: the next attempt.
Retry(c) ==
  /\ call[c].at = "waiting"
  /\ call' = [call EXCEPT ![c].at = "sent", ![c].attempt = @ + 1,
                          ![c].etag = RequestETag(call[c].request, FALSE)]
  /\ UNCHANGED <<mode, app, etags, calls, server>>

\* The caller takes the result.
Returned(c) ==
  /\ call[c].at = "done"
  /\ call' = [call EXCEPT ![c] = Idle]
  /\ UNCHANGED <<mode, app, etags, calls, server>>

Next ==
  \/ \E c \in Callers :
       \/ \E request \in Requests : Call(c, request)
       \/ ServerHandles(c) \/ ServerRefuses(c) \/ Lost(c)
       \/ Resolves(c) \/ BackendRefuses(c) \/ NotModified(c) \/ RateLimited(c)
       \/ Retry(c) \/ Returned(c)
  \/ TimePasses

Spec == Init /\ [][Next]_vars

-----------------------------------------------------------------------------
TypeOK == /\ mode \in Modes /\ app \in Apps
          /\ etags \in [Urls -> Entries \union {NoEntry}]
          /\ call \in [Callers -> Calls]
          /\ calls \in 0..MaxCalls
          /\ server \in Server

Successful(c) == call[c].at = "done" /\ call[c].result.ok

\* A result that says it is verified is what the backend sent, in the enforced
\* mode every result of an endpoint that is signed is, and a GET answers its own
\* user: stored answers included, which another request may have replaced while
\* this one was under way (client.rs:385, etag.rs:40).
VerifiedIsGenuine ==
  \A c \in Callers : Successful(c) =>
    LET result == call[c].result IN
    /\ result.verification = "verified" => result.body.genuine
    /\ mode = "enforced" /\ call[c].request.endpoint \in VerifiedEndpoints
         => result.verification = "verified"
    /\ call[c].request.endpoint \in Gets
         => result.body.content.of = call[c].request.user

\* What the backend may have done is not sent again: however answers are lost,
\* refused and tried again, a POST is handled once at most (client.rs:393).
HandledOnce ==
  \A c \in Callers : call[c].at # "idle" /\ call[c].request.endpoint \notin Gets
    => call[c].handled <= 1
=============================================================================
