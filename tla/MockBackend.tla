---------------------------- MODULE MockBackend ----------------------------
(* The backend as crates/revenuecat-mock serves it.  Each handler is an      *)
(* operator from the server's state and a request to its reply, which        *)
(* carries the next state.  A handler takes the server's mutexes one after   *)
(* another; no other handler writes between them what it reads (the use of a *)
(* token is decided under one lock), so a handler is one step.               *)
(*                                                                           *)
(* What a subscriber holds is the token of each purchase.  Products are one  *)
(* subscription and one consumable; dates are the second (`at`) in which the *)
(* answer was made.                                                          *)
EXTENDS Naturals, Sequences

CONSTANTS Users, Receipts, NoToken, Nobody

Products == {"monthly", "coins"}

\* Redemption tokens: one that grants coins, an expired one; any other is unknown.
Vouchers == {"valid", "expired"}

Tokens == Receipts \union Vouchers

\* Attributes as far as the validation tells them apart.
Attributes == {"email", "malformedEmail", "unknownReserved"}

Subscriber == [known: BOOLEAN, plan: Tokens \union {NoToken}, coins: Seq(Tokens),
               attributes: SUBSET Attributes]

Server == [subscribers: [Users -> Subscriber],
           used: [Receipts -> Users \union {Nobody}],
           redeemed: [Vouchers -> Users \union {Nobody}],
           at: Nat]

NewServer ==
  [subscribers |-> [u \in Users |->
      [known |-> FALSE, plan |-> NoToken, coins |-> <<>>, attributes |-> {}]],
   used |-> [t \in Receipts |-> Nobody],
   redeemed |-> [v \in Vouchers |-> Nobody],
   at |-> 0]

-----------------------------------------------------------------------------
EnsureSubscriber(s, u) == [s EXCEPT !.subscribers[u].known = TRUE]

\* A subscription replaces the last one of the product, a consumable is added.
GrantProduct(s, u, product, token) ==
  IF product = "monthly"
  THEN [s EXCEPT !.subscribers[u].plan = token]
  ELSE [s EXCEPT !.subscribers[u].coins = Append(@, token)]

\* The envelope is about the user, what the user holds and when it was asked.
Envelope(s, u) ==
  [of |-> u, plan |-> s.subscribers[u].plan, coins |-> s.subscribers[u].coins, at |-> s.at]

\* Bodies that do not depend on purchases or on the time (offerings, currencies).
CatalogPage(u) == [of |-> u, plan |-> NoToken, coins |-> <<>>, at |-> 0]

Contents == [of: Users, plan: Tokens \union {NoToken}, coins: Seq(Tokens), at: Nat]

Replied(s, status, code, content) ==
  [server |-> s, status |-> status, code |-> code, content |-> content]

BackendError(s, u, status, code) == Replied(s, status, code, CatalogPage(u))

\* The ETag is the hash of the body: it stands for the body.  A test can force
\* the answer 304.
ETagResponse(s, content, etag, forced) ==
  Replied(s, IF forced \/ etag = content THEN 304 ELSE 200, 0, content)

GetSubscriber(s, u, etag, forced) ==
  LET known == EnsureSubscriber(s, u) IN
  ETagResponse(known, Envelope(known, u), etag, forced)

GetOfferings(s, u, etag, forced) ==
  ETagResponse(EnsureSubscriber(s, u), CatalogPage(u), etag, forced)

GetVirtualCurrencies(s, u, etag, forced) ==
  ETagResponse(EnsureSubscriber(s, u), CatalogPage(u), etag, forced)

\* No ETag: the client never stores this answer.
GetProducts(s, u) == Replied(EnsureSubscriber(s, u), 200, 0, CatalogPage(u))

PostReceipts(s, u, token, product) ==
  IF product \notin Products THEN BackendError(s, u, 400, 7662)
  ELSE IF s.used[token] \notin {u, Nobody} THEN BackendError(s, u, 400, 7102)
  ELSE LET granted == GrantProduct(EnsureSubscriber([s EXCEPT !.used[token] = u], u),
                                   u, product, token)
       IN Replied(granted, 200, 0, Envelope(granted, u))

\* A new identity takes over what the old one holds.
PostIdentify(s, u, new) ==
  LET known == EnsureSubscriber(s, u)
      created == ~known.subscribers[new].known
      switched == IF created
                  THEN [known EXCEPT !.subscribers[new] = known.subscribers[u]]
                  ELSE known
  IN Replied(switched, IF created THEN 201 ELSE 200, 0, Envelope(switched, new))

PostRedeem(s, u, voucher) ==
  LET known == EnsureSubscriber(s, u) IN
  IF voucher \notin Vouchers THEN BackendError(known, u, 400, 7849)
  ELSE IF voucher = "expired" THEN BackendError(known, u, 403, 7853)
  ELSE IF known.redeemed[voucher] \notin {u, Nobody} THEN BackendError(known, u, 403, 7852)
  ELSE LET granted == GrantProduct([known EXCEPT !.redeemed[voucher] = u], u, "coins", voucher)
       IN Replied(granted, 200, 0, Envelope(granted, u))

\* All attributes are saved, or none.
PostAttributes(s, u, attributes) ==
  LET known == EnsureSubscriber(s, u) IN
  IF attributes \intersect {"malformedEmail", "unknownReserved"} # {}
  THEN BackendError(known, u, 400, 7263)
  ELSE Replied([known EXCEPT !.subscribers[u].attributes = @ \union attributes],
               200, 0, CatalogPage(u))
=============================================================================
