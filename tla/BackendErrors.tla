--------------------------- MODULE BackendErrors ---------------------------
(* How an error answer of the backend becomes an error of the SDK (error.rs, *)
(* http/client.rs).  Callers decide by the code of the error what to do.     *)
EXTENDS Integers

\* map_backend_code: the codes the SDK knows.
KnownBackendCodes ==
  [ConfigurationError               |-> {7000, 7230, 7255, 8077},
   InvalidEmailError                |-> {7012, 7834, 7879},
   StoreProblemError                |-> {7101, 7229, 7231, 7773, 8172, 8174} \union 7898..7901,
   ReceiptAlreadyInUseError         |-> {7102},
   InvalidReceiptError              |-> {7103, 7712},
   UnexpectedBackendResponseError   |-> {7104, 7110, 7114, 7226, 7234},
   PurchaseInvalidError             |-> {7105, 7106, 7814, 7849, 7853, 7870, 7877, 7878, 8139, 8140},
   InvalidCredentialsError          |-> {7107, 7224, 7225, 7967, 7981},
   InvalidAppUserIdError            |-> {7220, 7256},
   IneligibleError                  |-> {7232},
   CustomerInfoError                |-> {7259},
   InvalidSubscriberAttributesError |-> {7263, 7264},
   OperationAlreadyInProgressError  |-> {7629, 7638},
   PaymentPendingError              |-> {7651},
   UnsupportedError                 |-> {7662},
   ProductAlreadyPurchasedError     |-> {7772, 7852}]

MapBackendCode(code) ==
  LET kinds == {k \in DOMAIN KnownBackendCodes : code \in KnownBackendCodes[k]}
  IN IF kinds = {} THEN "UnknownBackendError" ELSE CHOOSE k \in kinds : TRUE

\* parse_backend_error: `body` is "json" if it parses; `code` is its code, 0
\* without one.
ParseBackendError(status, body, code) ==
  IF body # "json"
  THEN IF status >= 500 THEN "UnknownBackendError" ELSE "UnexpectedBackendResponseError"
  ELSE IF code > 0 THEN MapBackendCode(code)
  ELSE "UnknownBackendError"
=============================================================================
