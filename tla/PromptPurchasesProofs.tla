------------------------ MODULE PromptPurchasesProofs ------------------------
(* What PendingPurchases promises when Play is prompt, for any calls,       *)
(* products, tokens and bounds: a call is resolved only with the purchase   *)
(* it made, its offer and attribution stay with that purchase until the app *)
(* finishes it, and no sheet opens for a product whose payment is pending.  *)
EXTENDS PendingPurchasesProofs

-----------------------------------------------------------------------------
(* The inductive invariant *)

\* Something is due: an announcement, the answer of a query, or a step of a command.
Mid == {"answered", "prepared", "registered"}
OneIsDue ==
  /\ \A u, v \in updates : u = v
  /\ updates # {} => owned = NONE
  /\ \A c \in Calls : call[c].at \in Mid =>
       /\ updates = {} /\ owned = NONE
       /\ \A d \in Calls : call[d].at \in Mid => d = c

\* The registered callback belongs to the command whose sheet is open, or whose purchase
\* is announced; it has the command's product and, once the sheet is open, its context.
CallbackIsOfSheet ==
  purchases # NONE =>
    LET mine == call[purchases.call]
    IN /\ purchases.product = mine.product
       /\ mine.at \in {"registered", "open"} \/ (mine.at = "done" /\ updates # {})
       /\ purchases.context = IF mine.at = "registered" THEN NONE ELSE mine.context

\* An open sheet is that of the callback, or was left over by a process that died.
LeftOver(c) == call[c].at = "open" /\ call[c].answer = "lost"
SheetsAreAwaited ==
  \A c \in Calls :
    /\ call[c].context \in {c, NONE}
    /\ call[c].at \in {"registered", "open"} =>
         LeftOver(c) \/ (purchases # NONE /\ purchases.call = c)
    /\ LeftOver(c) =>
         purchases = NONE /\ \A d \in Calls : call[d].at \in {"idle", "open", "done"}

\* No payment of the product is pending while its sheet may open or is open.
Clear(p) == ~\E t \in Tokens : play[t].state = "pending" /\ p \in play[t].products
SheetIsClear ==
  purchases # NONE /\ call[purchases.call].at # "done" => Clear(purchases.product)

\* What Play answered is still so.
SnapshotsAreFresh ==
  /\ owned # NONE => owned \in {Snapshot, Nothing}
  /\ \A c \in Calls :
       /\ call[c].at = "answered" => call[c].snapshot = Snapshot
       /\ call[c].at = "prepared" => purchases # NONE \/ Clear(call[c].product)

\* What Play announced is still so; it names the product of the callback exactly when it
\* is of the purchase made there, whose token is new.
AnnouncementsAreTrue ==
  \A u \in updates :
    /\ u.token # NONE =>
         /\ u.state \in {"pending", "purchased"}
         /\ u.state = play[u.token].state /\ u.products = play[u.token].products
    /\ purchases # NONE =>
         (call[purchases.call].at = "done" <=> Active(RejectedProducts(u)))
    /\ u.token # NONE /\ Active(u.products) =>
         /\ play[u.token].buyer = purchases.call
         /\ u.token \notin Correlated \union finishing \union history.older[purchases.call]

\* Play issued every token the app has.
Issued == {t \in Tokens : play[t].state # "none"}
TokensAreIssued ==
  /\ finishing \union handed \subseteq Issued
  /\ \A c \in Calls : history.older[c] \subseteq Issued
  /\ \A t \in Tokens \ Issued : play[t].buyer = NONE

\* A correlation tells the truth about its token.
Gone(t) == t \in finishing \/ play[t].state \in {"consumed", "acknowledged"}
Fits(t, correlation) ==
  /\ t \in Issued
  /\ correlation.context \in {NONE, play[t].buyer}
  /\ play[t].state = "pending" => correlation.products = play[t].products
  /\ Gone(t) => ~correlation.durable
MapsAreTrue ==
  /\ \A t \in Correlated : Fits(t, Existing(t))
  /\ \A t \in DOMAIN disk : Fits(t, disk[t])

\* What is on disk is in memory too.
JournalIsBehind == DOMAIN disk \subseteq Before

\* A purchase that was reported with a context keeps it, in memory and on disk.
Reported(c, t) == call[c].answer = t /\ call[c].context # NONE /\ t \notin history.cleared
Keeps(c, t, correlation) ==
  correlation.durable /\ correlation.context = c /\ correlation.products = play[t].products
ReportedAreKept ==
  \A c \in Calls, t \in Tokens : Reported(c, t) /\ ~corrupt =>
    /\ t \in Correlated /\ Keeps(c, t, Existing(t))
    /\ t \in DOMAIN disk /\ Keeps(c, t, disk[t])

\* A call is resolved with a purchase of its own that is complete.
AnswersAreTrue ==
  \A c \in Calls, t \in Tokens : call[c].answer = t =>
    /\ play[t].buyer = c /\ play[t].state \in {"purchased", "acknowledged", "consumed"}
    /\ t \notin history.older[c]

SheetsAreSound ==
  /\ OneIsDue /\ CallbackIsOfSheet /\ SheetsAreAwaited /\ SheetIsClear
  /\ SnapshotsAreFresh /\ AnnouncementsAreTrue
StoreIsTrue ==
  /\ TokensAreIssued /\ MapsAreTrue /\ JournalIsBehind /\ ReportedAreKept /\ AnswersAreTrue
PromptIInv == Prompt /\ StoreIInv /\ SheetsAreSound /\ StoreIsTrue

-----------------------------------------------------------------------------
(* Commands and their sheets *)

LEMMA WhatIsKnown ==
  ASSUME PromptIInv
  PROVE  /\ Prompt /\ StoreIInv /\ TypeOK /\ SheetsAreSound /\ StoreIsTrue
         /\ StoreIsSound /\ CommandsAreSound /\ PlayIsSound
         /\ call \in [Calls -> Command]
         /\ purchases # NONE =>
              /\ purchases.call \in Calls /\ purchases.product \in Products
              /\ call[purchases.call].answer = NONE
              /\ call[purchases.call].at \notin BeforeRegister
         /\ \A c \in Calls : call[c].at \in BeforeRegister => call[c].answer = NONE
         /\ updates \subseteq Update
  BY PartsOfIInv DEF PromptIInv, StoreIInv, TypeOK, CallbacksAreDue, BeforeRegister, Registration

\* Quiet steps begin when nothing is due.
LEMMA NothingIsDue ==
  ASSUME PromptIInv, Quiet
  PROVE  /\ updates = {} /\ owned = NONE /\ \A c \in Calls : call[c].at \notin Mid
         /\ purchases # NONE => call[purchases.call].at = "open"
<1>1. updates = {} /\ owned = NONE /\ \A c \in Calls : call[c].at \notin Mid
  BY WhatIsKnown DEF Quiet, Settled, Mid
<1>2. purchases # NONE => call[purchases.call].at = "open"
  BY <1>1, WhatIsKnown DEF SheetsAreSound, CallbackIsOfSheet, Mid
<1> QED
  BY <1>1, <1>2

\* Command c goes on to a stage.
GoesTo(c, at) ==
  /\ \A d \in Calls \ {c} : call'[d] = call[d]
  /\ call'[c].at = at /\ call'[c].product = call[c].product
  /\ call'[c].context = call[c].context

LEMMA RejectGoesTo ==
  ASSUME NEW c \in Calls, call \in [Calls -> Command], call[c].at \in BeforeRegister, Reject(c)
  PROVE  GoesTo(c, "done") /\ call'[c].answer = "rejected"
<1> DEFINE new == [call[c] EXCEPT !.answer = "rejected", !.snapshot = Nothing, !.at = "done"]
<1>1. call[c] \in Command
  OBVIOUS
<1>2. call' = [call EXCEPT ![c] = new]
  BY DEF Reject, Answered, Unsettled, BeforeRegister
<1>3. new.at = "done" /\ new.product = call[c].product /\ new.context = call[c].context
      /\ new.answer = "rejected"
  BY <1>1 DEF Command
<1> HIDE DEF new
<1> QED
  BY <1>2, <1>3 DEF GoesTo

LEMMA PurchaseSheets ==
  ASSUME PromptIInv, NEW c \in Calls, Purchase(c)
  PROVE  SheetsAreSound'
<1>1. PICK p \in Products, context \in {c, NONE} :
        call' = [call EXCEPT ![c].at = "querying", ![c].product = p, ![c].context = context]
  BY DEF Purchase
<1> DEFINE new == [call[c] EXCEPT !.at = "querying", !.product = p, !.context = context]
<1>2. /\ updates = {} /\ owned = NONE /\ \A d \in Calls : call[d].at \notin Mid
      /\ purchases # NONE => purchases.call \in Calls /\ call[purchases.call].at = "open"
  BY NothingIsDue, WhatIsKnown DEF Purchase
<1>3. /\ call[c] \in Command /\ call[c].at = "idle"
      /\ UNCHANGED <<purchases, owned, play, updates>>
      /\ \A d \in Calls : ~LeftOver(d)
  BY WhatIsKnown DEF Purchase, store, LeftOver
<1>4. new.at = "querying" /\ new.context \in {c, NONE}
  BY <1>3 DEF Command
<1>5. call' = [call EXCEPT ![c] = new]
  BY <1>1, <1>3
<1> HIDE DEF new
<1>6. call'[c] = new /\ \A d \in Calls \ {c} : call'[d] = call[d]
  BY <1>5, WhatIsKnown
<1>7. SheetsAreSound
  BY WhatIsKnown
<1>8. OneIsDue'
  BY <1>2, <1>3, <1>4, <1>6 DEF OneIsDue, Mid
<1>9. CallbackIsOfSheet' /\ SheetIsClear'
  BY <1>2, <1>3, <1>6, <1>7 DEF SheetsAreSound, CallbackIsOfSheet, SheetIsClear, Clear
<1>10. SheetsAreAwaited'
  BY <1>2, <1>3, <1>4, <1>6, <1>7 DEF SheetsAreSound, SheetsAreAwaited, LeftOver
<1>11. SnapshotsAreFresh'
  BY <1>2, <1>3, <1>4, <1>6 DEF SnapshotsAreFresh, Mid
<1>12. AnnouncementsAreTrue'
  BY <1>2, <1>3 DEF AnnouncementsAreTrue
<1> QED
  BY <1>8, <1>9, <1>10, <1>11, <1>12 DEF SheetsAreSound

\* A command that has not registered its callback goes on, or is rejected.
LEMMA EarlySheets ==
  ASSUME PromptIInv, NEW c \in Calls, call[c].at \in {"querying", "answered", "prepared"},
         NEW at \in {"answered", "prepared", "done"}, GoesTo(c, at),
         call[c].at = "querying" => \A d \in Calls : call[d].at \notin Mid,
         updates = {}, owned = NONE,
         at = "answered" => call'[c].snapshot = Snapshot,
         at = "prepared" => purchases # NONE \/ Clear(call[c].product),
         UNCHANGED <<purchases, play, owned, updates>>
  PROVE  SheetsAreSound'
<1>1. /\ OneIsDue /\ CallbackIsOfSheet /\ SheetsAreAwaited /\ SheetIsClear /\ SnapshotsAreFresh
      /\ purchases # NONE => purchases.call \in Calls /\ purchases.call # c
  BY WhatIsKnown DEF SheetsAreSound, BeforeRegister
<1>2. OneIsDue'
  BY <1>1 DEF OneIsDue, Mid, GoesTo
<1>3. CallbackIsOfSheet' /\ SheetIsClear'
  BY <1>1 DEF CallbackIsOfSheet, SheetIsClear, Clear, GoesTo
<1>4. SheetsAreAwaited'
  <2>1. \A d \in Calls : ~LeftOver(d)
    BY <1>1 DEF SheetsAreAwaited
  <2> QED
    BY <1>1, <2>1 DEF SheetsAreAwaited, LeftOver, GoesTo
<1>5. SnapshotsAreFresh'
  <2>1. Snapshot' = Snapshot /\ \A p : Clear(p)' <=> Clear(p)
    BY DEF Snapshot, Clear
  <2> QED
    BY <1>1, <2>1 DEF SnapshotsAreFresh, GoesTo, Clear
<1>6. AnnouncementsAreTrue'
  BY DEF AnnouncementsAreTrue
<1> QED
  BY <1>2, <1>3, <1>4, <1>5, <1>6 DEF SheetsAreSound

LEMMA SnapshotsSheets ==
  ASSUME PromptIInv, NEW c \in Calls, Snapshots(c)
  PROVE  SheetsAreSound'
<1> DEFINE new == [call[c] EXCEPT !.at = "answered", !.snapshot = Snapshot]
<1>1. /\ updates = {} /\ owned = NONE /\ \A d \in Calls : call[d].at \notin Mid
      /\ call[c] \in Command /\ call[c].at = "querying" /\ call \in [Calls -> Command]
      /\ UNCHANGED <<purchases, owned, play, updates>>
  BY NothingIsDue, WhatIsKnown DEF Snapshots, store
<1>2. CASE Reject(c)
  BY <1>1, <1>2, RejectGoesTo, EarlySheets DEF BeforeRegister
<1>3. CASE call' = [call EXCEPT ![c].at = "answered", ![c].snapshot = Snapshot]
  <2>1. call' = [call EXCEPT ![c] = new]
    BY <1>3
  <2>2. new.at = "answered" /\ new.product = call[c].product /\ new.context = call[c].context
        /\ new.snapshot = Snapshot
    BY <1>1 DEF Command
  <2> HIDE DEF new
  <2>3. GoesTo(c, "answered") /\ call'[c].snapshot = Snapshot
    BY <1>1, <2>1, <2>2 DEF GoesTo
  <2> QED
    BY <1>1, <2>3, EarlySheets
<1> QED
  BY <1>2, <1>3 DEF Snapshots

\* A payment that is pending at Play is seen: the store has, or takes up, a correlation
\* that names its products.
LEMMA PaymentsAreSeen ==
  ASSUME PromptIInv, NEW p, ~Clear(p)
  PROVE  \E t \in DOMAIN PreparedMaps(p, Snapshot).deferred :
           p \in PreparedMaps(p, Snapshot).deferred[t].products
<1>1. PICK t \in Tokens : play[t].state = "pending" /\ p \in play[t].products
  BY DEF Clear
<1> DEFINE relevant == {s \in DOMAIN Snapshot : p \in Snapshot[s].products}
           paying == {s \in relevant : Snapshot[s].state = "pending"}
           next == PreparedMaps(p, Snapshot).deferred
<1>2. t \in DOMAIN Snapshot /\ Snapshot[t].products = play[t].products
      /\ Snapshot[t].state = "pending"
  BY <1>1 DEF Snapshot, OwnedStates
<1>3. t \in paying
  BY <1>1, <1>2
<1>4. t \in DOMAIN next /\ next[t] = Observed(t, Snapshot)
  BY <1>3 DEF PreparedMaps, Observed
<1>5. Observed(t, Snapshot).products = play[t].products
  <2>1. CASE t \in Correlated
    <3>1. Existing(t).products = play[t].products /\ Existing(t) \in Correlation
      BY <1>1, <2>1, WhatIsKnown, ExistingType DEF StoreIsTrue, MapsAreTrue, Fits
    <3> QED
      BY <1>2, <2>1, <3>1 DEF Observed, Validated, Correlation
  <2>2. CASE t \notin Correlated
    BY <1>2, <2>2 DEF Observed, Fresh
  <2> QED
    BY <2>1, <2>2
<1> HIDE DEF next
<1>6. p \in next[t].products
  BY <1>1, <1>4, <1>5
<1> QED
  BY <1>4, <1>6 DEF next

LEMMA PrepareForPurchaseSheets ==
  ASSUME PromptIInv, NEW c \in Calls, PrepareForPurchase(c)
  PROVE  SheetsAreSound'
<1> DEFINE new == [call[c] EXCEPT !.at = "prepared", !.snapshot = Nothing]
           p == call[c].product
           paid == \E t \in DOMAIN PreparedMaps(p, call[c].snapshot).deferred :
                     p \in PreparedMaps(p, call[c].snapshot).deferred[t].products
<1>1. /\ call[c] \in Command /\ call[c].at = "answered" /\ call \in [Calls -> Command]
      /\ updates = {} /\ owned = NONE /\ call[c].snapshot = Snapshot
      /\ UNCHANGED <<purchases, owned, play, updates>>
  BY WhatIsKnown DEF PrepareForPurchase, SheetsAreSound, OneIsDue, SnapshotsAreFresh, Mid
<1>2. CASE Reject(c)
  BY <1>1, <1>2, RejectGoesTo, EarlySheets DEF BeforeRegister
<1>3. CASE /\ call' = [call EXCEPT ![c].at = "prepared", ![c].snapshot = Nothing]
           /\ purchases # NONE \/ ~paid
  <2>1. call' = [call EXCEPT ![c] = new]
    BY <1>3
  <2>2. new.at = "prepared" /\ new.product = call[c].product /\ new.context = call[c].context
    BY <1>1 DEF Command
  <2> HIDE DEF new
  <2>3. GoesTo(c, "prepared")
    BY <1>1, <2>1, <2>2 DEF GoesTo
  <2>4. purchases # NONE \/ Clear(p)
    BY <1>1, <1>3, PaymentsAreSeen
  <2> QED
    BY <1>1, <2>3, <2>4, EarlySheets
<1>4. \/ Reject(c)
      \/ /\ call' = [call EXCEPT ![c].at = "prepared", ![c].snapshot = Nothing]
         /\ purchases # NONE \/ ~paid
  BY DEF PrepareForPurchase, NoFlow
<1> QED
  BY <1>2, <1>3, <1>4

LEMMA RegisterSheets ==
  ASSUME PromptIInv, NEW c \in Calls, Register(c)
  PROVE  SheetsAreSound'
<1> DEFINE new == [call[c] EXCEPT !.at = "registered"]
<1>1. /\ call[c] \in Command /\ call[c].at = "prepared" /\ call \in [Calls -> Command]
      /\ updates = {} /\ owned = NONE /\ \A d \in Calls : call[d].at \in Mid => d = c
      /\ UNCHANGED <<owned, play, updates>>
      /\ OneIsDue /\ SheetsAreAwaited /\ SnapshotsAreFresh
  BY WhatIsKnown DEF Register, SheetsAreSound, OneIsDue, Mid
<1>2. CASE ~MayRegister(call[c].product)
  <2>1. Reject(c) /\ UNCHANGED purchases
    BY <1>2 DEF Register
  <2> QED
    BY <1>1, <2>1, RejectGoesTo, EarlySheets DEF BeforeRegister
<1>3. CASE MayRegister(call[c].product)
  <2>1. /\ purchases = NONE
        /\ purchases' = [call |-> c, product |-> call[c].product, context |-> NONE]
        /\ call' = [call EXCEPT ![c] = new]
    BY <1>3 DEF Register, MayRegister
  <2>2. new.at = "registered" /\ new.product = call[c].product /\ new.context = call[c].context
    BY <1>1 DEF Command
  <2> HIDE DEF new
  <2>3. GoesTo(c, "registered")
    BY <1>1, <2>1, <2>2 DEF GoesTo
  <2>4. /\ purchases' # NONE /\ purchases'.call = c /\ purchases'.product = call[c].product
        /\ purchases'.context = NONE
    <3>1. purchases' \in Registration
      BY <1>1, <2>1, WhatIsKnown DEF Registration, CommandsAreSound, CommandsNameProducts
    <3> QED
      BY <2>1, <3>1, RegistrationAssumption
  <2>5. OneIsDue'
    BY <1>1, <2>3 DEF OneIsDue, Mid, GoesTo
  <2>6. CallbackIsOfSheet'
    BY <2>3, <2>4 DEF CallbackIsOfSheet, GoesTo
  <2>7. SheetIsClear'
    <3>1. Clear(call[c].product)
      BY <1>1, <2>1 DEF SnapshotsAreFresh
    <3> QED
      BY <1>1, <2>4, <3>1 DEF SheetIsClear, Clear
  <2>8. SheetsAreAwaited'
    <3>1. \A d \in Calls : ~LeftOver(d)
      BY <1>1 DEF SheetsAreAwaited
    <3>2. \A d \in Calls \ {c} : call[d].at \notin {"registered", "open"}
      BY <1>1, <2>1, <3>1 DEF SheetsAreAwaited
    <3> QED
      BY <1>1, <2>3, <2>4, <3>1, <3>2 DEF SheetsAreAwaited, LeftOver, GoesTo
  <2>9. SnapshotsAreFresh'
    BY <1>1, <2>3 DEF SnapshotsAreFresh, Mid, GoesTo
  <2>10. AnnouncementsAreTrue'
    BY <1>1 DEF AnnouncementsAreTrue
  <2> QED
    BY <2>5, <2>6, <2>7, <2>8, <2>9, <2>10 DEF SheetsAreSound
<1> QED
  BY <1>2, <1>3

LEMMA LaunchSheets ==
  ASSUME PromptIInv, NEW c \in Calls, Launch(c)
  PROVE  SheetsAreSound'
<1>1. /\ call[c] \in Command /\ call[c].at = "registered" /\ call \in [Calls -> Command]
      /\ updates = {} /\ owned = NONE /\ \A d \in Calls : call[d].at \in Mid => d = c
      /\ UNCHANGED <<owned, play, updates>>
      /\ CallbackIsOfSheet /\ SheetsAreAwaited /\ SheetIsClear
  BY WhatIsKnown DEF Launch, SheetsAreSound, OneIsDue, Mid
<1>2. purchases # NONE /\ purchases.call = c /\ purchases.product = call[c].product
      /\ purchases \in Registration
  BY <1>1, WhatIsKnown DEF SheetsAreAwaited, LeftOver, CallbackIsOfSheet, CommandsAreSound
<1>3. Active({call[c].product})
  BY <1>2 DEF Active
<1>4. \A d \in Calls : ~LeftOver(d)
  BY <1>1, <1>2 DEF SheetsAreAwaited
<1>5. \A d \in Calls \ {c} : call[d].at \notin {"registered", "open"}
  BY <1>1, <1>2, <1>4 DEF SheetsAreAwaited
<1>6. call[c].answer = NONE
  BY <1>2, WhatIsKnown
<1>7. AnnouncementsAreTrue'
  BY <1>1 DEF AnnouncementsAreTrue
<1>8. CASE /\ purchases' = [purchases EXCEPT !.context = call[c].context]
           /\ call' = [call EXCEPT ![c].at = "open"]
  <2> DEFINE new == [call[c] EXCEPT !.at = "open"]
  <2>1. call' = [call EXCEPT ![c] = new]
    BY <1>8
  <2>2. new.at = "open" /\ new.product = call[c].product /\ new.context = call[c].context
        /\ new.answer = NONE
    BY <1>1, <1>6 DEF Command
  <2> HIDE DEF new
  <2>3. GoesTo(c, "open") /\ call'[c].answer = NONE
    BY <1>1, <2>1, <2>2 DEF GoesTo
  <2>4. /\ purchases' # NONE /\ purchases'.call = c /\ purchases'.product = call[c].product
        /\ purchases'.context = call[c].context
    <3>1. call[c].context \in Calls \union {NONE}
      BY <1>1 DEF Command
    <3>2. purchases' \in Registration
      BY <1>2, <1>8, <3>1 DEF Registration
    <3> QED
      BY <1>2, <1>8, <3>2, RegistrationAssumption DEF Registration
  <2>5. OneIsDue'
    BY <1>1, <2>3 DEF OneIsDue, Mid, GoesTo
  <2>6. CallbackIsOfSheet'
    BY <2>3, <2>4 DEF CallbackIsOfSheet, GoesTo
  <2>7. SheetIsClear'
    BY <1>1, <1>2, <2>4 DEF SheetIsClear, Clear
  <2>8. SheetsAreAwaited'
    BY <1>1, <1>4, <1>5, <2>3, <2>4, RefusalAssumption DEF SheetsAreAwaited, LeftOver, GoesTo
  <2>9. SnapshotsAreFresh'
    BY <1>1, <2>3 DEF SnapshotsAreFresh, Mid, GoesTo
  <2> QED
    BY <1>7, <2>5, <2>6, <2>7, <2>8, <2>9 DEF SheetsAreSound
<1>9. CASE /\ purchases' = NONE
           /\ call' = Answered([call EXCEPT ![c].at = "done"], c, "rejected")
  <2> DEFINE new == [call[c] EXCEPT !.at = "done", !.answer = "rejected", !.snapshot = Nothing]
  <2>1. call' = [call EXCEPT ![c] = new]
    BY <1>1, <1>9 DEF Answered, Unsettled, Command
  <2>2. new.at = "done" /\ new.product = call[c].product /\ new.context = call[c].context
    BY <1>1 DEF Command
  <2> HIDE DEF new
  <2>3. GoesTo(c, "done")
    BY <1>1, <2>1, <2>2 DEF GoesTo
  <2>4. OneIsDue'
    BY <1>1, <2>3 DEF OneIsDue, Mid, GoesTo
  <2>5. CallbackIsOfSheet' /\ SheetIsClear'
    BY <1>9 DEF CallbackIsOfSheet, SheetIsClear
  <2>6. SheetsAreAwaited'
    BY <1>1, <1>4, <1>5, <2>3 DEF SheetsAreAwaited, LeftOver, GoesTo
  <2>7. SnapshotsAreFresh'
    BY <1>1, <2>3 DEF SnapshotsAreFresh, Mid, GoesTo
  <2> QED
    BY <1>7, <2>4, <2>5, <2>6, <2>7 DEF SheetsAreSound
<1> QED
  BY <1>2, <1>3, <1>8, <1>9 DEF Launch

-----------------------------------------------------------------------------
(* What Play does, and its announcements *)

\* The tokens the app knows of, or has given back, were issued.
LEMMA KnownAreIssued ==
  ASSUME PromptIInv
  PROVE  /\ Correlated \union DOMAIN disk \union finishing \union handed \subseteq Issued
         /\ \A c \in Calls : history.older[c] \subseteq Issued
         /\ \A t \in Tokens \ Issued : play[t].buyer = NONE
  BY WhatIsKnown DEF StoreIsTrue, TokensAreIssued, MapsAreTrue, Fits

\* A quiet step of Play, or of the app with Play, that no command takes part in.
LEMMA QuietSheets ==
  ASSUME PromptIInv, Quiet, UNCHANGED <<purchases, call, owned>>,
         \A u, v \in updates' : u = v,
         purchases # NONE => Clear(purchases.product)',
         AnnouncementsAreTrue'
  PROVE  SheetsAreSound'
<1>1. /\ updates = {} /\ owned = NONE /\ \A c \in Calls : call[c].at \notin Mid
      /\ purchases # NONE => purchases.call \in Calls /\ call[purchases.call].at = "open"
      /\ CallbackIsOfSheet /\ SheetsAreAwaited
  BY NothingIsDue, WhatIsKnown DEF SheetsAreSound
<1>2. OneIsDue'
  BY <1>1 DEF OneIsDue, Mid
<1>3. CallbackIsOfSheet' /\ SheetIsClear' /\ SnapshotsAreFresh'
  BY <1>1 DEF CallbackIsOfSheet, SheetIsClear, SnapshotsAreFresh, Clear, Mid
<1>4. SheetsAreAwaited'
  BY <1>1 DEF SheetsAreAwaited, LeftOver
<1> QED
  BY <1>2, <1>3, <1>4 DEF SheetsAreSound

\* The only announcement: it is of the callback, or it is not.
LEMMA AnnouncedIsTrue ==
  ASSUME PromptIInv, updates = {}, UNCHANGED <<purchases, deferredPurchases, completedCorrelations,
                                              finishing>>,
         \A c \in Calls : history'.older[c] = history.older[c],
         NEW token, NEW state, NEW products, Announce(token, state, products),
         token # NONE => /\ state \in {"pending", "purchased"}
                         /\ state = play'[token].state /\ products = play'[token].products,
         purchases # NONE =>
           (call'[purchases.call].at = "done"
              <=> purchases.product \in (IF state = "failed" THEN Products ELSE products)),
         token # NONE /\ purchases # NONE /\ purchases.product \in products =>
           /\ play'[token].buyer = purchases.call
           /\ token \notin Correlated \union finishing \union history.older[purchases.call]
  PROVE  AnnouncementsAreTrue' /\ (\A u, v \in updates' : u = v) /\ updates' # {}
<1> DEFINE u == [token |-> token, state |-> state, products |-> products]
<1>1. updates' = {u}
  BY DEF Announce
<1>2. u.token = token /\ u.state = state /\ u.products = products
  OBVIOUS
<1>3. Correlated' = Correlated
  BY DEF Correlated
<1>4. /\ Active(products)' <=> (purchases # NONE /\ purchases.product \in products)
      /\ Active(RejectedProducts(u))' <=>
           (purchases # NONE
            /\ purchases.product \in (IF state = "failed" THEN Products ELSE products))
  BY DEF Active, RejectedProducts
<1>5. purchases # NONE => purchases.call \in Calls
  BY WhatIsKnown
<1> HIDE DEF u
<1>6. \A v \in updates' : v = u
  BY <1>1
<1>7. AnnouncementsAreTrue'
  <2> SUFFICES ASSUME NEW v \in updates'
               PROVE  /\ v.token # NONE =>
                           /\ v.state \in {"pending", "purchased"}
                           /\ v.state = play'[v.token].state /\ v.products = play'[v.token].products
                      /\ purchases' # NONE =>
                           (call'[purchases'.call].at = "done" <=> Active(RejectedProducts(v))')
                      /\ v.token # NONE /\ Active(v.products)' =>
                           /\ play'[v.token].buyer = purchases'.call
                           /\ v.token \notin Correlated' \union finishing'
                                             \union history'.older[purchases'.call]
    BY DEF AnnouncementsAreTrue, Active, RejectedProducts
  <2>1. v = u
    BY <1>6
  <2>2. v.token # NONE /\ Active(v.products)' =>
          /\ play'[v.token].buyer = purchases'.call
          /\ v.token \notin Correlated' \union finishing' \union history'.older[purchases'.call]
    BY <1>2, <1>3, <1>4, <1>5, <2>1
  <2> QED
    BY <1>2, <1>4, <2>1, <2>2
<1> QED
  BY <1>1, <1>6, <1>7

LEMMA GiftSheets ==
  ASSUME PromptIInv, NEW t \in Tokens, NEW p \in Products, Gift(t, p)
  PROVE  SheetsAreSound'
<1>1. PICK state \in {"pending", "purchased"} :
        /\ play' = [play EXCEPT ![t] = [state |-> state, products |-> {p}, buyer |-> NONE]]
        /\ Announce(t, state, {p})
  BY DEF Gift
<1>2. /\ Quiet /\ updates = {} /\ play \in [Tokens -> Payment]
      /\ \A c \in Calls : call[c].at = "open" => call[c].product # p
      /\ purchases # NONE => purchases.call \in Calls /\ call[purchases.call].at = "open"
      /\ UNCHANGED <<purchases, deferredPurchases, completedCorrelations, call, owned, finishing>>
      /\ \A c \in Calls : history'.older[c] = history.older[c]
  BY NothingIsDue, WhatIsKnown DEF Gift, store, TypeOK
<1>3. purchases # NONE => purchases.product # p /\ Clear(purchases.product)
  BY <1>2, WhatIsKnown DEF SheetsAreSound, CallbackIsOfSheet, SheetIsClear
<1>4. play'[t].state = state /\ play'[t].products = {p}
      /\ \A s \in Tokens \ {t} : play'[s] = play[s]
  BY <1>1, <1>2
<1>5. purchases # NONE => Clear(purchases.product)'
  BY <1>2, <1>3, <1>4 DEF Clear
<1>6. AnnouncementsAreTrue' /\ \A u, v \in updates' : u = v
  <2>1. purchases # NONE => call'[purchases.call].at # "done" /\ purchases.product \notin {p}
    BY <1>2, <1>3
  <2>2. state # "failed"
    OBVIOUS
  <2> QED
    BY <1>1, <1>2, <1>4, <2>1, <2>2, AnnouncedIsTrue
<1> QED
  BY <1>2, <1>5, <1>6, QuietSheets

LEMMA PaymentCompletesSheets ==
  ASSUME PromptIInv, NEW t \in Tokens, PaymentCompletes(t)
  PROVE  SheetsAreSound'
<1>1. PICK products \in {play[t].products, Products} :
        /\ \A c \in Calls :
             call[c].at = "open" => call[c].product \notin products \ play[t].products
        /\ play' = [play EXCEPT ![t].state = "purchased", ![t].products = products]
        /\ Announce(t, "purchased", products)
  BY WhatIsKnown DEF PaymentCompletes
<1>2. /\ Quiet /\ updates = {} /\ play \in [Tokens -> Payment] /\ play[t].state = "pending"
      /\ purchases # NONE => purchases.call \in Calls /\ call[purchases.call].at = "open"
      /\ UNCHANGED <<purchases, deferredPurchases, completedCorrelations, call, owned, finishing,
                     history>>
  BY NothingIsDue, WhatIsKnown DEF PaymentCompletes, store, TypeOK
<1>3. purchases # NONE => Clear(purchases.product) /\ purchases.product \notin products
  BY <1>1, <1>2, WhatIsKnown DEF SheetsAreSound, CallbackIsOfSheet, SheetIsClear, Clear
<1>4. play'[t].state = "purchased" /\ play'[t].products = products
      /\ \A s \in Tokens \ {t} : play'[s] = play[s]
  BY <1>1, <1>2 DEF Payment
<1>5. purchases # NONE => Clear(purchases.product)'
  BY <1>2, <1>3, <1>4 DEF Clear
<1>6. AnnouncementsAreTrue' /\ \A u, v \in updates' : u = v
  <2>1. purchases # NONE => call'[purchases.call].at # "done"
    BY <1>2
  <2> QED
    BY <1>1, <1>2, <1>3, <1>4, <2>1, AnnouncedIsTrue
<1> QED
  BY <1>2, <1>5, <1>6, QuietSheets

\* Steps of Play that announce nothing, and the app finishing a transaction.
LEMMA UnannouncedSheets ==
  ASSUME PromptIInv, Quiet, UNCHANGED <<purchases, call, owned, updates>>,
         \A t \in Tokens : play'[t].state = "pending" => play'[t] = play[t]
  PROVE  SheetsAreSound'
<1>1. updates = {} /\ (purchases # NONE => call[purchases.call].at = "open")
  BY NothingIsDue
<1>2. purchases # NONE => Clear(purchases.product)
  BY <1>1, WhatIsKnown DEF SheetsAreSound, SheetIsClear
<1>3. purchases # NONE => Clear(purchases.product)'
  BY <1>2 DEF Clear
<1>4. AnnouncementsAreTrue' /\ \A u, v \in updates' : u = v
  BY <1>1 DEF AnnouncementsAreTrue
<1> QED
  BY <1>3, <1>4, QuietSheets

LEMMA PaymentCancelledSheets ==
  ASSUME PromptIInv, NEW t \in Tokens, PaymentCancelled(t)
  PROVE  SheetsAreSound'
<1>1. play' = [play EXCEPT ![t].state = "cancelled"] /\ play \in [Tokens -> Payment]
  BY WhatIsKnown DEF PaymentCancelled, TypeOK
<1>2. play'[t].state = "cancelled" /\ \A s \in Tokens \ {t} : play'[s] = play[s]
  BY <1>1 DEF Payment
<1> QED
  BY <1>2, UnannouncedSheets DEF PaymentCancelled, store

LEMMA PlayFinishesSheets ==
  ASSUME PromptIInv, NEW t \in Tokens, PlayFinishes(t)
  PROVE  SheetsAreSound'
<1>1. /\ play \in [Tokens -> Payment]
      /\ UNCHANGED play \/ \E state \in {"consumed", "acknowledged"} :
                              play' = [play EXCEPT ![t].state = state]
  BY WhatIsKnown DEF PlayFinishes, TypeOK
<1>2. \A s \in Tokens : play'[s].state = "pending" => play'[s] = play[s]
  BY <1>1 DEF Payment
<1> QED
  BY <1>2, UnannouncedSheets DEF PlayFinishes, store

LEMMA FinishTransactionSheets ==
  ASSUME PromptIInv, NEW t \in Tokens, FinishTransaction(t)
  PROVE  SheetsAreSound'
<1>1. Quiet /\ UNCHANGED <<purchases, call, owned, updates, play>>
  BY DEF FinishTransaction
<1> QED
  BY <1>1, UnannouncedSheets

\* The sheet closes: what is announced is of the callback, unless the sheet was left over.
LEMMA SheetClosesSheets ==
  ASSUME PromptIInv, NEW c \in Calls, SheetCloses(c)
  PROVE  SheetsAreSound'
<1> DEFINE p == call[c].product
           new == [call[c] EXCEPT !.at = "done"]
<1>1. /\ updates = {} /\ owned = NONE /\ \A d \in Calls : call[d].at \notin Mid
      /\ call \in [Calls -> Command] /\ call[c] \in Command /\ call[c].at = "open"
      /\ play \in [Tokens -> Payment] /\ p \in Products
      /\ CallbackIsOfSheet /\ SheetsAreAwaited
      /\ UNCHANGED <<purchases, deferredPurchases, completedCorrelations, owned, finishing, history>>
  BY NothingIsDue, WhatIsKnown
     DEF SheetCloses, store, TypeOK, CommandsAreSound, CommandsNameProducts, SheetsAreSound
<1>2. purchases # NONE => purchases.call = c /\ purchases.product = p
                          /\ purchases.context = call[c].context
  BY <1>1 DEF SheetsAreAwaited, CallbackIsOfSheet
<1>3. GoesTo(c, "done")
  <2>1. call' = [call EXCEPT ![c] = new]
    BY <1>1 DEF SheetCloses
  <2>2. new.at = "done" /\ new.product = call[c].product /\ new.context = call[c].context
    BY <1>1 DEF Command
  <2> HIDE DEF new
  <2> QED
    BY <1>1, <2>1, <2>2 DEF GoesTo
<1>4. call'[c].at = "done" /\ \A d \in Calls \ {c} : call'[d] = call[d]
  BY <1>3 DEF GoesTo
<1> HIDE DEF p
<1>5. AnnouncementsAreTrue' /\ (\A u, v \in updates' : u = v) /\ updates' # {}
  <2>1. ASSUME NEW token, NEW state, NEW products, Announce(token, state, products),
               token # NONE =>
                 /\ token \in Tokens \ Issued /\ state \in {"pending", "purchased"}
                 /\ play' = [play EXCEPT ![token] = [state |-> state, products |-> products,
                                                     buyer |-> c]],
               p \in (IF state = "failed" THEN Products ELSE products)
        PROVE  AnnouncementsAreTrue' /\ (\A u, v \in updates' : u = v) /\ updates' # {}
    <3>1. token # NONE =>
            /\ state = play'[token].state /\ products = play'[token].products
            /\ play'[token].buyer = c
            /\ token \notin Correlated \union finishing \union history.older[c]
      BY <1>1, <2>1, KnownAreIssued
    <3>2. purchases # NONE =>
            (call'[purchases.call].at = "done"
               <=> purchases.product \in (IF state = "failed" THEN Products ELSE products))
      BY <1>2, <1>4, <2>1
    <3> QED
      BY <1>1, <1>2, <2>1, <3>1, <3>2, AnnouncedIsTrue
  <2>2. ASSUME NEW t \in Tokens, NEW state \in {"pending", "purchased"}, play[t].state = "none",
               play' = [play EXCEPT ![t] = [state |-> state, products |-> {p}, buyer |-> c]],
               Announce(t, state, {p})
        PROVE  AnnouncementsAreTrue' /\ (\A u, v \in updates' : u = v) /\ updates' # {}
    BY <2>1, <2>2 DEF Issued
  <2>3. ASSUME Announce(NONE, "failed", {})
        PROVE  AnnouncementsAreTrue' /\ (\A u, v \in updates' : u = v) /\ updates' # {}
    BY <1>1, <2>1, <2>3
  <2>4. ASSUME NEW state \in {"pending", "purchased", "unspecified"}, Announce(NONE, state, {p})
        PROVE  AnnouncementsAreTrue' /\ (\A u, v \in updates' : u = v) /\ updates' # {}
    BY <2>1, <2>4
  <2> QED
    BY <2>2, <2>3, <2>4 DEF SheetCloses, p
<1>6. OneIsDue'
  BY <1>1, <1>4, <1>5 DEF OneIsDue, Mid
<1>7. CallbackIsOfSheet' /\ SheetIsClear'
  BY <1>1, <1>2, <1>3, <1>4, <1>5 DEF CallbackIsOfSheet, SheetIsClear, GoesTo, p
<1>8. SheetsAreAwaited'
  BY <1>1, <1>3 DEF SheetsAreAwaited, LeftOver, GoesTo
<1>9. SnapshotsAreFresh'
  BY <1>1, <1>4 DEF SnapshotsAreFresh, Mid
<1> QED
  BY <1>5, <1>6, <1>7, <1>8, <1>9 DEF SheetsAreSound

-----------------------------------------------------------------------------
(* The app hears, asks and restarts *)

\* What becomes of the callback when an announcement is heard: it is called exactly when
\* the announcement is of its product, and its sheet has closed by then.
CallbackFollows(u) ==
  IF Active(RejectedProducts(u))
  THEN /\ purchases' = NONE
       /\ \E answer \in Tokens \union {"rejected"} :
            call' = Answered(call, purchases.call, answer)
  ELSE UNCHANGED <<purchases, call>>

LEMMA CallbackGoes ==
  ASSUME PromptIInv, NEW u \in updates, Active(RejectedProducts(u)), CallbackFollows(u)
  PROVE  /\ purchases' = NONE /\ purchases # NONE /\ purchases.call \in Calls
         /\ call[purchases.call].at = "done" /\ GoesTo(purchases.call, "done")
<1> DEFINE c == purchases.call
<1>1. purchases # NONE /\ purchases' = NONE
  BY DEF Active, CallbackFollows
<1>2. c \in Calls /\ call \in [Calls -> Command] /\ call[c] \in Command /\ call[c].at = "done"
  BY <1>1, WhatIsKnown DEF SheetsAreSound, AnnouncementsAreTrue
<1>3. PICK answer \in Tokens \union {"rejected"} : call' = Answered(call, c, answer)
  BY DEF CallbackFollows
<1> DEFINE new == [call[c] EXCEPT !.answer = answer, !.snapshot = Nothing, !.at = "done"]
<1>4. call' = [call EXCEPT ![c] = new]
  BY <1>2, <1>3 DEF Answered, Unsettled
<1>5. new.at = "done" /\ new.product = call[c].product /\ new.context = call[c].context
  BY <1>2 DEF Command
<1> HIDE DEF new, c
<1>6. GoesTo(c, "done")
  BY <1>2, <1>4, <1>5 DEF GoesTo
<1> QED
  BY <1>1, <1>2, <1>6 DEF c

LEMMA HearSheets ==
  ASSUME PromptIInv, NEW u, Heard(u), CallbackFollows(u), UNCHANGED <<owned, play>>
  PROVE  SheetsAreSound'
<1>1. /\ u \in updates /\ owned = NONE /\ \A c \in Calls : call[c].at \notin Mid
      /\ \A v \in updates : v = u
      /\ purchases # NONE =>
           /\ purchases.call \in Calls
           /\ (call[purchases.call].at = "done" <=> Active(RejectedProducts(u)))
      /\ CallbackIsOfSheet /\ SheetsAreAwaited /\ SheetIsClear
  BY WhatIsKnown DEF Heard, SheetsAreSound, OneIsDue, AnnouncementsAreTrue
<1>2. updates' = {}
  BY <1>1 DEF Heard
<1>3. AnnouncementsAreTrue'
  BY <1>2 DEF AnnouncementsAreTrue
<1>4. CASE Active(RejectedProducts(u))
  <2> DEFINE c == purchases.call
  <2>1. /\ purchases' = NONE /\ c \in Calls /\ call[c].at = "done" /\ GoesTo(c, "done")
        /\ purchases # NONE
    BY <1>1, <1>4, CallbackGoes
  <2>2. OneIsDue'
    BY <1>1, <1>2, <2>1 DEF OneIsDue, Mid, GoesTo
  <2>3. CallbackIsOfSheet' /\ SheetIsClear'
    BY <2>1 DEF CallbackIsOfSheet, SheetIsClear
  <2>4. SheetsAreAwaited'
    <3>1. \A d \in Calls : call[d].at \notin {"registered", "open"}
      BY <1>1, <2>1 DEF SheetsAreAwaited
    <3> QED
      BY <1>1, <2>1, <3>1 DEF SheetsAreAwaited, LeftOver, GoesTo
  <2>5. SnapshotsAreFresh'
    BY <1>1, <2>1 DEF SnapshotsAreFresh, Mid, GoesTo
  <2> QED
    BY <1>3, <2>2, <2>3, <2>4, <2>5 DEF SheetsAreSound
<1>5. CASE ~Active(RejectedProducts(u))
  <2>1. UNCHANGED <<purchases, call, owned, play>>
    BY <1>5 DEF CallbackFollows
  <2>2. OneIsDue'
    BY <1>1, <1>2, <2>1 DEF OneIsDue
  <2>3. CallbackIsOfSheet'
    BY <1>1, <1>5, <2>1 DEF CallbackIsOfSheet
  <2>4. SheetIsClear' /\ SheetsAreAwaited'
    BY <1>1, <2>1 DEF SheetIsClear, SheetsAreAwaited, LeftOver, Clear
  <2>5. SnapshotsAreFresh'
    BY <1>1, <2>1 DEF SnapshotsAreFresh, Mid
  <2> QED
    BY <1>3, <2>2, <2>3, <2>4, <2>5 DEF SheetsAreSound
<1> QED
  BY <1>4, <1>5

LEMMA ReleaseFollows ==
  ASSUME NEW u, Release(RejectedProducts(u))
  PROVE  CallbackFollows(u)
  BY DEF Release, Reject, CallbackFollows

LEMMA HearFailureFollows ==
  ASSUME PromptIInv, NEW u, HearFailure(u)
  PROVE  CallbackFollows(u)
  BY ReleaseFollows DEF HearFailure

LEMMA HearPendingFollows ==
  ASSUME PromptIInv, NEW u, HearPending(u)
  PROVE  CallbackFollows(u)
<1>1. RejectedProducts(u) = u.products
  BY DEF HearPending, RejectedProducts
<1>2. CASE u.token = NONE \/ ~Active(u.products)
  BY <1>1, <1>2, ReleaseFollows DEF HearPending
<1>3. CASE ~(u.token = NONE \/ ~Active(u.products))
  BY <1>1, <1>3 DEF HearPending, CallbackFollows, Reject
<1> QED
  BY <1>2, <1>3

LEMMA HearPurchasedFollows ==
  ASSUME PromptIInv, NEW u, HearPurchased(u)
  PROVE  CallbackFollows(u)
<1>1. RejectedProducts(u) = u.products /\ u \in updates
  BY DEF HearPurchased, RejectedProducts, Heard
<1>2. CASE u.token = NONE /\ Release(u.products)
  BY <1>1, <1>2, ReleaseFollows
<1>3. CASE u.token # NONE /\ u.token \in Correlated /\ UNCHANGED <<purchases, call>>
  <2>1. ~Active(u.products)
    BY <1>1, <1>3, WhatIsKnown DEF SheetsAreSound, AnnouncementsAreTrue
  <2> QED
    BY <1>1, <1>3, <2>1 DEF CallbackFollows
<1>4. ASSUME u.token # NONE, u.token \notin Correlated, Active(u.products), NEW ok \in BOOLEAN,
             purchases' = NONE,
             call' = Answered(call, purchases.call, IF ok THEN u.token ELSE "rejected")
      PROVE  CallbackFollows(u)
  <2>1. (IF ok THEN u.token ELSE "rejected") \in Tokens \union {"rejected"}
    BY <1>1, <1>4, WhatIsKnown DEF Update
  <2> QED
    BY <1>1, <1>4, <2>1 DEF CallbackFollows
<1>5. CASE u.token # NONE /\ u.token \notin Correlated /\ ~Active(u.products)
           /\ UNCHANGED <<purchases, call>>
  BY <1>1, <1>5 DEF CallbackFollows
<1> QED
  BY <1>2, <1>3, <1>4, <1>5 DEF HearPurchased, Removed, store

LEMMA HearsSheets ==
  ASSUME PromptIInv, NEW u \in updates, Hears(u)
  PROVE  SheetsAreSound' /\ CallbackFollows(u)
<1>1. Heard(u) /\ UNCHANGED <<owned, play>>
  BY DEF Hears, HearPurchased, HearPending, HearFailure
<1>2. CallbackFollows(u)
  BY HearFailureFollows, HearPendingFollows, HearPurchasedFollows DEF Hears
<1> QED
  BY <1>1, <1>2, HearSheets

LEMMA QueryPurchasesSheets ==
  ASSUME PromptIInv, QueryPurchases
  PROVE  SheetsAreSound'
<1>1. /\ updates = {} /\ \A c \in Calls : call[c].at \notin Mid
      /\ purchases # NONE => purchases.call \in Calls
      /\ UNCHANGED <<purchases, call, updates, play>> /\ owned' \in {Snapshot, Nothing}
      /\ CallbackIsOfSheet /\ SheetsAreAwaited /\ SheetIsClear
  BY NothingIsDue, WhatIsKnown DEF QueryPurchases, store, SheetsAreSound
<1>2. OneIsDue' /\ AnnouncementsAreTrue'
  BY <1>1 DEF OneIsDue, AnnouncementsAreTrue
<1>3. CallbackIsOfSheet' /\ SheetIsClear' /\ SheetsAreAwaited'
  BY <1>1 DEF CallbackIsOfSheet, SheetIsClear, Clear, SheetsAreAwaited, LeftOver
<1>4. SnapshotsAreFresh'
  <2>1. Snapshot' = Snapshot
    BY <1>1 DEF Snapshot
  <2> QED
    BY <1>1, <2>1 DEF SnapshotsAreFresh, Mid
<1> QED
  BY <1>2, <1>3, <1>4 DEF SheetsAreSound

LEMMA QueryAnswersSheets ==
  ASSUME PromptIInv, QueryAnswers
  PROVE  SheetsAreSound'
<1>1. /\ updates = {} /\ \A c \in Calls : call[c].at \notin Mid
      /\ UNCHANGED <<purchases, call, updates, play>> /\ owned' = NONE
      /\ CallbackIsOfSheet /\ SheetsAreAwaited /\ SheetIsClear
  BY WhatIsKnown DEF QueryAnswers, SheetsAreSound, OneIsDue
<1>2. OneIsDue' /\ AnnouncementsAreTrue'
  BY <1>1 DEF OneIsDue, AnnouncementsAreTrue
<1>3. CallbackIsOfSheet' /\ SheetIsClear' /\ SheetsAreAwaited'
  BY <1>1 DEF CallbackIsOfSheet, SheetIsClear, Clear, SheetsAreAwaited, LeftOver
<1>4. SnapshotsAreFresh'
  BY <1>1 DEF SnapshotsAreFresh, Mid
<1> QED
  BY <1>2, <1>3, <1>4 DEF SheetsAreSound

\* What a command is after a restart.
LEMMA RestartedAre ==
  ASSUME PromptIInv, Restart
  PROVE  \A c \in Calls :
           /\ call'[c].context = call[c].context
           /\ call'[c].at \in {"idle", "open", "done"}
           /\ call'[c].at = "open" => call'[c].answer = "lost"
           /\ call'[c].answer \in Tokens => call[c].answer = call'[c].answer
<1> SUFFICES ASSUME NEW c \in Calls
             PROVE  /\ call'[c].context = call[c].context
                    /\ call'[c].at \in {"idle", "open", "done"}
                    /\ call'[c].at = "open" => call'[c].answer = "lost"
                    /\ call'[c].answer \in Tokens => call[c].answer = call'[c].answer
  OBVIOUS
<1> DEFINE kept == call[c].at = "idle" \/ (call[c].answer # NONE /\ call[c].at # "registered")
           at == IF call[c].at = "open" THEN call[c].at ELSE "done"
           answer == IF call[c].answer = NONE THEN "lost" ELSE call[c].answer
           new == [call[c] EXCEPT !.at = at, !.answer = answer, !.snapshot = Nothing]
<1>1. /\ call[c] \in Command /\ (call[c].at \in BeforeRegister => call[c].answer = NONE)
      /\ (call[c].at = "open" => call[c].answer \in {"lost", NONE})
  BY WhatIsKnown DEF SheetsAreSound, SheetsAreAwaited, LeftOver
<1>2. call'[c] = IF kept THEN call[c] ELSE new
  BY DEF Restart
<1>3. /\ new.context = call[c].context /\ new.at = at /\ new.answer = answer
  BY <1>1 DEF Command
<1> HIDE DEF new
<1>4. CASE kept
  <2>1. call'[c] = call[c]
    BY <1>2, <1>4
  <2>2. call[c].at \in {"idle", "open", "done"}
    BY <1>1, <1>4 DEF Command, Stages, BeforeRegister
  <2>3. call[c].at = "open" => call[c].answer = "lost"
    BY <1>1, <1>4
  <2> QED
    BY <2>1, <2>2, <2>3
<1>5. CASE ~kept
  <2>1. at \in {"open", "done"} /\ (at = "open" => call[c].at = "open")
    OBVIOUS
  <2>2. answer \in Tokens => call[c].answer = answer
    BY RefusalAssumption
  <2>3. at = "open" => answer = "lost"
    BY <1>1, <2>1
  <2> HIDE DEF at, answer
  <2> QED
    BY <1>2, <1>3, <1>5, <2>1, <2>2, <2>3
<1> QED
  BY <1>4, <1>5

LEMMA RestartSheets ==
  ASSUME PromptIInv, Restart
  PROVE  SheetsAreSound'
<1>1. /\ purchases' = NONE /\ owned' = NONE /\ updates' = {}
      /\ SheetsAreAwaited
  BY WhatIsKnown DEF Restart, SheetsAreSound
<1>2. OneIsDue'
  BY <1>1, RestartedAre DEF OneIsDue, Mid
<1>3. CallbackIsOfSheet' /\ SheetIsClear' /\ AnnouncementsAreTrue'
  BY <1>1 DEF CallbackIsOfSheet, SheetIsClear, AnnouncementsAreTrue
<1>4. SheetsAreAwaited' /\ SnapshotsAreFresh'
  BY <1>1, RestartedAre DEF SheetsAreAwaited, SnapshotsAreFresh, LeftOver
<1> QED
  BY <1>2, <1>3, <1>4 DEF SheetsAreSound

LEMMA StutterSheets ==
  ASSUME PromptIInv, UNCHANGED vars
  PROVE  SheetsAreSound'
<1>1. UNCHANGED <<purchases, deferredPurchases, completedCorrelations, call, owned, updates, play,
                  finishing, history>> /\ SheetsAreSound
  BY WhatIsKnown DEF vars, store
<1> QED
  BY <1>1 DEF SheetsAreSound, OneIsDue, CallbackIsOfSheet, SheetsAreAwaited, SheetIsClear,
     SnapshotsAreFresh, AnnouncementsAreTrue, LeftOver, Clear, Snapshot, Active, RejectedProducts,
     Correlated

LEMMA SheetsStaySound ==
  ASSUME PromptIInv, [Next]_vars
  PROVE  SheetsAreSound'
  BY PurchaseSheets, SnapshotsSheets, PrepareForPurchaseSheets, RegisterSheets, LaunchSheets,
     SheetClosesSheets, GiftSheets, PaymentCompletesSheets, PaymentCancelledSheets,
     FinishTransactionSheets, PlayFinishesSheets, HearsSheets, QueryPurchasesSheets,
     QueryAnswersSheets, RestartSheets, StutterSheets DEF Next

-----------------------------------------------------------------------------
(* What the store says of the tokens *)

\* A call resolved after a step was resolved before it.
AnswersGoOn ==
  \A c \in Calls : call'[c].answer \in Tokens =>
    call[c].answer = call'[c].answer /\ call[c].context = call'[c].context

LEMMA AnswersGo ==
  ASSUME call \in [Calls -> Command], NEW c \in Calls, NEW new, call' = [call EXCEPT ![c] = new],
         \/ new.answer \notin Tokens
         \/ new.answer = call[c].answer /\ new.context = call[c].context
  PROVE  AnswersGoOn
<1>1. call'[c] = new /\ \A d \in Calls \ {c} : call'[d] = call[d]
  OBVIOUS
<1> QED
  BY <1>1 DEF AnswersGoOn

LEMMA RejectedAnswers ==
  ASSUME call \in [Calls -> Command], NEW c \in Calls, Reject(c)
  PROVE  AnswersGoOn
<1> DEFINE at == IF call[c].at \in Unsettled THEN call[c].at ELSE "done"
           new == [call[c] EXCEPT !.answer = "rejected", !.snapshot = Nothing, !.at = at]
<1>1. call' = [call EXCEPT ![c] = new]
  BY DEF Reject, Answered
<1>2. call[c] \in Command
  OBVIOUS
<1>3. new.answer = "rejected"
  BY <1>2 DEF Command
<1>4. new.answer \notin Tokens
  BY <1>3, RefusalAssumption
<1> HIDE DEF new
<1> QED
  BY <1>1, <1>4, AnswersGo

LEMMA SameAnswers ==
  ASSUME UNCHANGED call
  PROVE  AnswersGoOn
  BY DEF AnswersGoOn

\* Play issues a token, settles a payment, or finishes a purchase the app gave back.
PlayGoesOn(t) ==
  \/ play'[t] = play[t]
  \/ t \notin Issued /\ play'[t].state # "none"
  \/ /\ play[t].state = "pending" /\ play'[t].state \in {"purchased", "cancelled"}
     /\ play'[t].buyer = play[t].buyer
  \/ /\ t \in finishing /\ play[t].state \in {"purchased", "acknowledged"}
     /\ play'[t].state \in {"consumed", "acknowledged"}
     /\ play'[t].buyer = play[t].buyer /\ play'[t].products = play[t].products

\* A step that leaves the store alone.
LEMMA StoreTrueStays ==
  ASSUME PromptIInv,
         UNCHANGED <<deferredPurchases, completedCorrelations, disk, corrupt, handed>>,
         finishing' \subseteq finishing,
         \A t \in Tokens : PlayGoesOn(t),
         AnswersGoOn, history'.cleared = history.cleared,
         \A c \in Calls : \/ history'.older[c] = history.older[c]
                          \/ history'.older[c] \subseteq Issued /\ call'[c].answer \notin Tokens
  PROVE  StoreIsTrue'
<1>1. /\ TokensAreIssued /\ MapsAreTrue /\ JournalIsBehind /\ ReportedAreKept /\ AnswersAreTrue
      /\ Correlated \subseteq Tokens /\ DOMAIN disk \subseteq Tokens /\ finishing \subseteq Tokens
      /\ handed \subseteq Tokens /\ play \in [Tokens -> Payment]
  BY WhatIsKnown, CorrelationsAre, CorrelatedIs DEF StoreIsTrue, TypeOK
<1>2. ASSUME NEW t \in Tokens, t \in Issued
      PROVE  /\ t \in Issued' /\ play'[t].buyer = play[t].buyer
             /\ play'[t].state = "pending" => play'[t] = play[t]
             /\ Gone(t)' => Gone(t)
             /\ play[t].state \in {"purchased", "acknowledged", "consumed"} =>
                  /\ play'[t].state \in {"purchased", "acknowledged", "consumed"}
                  /\ play'[t].products = play[t].products
  BY <1>2 DEF PlayGoesOn, Issued, Gone
<1>3. \A t \in Tokens \ Issued' : play'[t] = play[t] /\ t \notin Issued
  BY DEF PlayGoesOn, Issued
<1>4. TokensAreIssued'
  <2>1. Issued \subseteq Issued'
    BY <1>2 DEF Issued
  <2>2. \A c \in Calls : history'.older[c] \subseteq Issued
    BY <1>1 DEF TokensAreIssued
  <2>3. finishing' \union handed' \subseteq Issued
    BY <1>1 DEF TokensAreIssued
  <2>4. \A t \in Tokens \ Issued' : play'[t].buyer = NONE
    BY <1>1, <1>3 DEF TokensAreIssued
  <2> QED
    BY <2>1, <2>2, <2>3, <2>4 DEF TokensAreIssued
<1>5. Correlated' = Correlated /\ \A t : Existing(t)' = Existing(t)
  BY DEF Correlated, Existing
<1>6. MapsAreTrue'
  <2>1. ASSUME NEW t \in Tokens, NEW v, Fits(t, v) PROVE Fits(t, v)'
    BY <1>2, <2>1 DEF Fits
  <2> QED
    BY <1>1, <1>5, <2>1 DEF MapsAreTrue
<1>7. JournalIsBehind'
  BY <1>1 DEF JournalIsBehind, Before
<1>8. AnswersAreTrue'
  <2> SUFFICES ASSUME NEW c \in Calls, NEW t \in Tokens, call'[c].answer = t
               PROVE  /\ play'[t].buyer = c
                      /\ play'[t].state \in {"purchased", "acknowledged", "consumed"}
                      /\ t \notin history'.older[c]
    BY DEF AnswersAreTrue
  <2>1. call[c].answer = t
    BY DEF AnswersGoOn
  <2>2. /\ play[t].buyer = c /\ play[t].state \in {"purchased", "acknowledged", "consumed"}
        /\ t \notin history.older[c] /\ t \in Issued
    BY <1>1, <2>1 DEF AnswersAreTrue, Issued
  <2> QED
    BY <1>2, <2>2
<1>9. ReportedAreKept'
  <2> SUFFICES ASSUME NEW c \in Calls, NEW t \in Tokens, Reported(c, t)', ~corrupt
               PROVE  /\ t \in Correlated /\ Keeps(c, t, Existing(t))'
                      /\ t \in DOMAIN disk /\ Keeps(c, t, disk[t])'
    BY <1>5 DEF ReportedAreKept
  <2>1. Reported(c, t)
    BY DEF AnswersGoOn, Reported
  <2>2. /\ t \in Correlated /\ Keeps(c, t, Existing(t))
        /\ t \in DOMAIN disk /\ Keeps(c, t, disk[t])
    BY <1>1, <2>1 DEF ReportedAreKept
  <2>3. play[t].state \in {"purchased", "acknowledged", "consumed"}
    BY <1>1, <2>1 DEF AnswersAreTrue, Reported
  <2>4. play'[t].products = play[t].products
    BY <1>2, <2>3 DEF Issued
  <2> QED
    BY <1>5, <2>2, <2>4 DEF Keeps
<1> QED
  BY <1>4, <1>6, <1>7, <1>8, <1>9 DEF StoreIsTrue

\* Steps of commands and announcements that leave Play and the store alone.
LEMMA AskingIsTrue ==
  ASSUME PromptIInv, AnswersGoOn,
         UNCHANGED <<deferredPurchases, completedCorrelations, journal, handed, finishing, play,
                     history>>
  PROVE  StoreIsTrue'
  BY StoreTrueStays DEF PlayGoesOn, journal

LEMMA ReleaseIsTrue ==
  ASSUME PromptIInv, NEW products, Release(products),
         UNCHANGED <<finishing, play, handed, history>>
  PROVE  StoreIsTrue'
<1>1. /\ UNCHANGED <<deferredPurchases, completedCorrelations, journal>>
      /\ call \in [Calls -> Command]
      /\ UNCHANGED call \/ (purchases.call \in Calls /\ Reject(purchases.call))
  BY WhatIsKnown DEF Release, Active
<1>2. AnswersGoOn
  BY <1>1, RejectedAnswers, SameAnswers
<1> QED
  BY <1>1, <1>2, AskingIsTrue

LEMMA CommandsAreTrue ==
  ASSUME PromptIInv, NEW c \in Calls, Purchase(c) \/ Snapshots(c) \/ Launch(c)
  PROVE  StoreIsTrue'
<1>1. /\ UNCHANGED <<deferredPurchases, completedCorrelations, journal, handed, finishing, play,
                     history>>
      /\ call \in [Calls -> Command] /\ call[c] \in Command /\ NONE \notin Tokens
      /\ call[c].at \in BeforeRegister => call[c].answer = NONE
  BY WhatIsKnown, NoneAssumption DEF Purchase, Snapshots, Launch, store
<1>2. ASSUME Purchase(c) PROVE AnswersGoOn
  <2>1. PICK p \in Products, context \in {c, NONE} :
          call' = [call EXCEPT ![c].at = "querying", ![c].product = p, ![c].context = context]
    BY <1>2 DEF Purchase
  <2> DEFINE new == [call[c] EXCEPT !.at = "querying", !.product = p, !.context = context]
  <2>2. call' = [call EXCEPT ![c] = new]
    BY <2>1
  <2>3. new.answer = NONE
    BY <1>1, <1>2 DEF Command, Purchase, BeforeRegister
  <2> HIDE DEF new
  <2> QED
    BY <1>1, <2>2, <2>3, AnswersGo
<1>3. ASSUME Snapshots(c) PROVE AnswersGoOn
  <2>1. CASE Reject(c)
    BY <1>1, <2>1, RejectedAnswers
  <2>2. CASE call' = [call EXCEPT ![c].at = "answered", ![c].snapshot = Snapshot]
    <3> DEFINE new == [call[c] EXCEPT !.at = "answered", !.snapshot = Snapshot]
    <3>1. call' = [call EXCEPT ![c] = new]
      BY <2>2
    <3>2. new.answer = call[c].answer /\ new.context = call[c].context
      BY <1>1 DEF Command
    <3> HIDE DEF new
    <3> QED
      BY <1>1, <3>1, <3>2, AnswersGo
  <2> QED
    BY <1>3, <2>1, <2>2 DEF Snapshots
<1>4. ASSUME Launch(c) PROVE AnswersGoOn
  <2>1. ASSUME NEW at, call' = [call EXCEPT ![c].at = at] PROVE AnswersGoOn
    <3> DEFINE new == [call[c] EXCEPT !.at = at]
    <3>1. call' = [call EXCEPT ![c] = new]
      BY <2>1
    <3>2. new.answer = call[c].answer /\ new.context = call[c].context
      BY <1>1 DEF Command
    <3> HIDE DEF new
    <3> QED
      BY <1>1, <3>1, <3>2, AnswersGo
  <2> DEFINE over == [call EXCEPT ![c].at = "done"]
  <2>2. ASSUME NEW d \in Calls, call' = Answered(over, d, "rejected") PROVE AnswersGoOn
    <3> DEFINE now == [call[c] EXCEPT !.at = "done"]
    <3>1. over = [call EXCEPT ![c] = now]
      OBVIOUS
    <3>2. now.answer = call[c].answer /\ now.context = call[c].context /\ now \in Command
      BY <1>1 DEF Command, Stages
    <3> HIDE DEF now, over
    <3>3. over \in [Calls -> Command] /\ over[c] = now /\ \A e \in Calls \ {c} : over[e] = call[e]
      BY <1>1, <3>1, <3>2
    <3> DEFINE at == IF over[d].at \in Unsettled THEN over[d].at ELSE "done"
               new == [over[d] EXCEPT !.answer = "rejected", !.snapshot = Nothing, !.at = at]
    <3>4. call' = [over EXCEPT ![d] = new]
      BY <2>2 DEF Answered
    <3>5. new.answer = "rejected"
      BY <3>3 DEF Command
    <3> HIDE DEF new
    <3>6. call'[d] = new /\ \A e \in Calls \ {d} : call'[e] = over[e]
      BY <3>3, <3>4
    <3>7. new.answer \notin Tokens
      BY <3>5, RefusalAssumption
    <3> QED
      BY <3>2, <3>3, <3>6, <3>7 DEF AnswersGoOn
  <2>3. Active({call[c].product}) => purchases.call \in Calls
    BY WhatIsKnown DEF Active
  <2> HIDE DEF over
  <2>4. \/ call' = [call EXCEPT ![c].at = "open"] \/ call' = over
        \/ (Active({call[c].product}) /\ call' = Answered(over, purchases.call, "rejected"))
    BY <1>4 DEF Launch, over
  <2> QED
    BY <2>1, <2>2, <2>3, <2>4 DEF over
<1> QED
  BY <1>1, <1>2, <1>3, <1>4, AskingIsTrue

LEMMA RegisterIsTrue ==
  ASSUME PromptIInv, NEW c \in Calls, Register(c)
  PROVE  StoreIsTrue'
<1>1. /\ UNCHANGED <<deferredPurchases, completedCorrelations, journal, handed, finishing, play>>
      /\ call \in [Calls -> Command] /\ call[c] \in Command
      /\ call[c].answer = NONE /\ NONE \notin Tokens
  BY WhatIsKnown, NoneAssumption DEF Register, BeforeRegister
<1>2. CASE ~MayRegister(call[c].product)
  <2>1. Reject(c) /\ UNCHANGED history
    BY <1>2 DEF Register
  <2> QED
    BY <1>1, <2>1, RejectedAnswers, AskingIsTrue
<1>3. CASE MayRegister(call[c].product)
  <2> DEFINE new == [call[c] EXCEPT !.at = "registered"]
  <2>1. call' = [call EXCEPT ![c] = new] /\ history' = [history EXCEPT !.older[c] = Issued]
    BY <1>3 DEF Register, Issued
  <2>2. new.answer = call[c].answer /\ new.context = call[c].context
    BY <1>1 DEF Command
  <2> HIDE DEF new
  <2>3. AnswersGoOn /\ call'[c].answer = NONE
    BY <1>1, <2>1, <2>2, AnswersGo
  <2>4. history.older \in [Calls -> SUBSET Tokens]
        /\ history \in [crashes : 0..MaxCrashes, gifts : 0..MaxGifts, cleared : SUBSET Tokens,
                        older : [Calls -> SUBSET Tokens]]
    BY WhatIsKnown DEF TypeOK
  <2>5. /\ history'.cleared = history.cleared
        /\ history'.older = [history.older EXCEPT ![c] = Issued]
    BY <2>1, <2>4
  <2>6. history'.older[c] = Issued /\ \A d \in Calls \ {c} : history'.older[d] = history.older[d]
    BY <2>4, <2>5
  <2> QED
    BY <1>1, <2>3, <2>5, <2>6, StoreTrueStays DEF PlayGoesOn, journal
<1> QED
  BY <1>2, <1>3

LEMMA PlayIsTrue ==
  ASSUME PromptIInv, NEW t \in Tokens,
         \/ \E p \in Products : Gift(t, p)
         \/ PaymentCompletes(t) \/ PaymentCancelled(t) \/ PlayFinishes(t)
  PROVE  StoreIsTrue'
<1>1. /\ UNCHANGED <<deferredPurchases, completedCorrelations, journal, handed, call>>
      /\ play \in [Tokens -> Payment] /\ play[t] \in Payment
      /\ finishing' \subseteq finishing
  BY WhatIsKnown DEF TypeOK, Gift, PaymentCompletes, PaymentCancelled, PlayFinishes, store
<1>2. history'.cleared = history.cleared /\ \A c \in Calls : history'.older[c] = history.older[c]
  <2>1. history' = history \/ history' = [history EXCEPT !.gifts = @ + 1]
    BY DEF Gift, PaymentCompletes, PaymentCancelled, PlayFinishes
  <2>2. history \in [crashes : 0..MaxCrashes, gifts : 0..MaxGifts, cleared : SUBSET Tokens,
                     older : [Calls -> SUBSET Tokens]]
    BY WhatIsKnown DEF TypeOK
  <2> QED
    BY <2>1, <2>2
<1>3. \A s \in Tokens \ {t} : play'[s] = play[s]
  BY <1>1 DEF Gift, PaymentCompletes, PaymentCancelled, PlayFinishes
<1>4. PlayGoesOn(t)
  <2>1. CASE \E p \in Products : Gift(t, p)
    <3>1. PICK p \in Products, state \in {"pending", "purchased"} :
            /\ play[t].state = "none"
            /\ play' = [play EXCEPT ![t] = [state |-> state, products |-> {p}, buyer |-> NONE]]
      BY <2>1 DEF Gift
    <3> QED
      BY <1>1, <3>1 DEF PlayGoesOn, Issued
  <2>2. CASE PaymentCompletes(t)
    <3>1. PICK products :
            play' = [play EXCEPT ![t].state = "purchased", ![t].products = products]
      BY <2>2 DEF PaymentCompletes
    <3>2. play'[t] = [play[t] EXCEPT !.state = "purchased", !.products = products]
      BY <1>1, <3>1
    <3> QED
      BY <1>1, <2>2, <3>2 DEF PlayGoesOn, PaymentCompletes, Payment
  <2>3. CASE PaymentCancelled(t)
    BY <1>1, <2>3 DEF PlayGoesOn, PaymentCancelled, Payment
  <2>4. CASE PlayFinishes(t)
    BY <1>1, <2>4 DEF PlayGoesOn, PlayFinishes, Payment
  <2> QED
    BY <2>1, <2>2, <2>3, <2>4
<1>5. \A s \in Tokens : PlayGoesOn(s)
  BY <1>3, <1>4 DEF PlayGoesOn
<1> QED
  BY <1>1, <1>2, <1>5, SameAnswers, StoreTrueStays DEF journal

LEMMA SheetClosesIsTrue ==
  ASSUME PromptIInv, NEW c \in Calls, SheetCloses(c)
  PROVE  StoreIsTrue'
<1> DEFINE new == [call[c] EXCEPT !.at = "done"]
<1>1. /\ UNCHANGED <<deferredPurchases, completedCorrelations, journal, handed, finishing, history>>
      /\ call \in [Calls -> Command] /\ call[c] \in Command /\ play \in [Tokens -> Payment]
      /\ call' = [call EXCEPT ![c] = new]
  BY WhatIsKnown DEF TypeOK, SheetCloses, store
<1>2. new.answer = call[c].answer /\ new.context = call[c].context
  BY <1>1 DEF Command
<1> HIDE DEF new
<1>3. AnswersGoOn
  BY <1>1, <1>2, AnswersGo
<1>4. ASSUME NEW s \in Tokens PROVE PlayGoesOn(s)
  <2>1. CASE UNCHANGED play
    BY <2>1 DEF PlayGoesOn
  <2>2. CASE \E t \in Tokens, state \in {"pending", "purchased"}, products \in {{call[c].product}} :
               /\ play[t].state = "none"
               /\ play' = [play EXCEPT ![t] = [state |-> state, products |-> products,
                                               buyer |-> c]]
    BY <1>1, <2>2 DEF PlayGoesOn, Issued
  <2> QED
    BY <2>1, <2>2 DEF SheetCloses
<1> QED
  BY <1>1, <1>3, <1>4, StoreTrueStays DEF journal

-----------------------------------------------------------------------------
(* Steps that change the maps *)

\* What a map may hold next: a correlation it had, or one of a token it had not.
Inherits(t, v) ==
  /\ t \in Correlated
  /\ v.products = Existing(t).products /\ v.durable = Existing(t).durable
  /\ v.context \in {Existing(t).context, NONE}
  /\ Existing(t).products = play[t].products => v.context = Existing(t).context
Taken(t, v) ==
  /\ t \in Issued \ Correlated
  /\ v.products = play[t].products /\ v.context \in {NONE, play[t].buyer}
  /\ Gone(t) => ~v.durable

\* A call that was resolved by the step keeps what it was resolved with.
Resolved(c, t, d, e) ==
  /\ play[t].buyer = c /\ play[t].state = "purchased" /\ t \notin history.older[c]
  /\ call'[c].context # NONE =>
       /\ t \in DOMAIN d \union DOMAIN e /\ Keeps(c, t, Value(d, e, t))
       /\ disk' = Durable(d, e)

LEMMA ExistingNext ==
  ASSUME NEW d, NEW e, DOMAIN d \intersect DOMAIN e = {},
         deferredPurchases' = d, completedCorrelations' = e
  PROVE  /\ Correlated' = DOMAIN d \union DOMAIN e
         /\ \A t \in DOMAIN d \union DOMAIN e : Existing(t)' = Value(d, e, t)
         /\ Before' = DurableTokens(d, e)
  BY DEF Correlated, Existing, Value, Before

\* The tokens that are gone leave the maps and the journal; the others stay if durable.
LEMMA MapsGoOn ==
  ASSUME PromptIInv, NEW d \in Correlations, NEW e \in Correlations,
         DOMAIN d \intersect DOMAIN e = {},
         deferredPurchases' = d, completedCorrelations' = e,
         \A t \in DOMAIN d \union DOMAIN e :
           Inherits(t, Value(d, e, t)) \/ Taken(t, Value(d, e, t)),
         NEW gone \in SUBSET Issued, gone \intersect (DOMAIN d \union DOMAIN e) = {},
         Before \ gone \subseteq DOMAIN d \union DOMAIN e,
         finishing' \subseteq finishing \union gone,
         history.cleared \union gone \subseteq history'.cleared,
         \A c \in Calls : history'.older[c] = history.older[c],
         UNCHANGED play, handed' \subseteq Issued, corrupt => corrupt',
         disk' = Durable(d, e) \/ (disk' = disk /\ gone \intersect DOMAIN disk = {}),
         \A c \in Calls : call'[c].answer \in Tokens =>
           \/ call[c].answer = call'[c].answer /\ call[c].context = call'[c].context
           \/ Resolved(c, call'[c].answer, d, e)
  PROVE  StoreIsTrue'
<1> DEFINE now == DOMAIN d \union DOMAIN e
           v(t) == Value(d, e, t)
<1>1. /\ TokensAreIssued /\ MapsAreTrue /\ JournalIsBehind /\ ReportedAreKept /\ AnswersAreTrue
      /\ Correlated \subseteq Tokens /\ DOMAIN disk \subseteq Tokens
  BY WhatIsKnown, CorrelationsAre, CorrelatedIs DEF StoreIsTrue, TypeOK
<1>2. /\ Correlated' = now /\ Before' = DurableTokens(d, e)
      /\ \A t \in now : Existing(t)' = v(t)
  BY ExistingNext
<1>3. /\ DOMAIN Durable(d, e) = DurableTokens(d, e) /\ DurableTokens(d, e) \subseteq now
      /\ \A t \in DurableTokens(d, e) : Durable(d, e)[t] = v(t)
      /\ \A t \in now : t \in DurableTokens(d, e) <=> v(t).durable
  <2>1. Durable(d, e) = [t \in DurableTokens(d, e) |-> Value(d, e, t)]
        /\ DOMAIN Durable(d, e) = DurableTokens(d, e)
    BY DurableIs
  <2>2. /\ DurableTokens(d, e) \subseteq now
        /\ \A t \in now : t \in DurableTokens(d, e) <=> v(t).durable
    BY DEF DurableTokens
  <2> QED
    BY <2>1, <2>2
<1>4. Before = {t \in Correlated : Existing(t).durable}
  BY WhatIsKnown, DurableIsExisting DEF StoreIsSound, Before
<1>5. now \subseteq Tokens
  BY CorrelationsAre
<1> HIDE DEF now, v
<1>6. Issued' = Issued /\ TokensAreIssued'
  BY <1>1 DEF TokensAreIssued, Issued
<1>7. \A t \in Tokens \ gone : Gone(t)' => Gone(t)
  BY DEF Gone
<1>8. ASSUME NEW t \in now PROVE Fits(t, v(t))'
  <2>1. (Gone(t)' => Gone(t)) /\ (Inherits(t, v(t)) \/ Taken(t, v(t)))
    BY <1>5, <1>7 DEF now, v
  <2>2. t \in Issued /\ (Gone(t) => ~v(t).durable) /\ v(t).context \in {NONE, play[t].buyer}
        /\ (play[t].state = "pending" => v(t).products = play[t].products)
    BY <1>1, <2>1 DEF Inherits, Taken, MapsAreTrue, Fits
  <2> QED
    BY <1>6, <2>1, <2>2 DEF Fits
<1>9. MapsAreTrue'
  <2>1. CASE disk' = Durable(d, e)
    BY <1>2, <1>3, <1>8, <2>1 DEF MapsAreTrue
  <2>2. CASE disk' = disk /\ gone \intersect DOMAIN disk = {}
    <3>1. ASSUME NEW t \in DOMAIN disk PROVE Fits(t, disk[t])'
      BY <1>1, <1>6, <1>7, <2>2, <3>1 DEF MapsAreTrue, Fits
    <3> QED
      BY <1>2, <1>8, <2>2, <3>1 DEF MapsAreTrue
  <2> QED
    BY <2>1, <2>2
<1>10. \A t \in Before \ gone : t \in now /\ Inherits(t, v(t)) /\ t \in DurableTokens(d, e)
  BY <1>3, <1>4 DEF Inherits, Taken, now, v
<1>11. JournalIsBehind'
  <2>1. DOMAIN disk' \subseteq DurableTokens(d, e)
    BY <1>1, <1>3, <1>10 DEF JournalIsBehind
  <2> QED
    BY <1>2, <2>1 DEF JournalIsBehind
<1>12. AnswersAreTrue'
  BY <1>1 DEF AnswersAreTrue, Resolved
<1>13. ReportedAreKept'
  <2> SUFFICES ASSUME NEW c \in Calls, NEW t \in Tokens, Reported(c, t)', ~corrupt
               PROVE  /\ t \in now /\ Keeps(c, t, v(t))
                      /\ t \in DOMAIN disk' /\ Keeps(c, t, disk'[t])
    BY <1>2 DEF ReportedAreKept, Keeps
  <2>1. CASE Resolved(c, t, d, e)
    BY <1>3, <2>1 DEF Resolved, Reported, Keeps, now, v
  <2>2. CASE call[c].answer = t /\ call[c].context = call'[c].context
    <3>1. Reported(c, t) /\ t \notin gone
      BY <2>2 DEF Reported
    <3>2. /\ t \in Correlated /\ Keeps(c, t, Existing(t))
          /\ t \in DOMAIN disk /\ Keeps(c, t, disk[t])
      BY <1>1, <3>1 DEF ReportedAreKept
    <3>3. t \in now /\ Inherits(t, v(t)) /\ t \in DurableTokens(d, e)
      BY <1>4, <1>10, <3>1, <3>2 DEF Keeps
    <3>4. Keeps(c, t, v(t))
      BY <3>2, <3>3 DEF Inherits, Keeps
    <3> QED
      BY <1>3, <3>2, <3>3, <3>4
  <2> QED
    BY <2>1, <2>2 DEF Reported
<1> QED
  BY <1>6, <1>9, <1>11, <1>12, <1>13 DEF StoreIsTrue

-----------------------------------------------------------------------------
(* Announcements and the store *)

LEMMA PersistWrites ==
  ASSUME NEW d, NEW e, NEW force, NEW ok, Persist(d, e, force, ok)
  PROVE  /\ disk' = disk \/ disk' = Durable(d, e)
         /\ ok /\ (force \/ DurableTokens(d, e) # {}) => disk' = Durable(d, e)
<1>1. DOMAIN Durable(d, e) = DurableTokens(d, e)
  BY DurableIs
<1> QED
  BY <1>1 DEF Persist, NothingToWrite, journal

\* One token gets a correlation in one of the maps.
Puts(d, e, t, v) ==
  /\ d \in Correlations /\ e \in Correlations /\ DOMAIN d \intersect DOMAIN e = {}
  /\ DOMAIN d \union DOMAIN e = Correlated \union {t}
  /\ Value(d, e, t) = v /\ \A s \in Correlated \ {t} : Value(d, e, s) = Existing(s)

LEMMA PutsIs ==
  ASSUME StoreIsSound, NEW t \in Tokens, NEW v \in Correlation, NEW d, NEW e,
         \/ d = With(deferredPurchases, t, v) /\ e = Without(completedCorrelations, {t})
         \/ /\ d = With(deferredPurchases, t, v) /\ e = completedCorrelations
            /\ t \in DOMAIN deferredPurchases
         \/ /\ d = deferredPurchases /\ e = With(completedCorrelations, t, v)
            /\ t \notin DOMAIN deferredPurchases
  PROVE  Puts(d, e, t, v)
<1>1. /\ deferredPurchases \in Correlations /\ completedCorrelations \in Correlations
      /\ DOMAIN deferredPurchases \intersect DOMAIN completedCorrelations = {}
  BY DEF StoreIsSound, SlotIsReserved
<1>2. /\ With(deferredPurchases, t, v) \in Correlations
      /\ DOMAIN With(deferredPurchases, t, v) = DOMAIN deferredPurchases \union {t}
      /\ With(deferredPurchases, t, v)[t] = v
      /\ \A s \in DOMAIN deferredPurchases \ {t} :
           With(deferredPurchases, t, v)[s] = deferredPurchases[s]
  BY <1>1, WithIs
<1>3. /\ With(completedCorrelations, t, v) \in Correlations
      /\ DOMAIN With(completedCorrelations, t, v) = DOMAIN completedCorrelations \union {t}
      /\ With(completedCorrelations, t, v)[t] = v
      /\ \A s \in DOMAIN completedCorrelations \ {t} :
           With(completedCorrelations, t, v)[s] = completedCorrelations[s]
  BY <1>1, WithIs
<1>4. /\ Without(completedCorrelations, {t}) \in Correlations
      /\ DOMAIN Without(completedCorrelations, {t}) = DOMAIN completedCorrelations \ {t}
      /\ \A s \in DOMAIN completedCorrelations \ {t} :
           Without(completedCorrelations, {t})[s] = completedCorrelations[s]
  BY <1>1, WithoutIs
<1>5. CASE d = With(deferredPurchases, t, v) /\ e = Without(completedCorrelations, {t})
  BY <1>1, <1>2, <1>4, <1>5 DEF Puts, Value, Correlated, Existing
<1>6. CASE d = With(deferredPurchases, t, v) /\ e = completedCorrelations
           /\ t \in DOMAIN deferredPurchases
  BY <1>1, <1>2, <1>6 DEF Puts, Value, Correlated, Existing
<1>7. CASE d = deferredPurchases /\ e = With(completedCorrelations, t, v)
           /\ t \notin DOMAIN deferredPurchases
  BY <1>1, <1>3, <1>7 DEF Puts, Value, Correlated, Existing
<1> QED
  BY <1>5, <1>6, <1>7

LEMMA ExistingInherits ==
  ASSUME NEW t \in Correlated
  PROVE  Inherits(t, Existing(t))
  BY DEF Inherits

LEMMA PutIsTrue ==
  ASSUME PromptIInv, NEW t \in Tokens, NEW v, NEW d, NEW e, Puts(d, e, t, v),
         deferredPurchases' = d, completedCorrelations' = e, Inherits(t, v) \/ Taken(t, v),
         disk' = disk \/ disk' = Durable(d, e), corrupt => corrupt',
         UNCHANGED <<play, finishing, history>>, handed' \subseteq Issued,
         \A c \in Calls : call'[c].answer \in Tokens =>
           \/ call[c].answer = call'[c].answer /\ call[c].context = call'[c].context
           \/ Resolved(c, call'[c].answer, d, e)
  PROVE  StoreIsTrue'
<1>1. /\ d \in Correlations /\ e \in Correlations /\ DOMAIN d \intersect DOMAIN e = {}
      /\ DOMAIN d \union DOMAIN e = Correlated \union {t}
      /\ \A s \in DOMAIN d \union DOMAIN e :
           Inherits(s, Value(d, e, s)) \/ Taken(s, Value(d, e, s))
  BY ExistingInherits DEF Puts
<1>2. Before \subseteq DOMAIN d \union DOMAIN e
  BY <1>1, WhatIsKnown, DurableIsExisting DEF StoreIsSound, Before
<1> DEFINE gone == {}
<1>3. /\ gone \in SUBSET Issued /\ gone \intersect (DOMAIN d \union DOMAIN e) = {}
      /\ Before \ gone \subseteq DOMAIN d \union DOMAIN e
      /\ finishing' \subseteq finishing \union gone
      /\ history.cleared \union gone \subseteq history'.cleared
      /\ gone \intersect DOMAIN disk = {}
  BY <1>2
<1> HIDE DEF gone
<1> QED
  BY <1>1, <1>3, MapsGoOn

\* The callback's purchase is announced under a new token, which takes the callback's
\* context along.
LEMMA CallbackIsTaken ==
  ASSUME PromptIInv, NEW u \in updates, u.token # NONE, u.state # "failed", Active(u.products)
  PROVE  LET c == purchases.call
             v == Fresh(u.products, purchases.context)
         IN /\ c \in Calls /\ u.token \in Tokens /\ u.token \notin Correlated
            /\ v \in Correlation /\ Taken(u.token, v)
            /\ call[c].at = "done" /\ purchases.context = call[c].context
            /\ purchases.context \in {c, NONE}
            /\ play[u.token].buyer = c /\ play[u.token].state = u.state
            /\ play[u.token].products = u.products
            /\ u.token \notin history.older[c]
<1> DEFINE c == purchases.call
           v == Fresh(u.products, purchases.context)
<1>1. purchases # NONE /\ c \in Calls /\ u \in Update
  BY WhatIsKnown DEF Active
<1>2. Active(RejectedProducts(u))
  BY DEF RejectedProducts
<1>3. /\ u.token \in Tokens /\ u.products \in SUBSET Products
      /\ u.state \in {"pending", "purchased"}
      /\ u.state = play[u.token].state /\ u.products = play[u.token].products
      /\ call[c].at = "done" /\ play[u.token].buyer = c
      /\ u.token \notin Correlated \union finishing \union history.older[c]
  BY <1>1, <1>2, WhatIsKnown DEF SheetsAreSound, AnnouncementsAreTrue, Update
<1>4. purchases.context = call[c].context /\ call[c].context \in {c, NONE}
  BY <1>1, <1>3, WhatIsKnown DEF SheetsAreSound, CallbackIsOfSheet, SheetsAreAwaited
<1>5. v.products = u.products /\ v.context = purchases.context
      /\ (v.durable <=> purchases.context # NONE)
  BY DEF Fresh
<1>6. Taken(u.token, v)
  BY <1>3, <1>4, <1>5 DEF Taken, Gone, Issued
<1>7. v \in Correlation
  <2>1. u.products # {}
    BY DEF Active
  <2> QED
    BY <1>1, <1>3, <1>4, <2>1, FreshIs
<1> QED
  BY <1>1, <1>3, <1>4, <1>6, <1>7

LEMMA HearPendingIsTrue ==
  ASSUME PromptIInv, NEW u \in updates, HearPending(u), corrupt => corrupt'
  PROVE  StoreIsTrue'
<1>1. UNCHANGED <<finishing, play, handed, history>> /\ u.state = "pending"
  BY DEF HearPending
<1>2. CASE u.token = NONE \/ ~Active(u.products)
  BY <1>1, <1>2, ReleaseIsTrue DEF HearPending
<1>3. CASE ~(u.token = NONE \/ ~Active(u.products))
  <2> DEFINE t == u.token
             v == Fresh(u.products, purchases.context)
  <2>1. /\ purchases.call \in Calls /\ t \in Tokens /\ t \notin Correlated
        /\ v \in Correlation /\ Taken(t, v)
    BY <1>1, <1>3, CallbackIsTaken
  <2> DEFINE d == With(deferredPurchases, t, v)
             e == Without(completedCorrelations, {t})
  <2>2. /\ Reject(purchases.call)
        /\ deferredPurchases' = d /\ completedCorrelations' = e
        /\ \E ok \in BOOLEAN : PersistFor(v, ok)
    BY <1>3, <2>1 DEF HearPending
  <2> HIDE DEF t, v, d, e
  <2>3. Puts(d, e, t, v)
    BY <2>1, WhatIsKnown, PutsIs DEF d, e
  <2>4. disk' = disk \/ disk' = Durable(d, e)
    BY <2>2, PersistWrites DEF PersistFor, journal
  <2>5. AnswersGoOn
    BY <2>1, <2>2, WhatIsKnown, RejectedAnswers
  <2>6. handed' \subseteq Issued
    BY <1>1, KnownAreIssued
  <2> QED
    BY <1>1, <2>1, <2>2, <2>3, <2>4, <2>5, <2>6, PutIsTrue DEF AnswersGoOn
<1> QED
  BY <1>2, <1>3

\* A purchase the store knows is announced: it keeps its context if it has its products.
LEMMA HearKnownIsTrue ==
  ASSUME PromptIInv, NEW u \in updates, HearPurchased(u), corrupt => corrupt',
         u.token # NONE, u.token \in Correlated
  PROVE  StoreIsTrue'
<1> DEFINE t == u.token
           v == Validated(Existing(t), u.products)
           d == deferredPurchases'
           e == completedCorrelations'
<1>1. /\ UNCHANGED <<finishing, play, history, call, handed>>
      /\ IF t \in DOMAIN deferredPurchases
         THEN d = With(deferredPurchases, t, v) /\ e = completedCorrelations
         ELSE d = deferredPurchases /\ e = With(completedCorrelations, t, v)
      /\ \E ok \in BOOLEAN : PersistFor(v, ok)
  BY DEF HearPurchased
<1>2. /\ t \in Tokens /\ u.products = play[t].products /\ Existing(t) \in Correlation
  BY WhatIsKnown, ExistingType DEF SheetsAreSound, AnnouncementsAreTrue, Update
<1>3. v \in Correlation
  BY <1>2, ValidatedIs
<1>4. Inherits(t, v)
  BY <1>2 DEF Inherits, Validated, Correlation
<1> HIDE DEF t, v
<1>5. Puts(d, e, t, v)
  BY <1>1, <1>2, <1>3, WhatIsKnown, PutsIs
<1>6. disk' = disk \/ disk' = Durable(d, e)
  BY <1>1, PersistWrites DEF PersistFor, journal
<1>7. AnswersGoOn /\ handed' \subseteq Issued
  BY <1>1, SameAnswers, KnownAreIssued
<1> QED
  BY <1>1, <1>2, <1>4, <1>5, <1>6, <1>7, PutIsTrue DEF AnswersGoOn

\* The callback's purchase is announced as complete: the call is resolved with it only
\* when its context is in the journal.
LEMMA HearResolvedIsTrue ==
  ASSUME PromptIInv, NEW u \in updates, HearPurchased(u), corrupt => corrupt',
         u.token # NONE, u.token \notin Correlated, Active(u.products)
  PROVE  StoreIsTrue'
<1> DEFINE t == u.token
           c == purchases.call
           v == Fresh(u.products, purchases.context)
           d == deferredPurchases'
           e == completedCorrelations'
<1>1. UNCHANGED <<finishing, play, history>> /\ u.state = "purchased"
  BY DEF HearPurchased
<1>2. /\ c \in Calls /\ t \in Tokens /\ t \notin Correlated
      /\ v \in Correlation /\ Taken(t, v)
      /\ call[c].at = "done" /\ purchases.context = call[c].context
      /\ purchases.context \in {c, NONE}
      /\ play[t].buyer = c /\ play[t].state = "purchased" /\ play[t].products = u.products
      /\ t \notin history.older[c]
  BY <1>1, CallbackIsTaken
<1>3. PICK ok \in BOOLEAN :
        /\ PersistFor(v, ok)
        /\ call' = Answered(call, c, IF ok THEN t ELSE "rejected")
        /\ handed' = IF ok THEN handed \union {t} ELSE handed
        /\ d = deferredPurchases /\ e = With(completedCorrelations, t, v)
  BY DEF HearPurchased
<1>4. v.products = u.products /\ v.context = purchases.context
      /\ (v.durable <=> purchases.context # NONE)
  BY DEF Fresh
<1> DEFINE answer == IF ok THEN t ELSE "rejected"
           new == [call[c] EXCEPT !.answer = answer, !.snapshot = Nothing, !.at = "done"]
<1>5. call' = [call EXCEPT ![c] = new]
  BY <1>2, <1>3 DEF Answered, Unsettled
<1>6. call[c] \in Command /\ call \in [Calls -> Command]
  BY <1>2, WhatIsKnown
<1>7. new.answer = answer /\ new.context = call[c].context
  BY <1>6 DEF Command
<1> HIDE DEF t, v, c, new, answer, d, e
<1>8. call'[c] = new /\ \A b \in Calls \ {c} : call'[b] = call[b]
  BY <1>2, <1>5, <1>6
<1>9. Puts(d, e, t, v)
  BY <1>2, <1>3, WhatIsKnown, PutsIs DEF Correlated
<1>10. disk' = disk \/ disk' = Durable(d, e)
  BY <1>3, PersistWrites DEF PersistFor, journal, d, e
<1>11. handed' \subseteq Issued
  BY <1>2, <1>3, KnownAreIssued DEF Taken
<1>12. ok /\ call[c].context # NONE => disk' = Durable(d, e)
  <2> SUFFICES ASSUME ok, call[c].context # NONE PROVE disk' = Durable(d, e)
    OBVIOUS
  <2>1. v.durable /\ Persist(d, e, FALSE, ok)
    BY <1>2, <1>3, <1>4 DEF PersistFor, d, e
  <2>2. t \in DurableTokens(d, e)
    BY <1>9, <2>1 DEF Puts, DurableTokens
  <2> QED
    BY <2>1, <2>2, PersistWrites
<1>13. ok => Resolved(c, t, d, e)
  <2>1. t \in DOMAIN d \union DOMAIN e /\ Value(d, e, t) = v
    BY <1>9 DEF Puts
  <2>2. call[c].context # NONE => Keeps(c, t, v)
    BY <1>2, <1>4 DEF Keeps
  <2> QED
    BY <1>2, <1>7, <1>8, <1>12, <2>1, <2>2 DEF Resolved
<1>14. ASSUME NEW b \in Calls, call'[b].answer \in Tokens
       PROVE  \/ call[b].answer = call'[b].answer /\ call[b].context = call'[b].context
              \/ Resolved(b, call'[b].answer, d, e)
  <2>1. CASE b # c
    BY <1>8, <2>1
  <2>2. CASE b = c
    <3>1. ok /\ call'[b].answer = t
      BY <1>7, <1>8, <1>14, <2>2, RefusalAssumption DEF answer
    <3> QED
      BY <1>13, <2>2, <3>1
  <2> QED
    BY <2>1, <2>2
<1> QED
  BY <1>1, <1>2, <1>9, <1>10, <1>11, <1>14, PutIsTrue DEF d, e

LEMMA HearsIsTrue ==
  ASSUME PromptIInv, NEW u \in updates, Hears(u), corrupt => corrupt'
  PROVE  StoreIsTrue'
<1>1. CASE HearPending(u)
  BY <1>1, HearPendingIsTrue
<1>2. CASE HearFailure(u)
  BY <1>2, ReleaseIsTrue DEF HearFailure
<1>3. CASE HearPurchased(u)
  <2>1. UNCHANGED <<finishing, play, history>>
    BY <1>3 DEF HearPurchased
  <2>2. CASE u.token = NONE /\ Release(u.products) /\ UNCHANGED handed
    BY <2>1, <2>2, ReleaseIsTrue
  <2>3. CASE u.token # NONE /\ u.token \in Correlated
    BY <1>3, <2>3, HearKnownIsTrue
  <2>4. CASE u.token # NONE /\ u.token \notin Correlated /\ Active(u.products)
    BY <1>3, <2>4, HearResolvedIsTrue
  <2>5. CASE UNCHANGED <<store, journal, call, handed>>
    BY <2>1, <2>5, SameAnswers, AskingIsTrue DEF store
  <2> QED
    BY <1>3, <2>2, <2>3, <2>4, <2>5 DEF HearPurchased
<1> QED
  BY <1>1, <1>2, <1>3 DEF Hears

-----------------------------------------------------------------------------
(* Snapshots, finishing and restarts, and the store *)

\* What Play reports now of a token is taken up, or validates what is there.
LEMMA ObservedIsTrue ==
  ASSUME PromptIInv, NEW snapshot, snapshot \in {Snapshot, Nothing}, NEW t \in DOMAIN snapshot
  PROVE  Inherits(t, Observed(t, snapshot)) \/ Taken(t, Observed(t, snapshot))
<1> DEFINE v == Observed(t, snapshot)
<1>1. snapshot = Snapshot
  BY NothingIs
<1>2. t \in Issued /\ snapshot[t].products = play[t].products
  BY <1>1 DEF Snapshot, Issued, OwnedStates
<1>3. CASE t \in Correlated
  <2>1. Existing(t) \in Correlation
    BY <1>3, WhatIsKnown, ExistingType
  <2> QED
    BY <1>2, <1>3, <2>1 DEF Observed, Inherits, Validated, Correlation
<1>4. CASE t \notin Correlated
  <2>1. v.products = play[t].products /\ v.context = NONE /\ ~v.durable
    BY <1>2, <1>4 DEF Observed, Fresh
  <2> HIDE DEF v
  <2>2. Taken(t, v)
    BY <1>2, <1>4, <2>1 DEF Taken
  <2> QED
    BY <2>2 DEF v
<1> QED
  BY <1>3, <1>4

\* The maps follow a snapshot of Play.
LEMMA FollowingIsTrue ==
  ASSUME PromptIInv, NEW snapshot, snapshot \in {Snapshot, Nothing},
         NEW d \in Correlations, NEW e \in Correlations, DOMAIN d \intersect DOMAIN e = {},
         deferredPurchases' = d, completedCorrelations' = e, DurableTokens(d, e) = Before,
         \A t \in DOMAIN d \union DOMAIN e :
           \/ t \in DOMAIN snapshot /\ Value(d, e, t) = Observed(t, snapshot)
           \/ t \in Correlated /\ Value(d, e, t) = Existing(t),
         \E ok \in BOOLEAN : Persist(d, e, FALSE, ok),
         AnswersGoOn, UNCHANGED <<play, finishing, history>>, handed' \subseteq Issued,
         corrupt => corrupt'
  PROVE  StoreIsTrue'
<1>1. \A t \in DOMAIN d \union DOMAIN e :
        Inherits(t, Value(d, e, t)) \/ Taken(t, Value(d, e, t))
  BY ObservedIsTrue, ExistingInherits
<1>2. Before \subseteq DOMAIN d \union DOMAIN e
  BY DEF DurableTokens
<1> DEFINE gone == {}
<1>3. /\ gone \in SUBSET Issued /\ gone \intersect (DOMAIN d \union DOMAIN e) = {}
      /\ Before \ gone \subseteq DOMAIN d \union DOMAIN e
      /\ finishing' \subseteq finishing \union gone
      /\ history.cleared \union gone \subseteq history'.cleared
      /\ gone \intersect DOMAIN disk = {}
  BY <1>2
<1>4. disk' = disk \/ disk' = Durable(d, e)
  BY PersistWrites
<1> HIDE DEF gone
<1> QED
  BY <1>1, <1>3, <1>4, MapsGoOn DEF AnswersGoOn

LEMMA PrepareForPurchaseIsTrue ==
  ASSUME PromptIInv, NEW c \in Calls, PrepareForPurchase(c), corrupt => corrupt'
  PROVE  StoreIsTrue'
<1> DEFINE next == PreparedMaps(call[c].product, call[c].snapshot)
           all == DOMAIN next.deferred \union DOMAIN next.completed
           full == Cardinality(all) >= MaxCorrelated
<1>1. /\ StoreIsSound /\ call[c] \in Command /\ call \in [Calls -> Command]
      /\ call[c].snapshot = Snapshot /\ Snapshot \in Snapshotted
      /\ UNCHANGED <<finishing, play, handed, history>>
  BY WhatIsKnown, SnapshotType DEF PrepareForPurchase, SheetsAreSound, SnapshotsAreFresh
<1>2. ASSUME \/ Reject(c)
             \/ call' = [call EXCEPT ![c].at = "prepared", ![c].snapshot = Nothing]
      PROVE  AnswersGoOn
  <2>1. CASE call' = [call EXCEPT ![c].at = "prepared", ![c].snapshot = Nothing]
    <3> DEFINE new == [call[c] EXCEPT !.at = "prepared", !.snapshot = Nothing]
    <3>1. call' = [call EXCEPT ![c] = new]
      BY <2>1
    <3>2. new.answer = call[c].answer /\ new.context = call[c].context
      BY <1>1 DEF Command
    <3> HIDE DEF new
    <3> QED
      BY <1>1, <3>1, <3>2, AnswersGo
  <2> QED
    BY <1>1, <1>2, <2>1, RejectedAnswers
<1>3. CASE ~NoFlow
  BY <1>1, <1>2, <1>3, AskingIsTrue DEF PrepareForPurchase
<1>4. CASE NoFlow
  <2>1. PICK kept \in IF full THEN Retained(next.deferred, next.completed) ELSE {Tokens} :
          /\ deferredPurchases' = Limited(next.deferred, kept)
          /\ completedCorrelations' = Limited(next.completed, kept)
          /\ \E ok \in BOOLEAN :
               /\ Persist(deferredPurchases', completedCorrelations', FALSE, ok)
               /\ \/ Reject(c)
                  \/ call' = [call EXCEPT ![c].at = "prepared", ![c].snapshot = Nothing]
    BY <1>4 DEF PrepareForPurchase, Limited
  <2> DEFINE d == Limited(next.deferred, kept)
             e == Limited(next.completed, kept)
  <2>2. (\E ok \in BOOLEAN : Persist(d, e, FALSE, ok)) /\ AnswersGoOn
    BY <1>2, <2>1
  <2>3. /\ next.deferred \in Correlations /\ next.completed \in Correlations
        /\ DOMAIN next.deferred \intersect DOMAIN next.completed = {}
        /\ DurableTokens(next.deferred, next.completed) = Before
        /\ \A t \in all :
             \/ t \in DOMAIN Snapshot
                /\ Value(next.deferred, next.completed, t) = Observed(t, Snapshot)
             \/ t \in Correlated /\ Value(next.deferred, next.completed, t) = Existing(t)
    BY <1>1, PreparedIs
  <2> HIDE DEF next
  <2>4. DurableTokens(next.deferred, next.completed) \subseteq kept
    <3>1. CASE full
      BY <2>1, <3>1, DurableIs DEF Retained
    <3>2. CASE ~full
      BY <2>1, <2>3, <3>2, CorrelationsAre DEF DurableTokens
    <3> QED
      BY <3>1, <3>2
  <2>5. /\ d \in Correlations /\ e \in Correlations
        /\ DOMAIN d \intersect DOMAIN e = {}
        /\ DOMAIN d \union DOMAIN e = all \intersect kept
        /\ DurableTokens(d, e) = Before
        /\ \A t \in DOMAIN d \union DOMAIN e :
             Value(d, e, t) = Value(next.deferred, next.completed, t)
    BY <2>3, <2>4, LimitedAre
  <2>6. deferredPurchases' = d /\ completedCorrelations' = e
    BY <2>1
  <2> HIDE DEF d, e
  <2>7. handed' \subseteq Issued
    BY <1>1, KnownAreIssued
  <2> QED
    BY <1>1, <2>2, <2>3, <2>5, <2>6, <2>7, FollowingIsTrue
<1> QED
  BY <1>3, <1>4

LEMMA QueryAnswersIsTrue ==
  ASSUME PromptIInv, QueryAnswers, corrupt => corrupt'
  PROVE  StoreIsTrue'
<1> DEFINE next == ReconciledMaps(owned)
           d == next.deferred
           e == next.completed
<1>1. /\ StoreIsSound /\ owned \in {Snapshot, Nothing} /\ owned \in Snapshotted
      /\ deferredPurchases' = d /\ completedCorrelations' = e
      /\ \E ok \in BOOLEAN : Persist(d, e, FALSE, ok)
      /\ handed' \subseteq handed \union Bought(owned)
      /\ UNCHANGED <<call, finishing, play, history>>
  BY WhatIsKnown DEF QueryAnswers, SheetsAreSound, SnapshotsAreFresh, PlayIsSound
<1>2. /\ d \in Correlations /\ e \in Correlations
      /\ DOMAIN d \intersect DOMAIN e = {}
      /\ DOMAIN d \union DOMAIN e \subseteq Correlated
      /\ DurableTokens(d, e) = Before
      /\ \A t \in DOMAIN d \union DOMAIN e :
           \/ t \in DOMAIN owned /\ Value(d, e, t) = Observed(t, owned)
           \/ Value(d, e, t) = Existing(t)
  BY <1>1, ReconciledIs
<1>3. handed' \subseteq Issued
  <2>1. Bought(owned) \subseteq Issued
    BY <1>1, NothingIs DEF Bought, Snapshot, Issued, OwnedStates
  <2> QED
    BY <1>1, <2>1, KnownAreIssued
<1>4. AnswersGoOn
  BY <1>1, SameAnswers
<1> HIDE DEF d, e
<1> QED
  BY <1>1, <1>2, <1>3, <1>4, FollowingIsTrue

LEMMA FinishTransactionIsTrue ==
  ASSUME PromptIInv, NEW t \in Tokens, FinishTransaction(t), corrupt => corrupt'
  PROVE  StoreIsTrue'
<1> DEFINE d == Without(deferredPurchases, {t})
           e == Without(completedCorrelations, {t})
           known == t \in Correlated /\ Existing(t).durable
<1>1. /\ UNCHANGED <<call, play, handed>> /\ t \in Issued /\ handed \subseteq Issued
      /\ history \in [crashes : 0..MaxCrashes, gifts : 0..MaxGifts, cleared : SUBSET Tokens,
                      older : [Calls -> SUBSET Tokens]]
  BY WhatIsKnown, KnownAreIssued DEF FinishTransaction, TypeOK
<1>2. PICK ok \in BOOLEAN :
        /\ IF known THEN Persist(d, e, TRUE, ok) ELSE ok /\ UNCHANGED journal
        /\ IF ok
           THEN /\ deferredPurchases' = d /\ completedCorrelations' = e
                /\ finishing' = finishing \union {t}
                /\ history' = [history EXCEPT !.cleared = @ \union {t}]
           ELSE UNCHANGED <<deferredPurchases, completedCorrelations, finishing, history>>
  BY DEF FinishTransaction
<1>3. /\ deferredPurchases \in Correlations /\ completedCorrelations \in Correlations
      /\ DOMAIN deferredPurchases \intersect DOMAIN completedCorrelations = {}
      /\ Before = {s \in Correlated : Existing(s).durable} /\ DOMAIN disk \subseteq Before
  BY WhatIsKnown, DurableIsExisting
     DEF StoreIsSound, SlotIsReserved, Before, StoreIsTrue, JournalIsBehind
<1>4. /\ d \in Correlations /\ DOMAIN d = DOMAIN deferredPurchases \ {t}
      /\ \A s \in DOMAIN deferredPurchases \ {t} : d[s] = deferredPurchases[s]
  BY <1>3, WithoutIs
<1>5. /\ e \in Correlations /\ DOMAIN e = DOMAIN completedCorrelations \ {t}
      /\ \A s \in DOMAIN completedCorrelations \ {t} : e[s] = completedCorrelations[s]
  BY <1>3, WithoutIs
<1> HIDE DEF d, e
<1>6. /\ DOMAIN d \intersect DOMAIN e = {} /\ DOMAIN d \union DOMAIN e = Correlated \ {t}
      /\ \A s \in Correlated \ {t} : Value(d, e, s) = Existing(s)
  BY <1>3, <1>4, <1>5 DEF Correlated, Value, Existing
<1>7. \A s \in DOMAIN d \union DOMAIN e :
        Inherits(s, Value(d, e, s)) \/ Taken(s, Value(d, e, s))
  BY <1>6, ExistingInherits
<1>8. Before \ {t} \subseteq DOMAIN d \union DOMAIN e
  BY <1>3, <1>6
<1>9. AnswersGoOn
  BY <1>1, SameAnswers
<1>10. CASE ok
  <2>1. /\ deferredPurchases' = d /\ completedCorrelations' = e
        /\ finishing' = finishing \union {t}
        /\ history' = [history EXCEPT !.cleared = @ \union {t}]
    BY <1>2, <1>10
  <2>2. history'.cleared = history.cleared \union {t} /\ history'.older = history.older
    BY <1>1, <2>1
  <2>3. disk' = Durable(d, e) \/ (disk' = disk /\ {t} \intersect DOMAIN disk = {})
    <3>1. CASE known
      BY <1>2, <1>10, <3>1, PersistWrites
    <3>2. CASE ~known
      BY <1>2, <1>3, <3>2 DEF journal
    <3> QED
      BY <3>1, <3>2
  <2> DEFINE gone == {t}
  <2>4. /\ gone \in SUBSET Issued /\ gone \intersect (DOMAIN d \union DOMAIN e) = {}
        /\ Before \ gone \subseteq DOMAIN d \union DOMAIN e
        /\ finishing' \subseteq finishing \union gone
        /\ history.cleared \union gone \subseteq history'.cleared
        /\ disk' = Durable(d, e) \/ (disk' = disk /\ gone \intersect DOMAIN disk = {})
    BY <1>1, <1>6, <1>8, <2>1, <2>2, <2>3
  <2> HIDE DEF gone
  <2> QED
    BY <1>1, <1>4, <1>5, <1>6, <1>7, <1>9, <2>1, <2>2, <2>4, MapsGoOn DEF AnswersGoOn
<1>11. CASE ~ok
  <2>1. UNCHANGED <<deferredPurchases, completedCorrelations, finishing, history, disk, corrupt>>
    <3>1. known /\ Persist(d, e, TRUE, ok)
      BY <1>2, <1>11
    <3>2. UNCHANGED <<disk, corrupt>>
      BY <1>11, <3>1 DEF Persist, NothingToWrite, journal
    <3> QED
      BY <1>2, <1>11, <3>2
  <2> QED
    BY <1>1, <1>9, <2>1, StoreTrueStays DEF PlayGoesOn
<1> QED
  BY <1>10, <1>11

\* After a restart the store knows what the journal held, and no transaction is being
\* finished: what was reported survives.
LEMMA RestartIsTrue ==
  ASSUME PromptIInv, Restart
  PROVE  StoreIsTrue'
<1>1. /\ TokensAreIssued /\ MapsAreTrue /\ ReportedAreKept /\ AnswersAreTrue
      /\ disk \in Correlations /\ JournalFits
      /\ history \in [crashes : 0..MaxCrashes, gifts : 0..MaxGifts, cleared : SUBSET Tokens,
                      older : [Calls -> SUBSET Tokens]]
  BY WhatIsKnown DEF StoreIsTrue, TypeOK, StoreIInv
<1>2. /\ UNCHANGED <<play, handed>> /\ finishing' = {} /\ deferredPurchases' = Nothing
      /\ history' = [history EXCEPT !.crashes = @ + 1]
  BY DEF Restart
<1>3. history'.older = history.older /\ history'.cleared = history.cleared
  BY <1>1, <1>2
<1>4. TokensAreIssued' /\ Issued' = Issued
  BY <1>1, <1>2, <1>3 DEF TokensAreIssued, Issued
<1>5. \A c \in Calls : call'[c].answer \in Tokens =>
        call[c].answer = call'[c].answer /\ call[c].context = call'[c].context
  BY RestartedAre
<1>6. AnswersAreTrue'
  BY <1>1, <1>2, <1>3, <1>5 DEF AnswersAreTrue
<1>7. DOMAIN deferredPurchases' = {} /\ Correlated' = DOMAIN completedCorrelations'
      /\ \A t \in Correlated' : Existing(t)' = completedCorrelations'[t]
  BY <1>2, NothingIs DEF Correlated, Existing
<1>8. \A t, v : Fits(t, v) => Fits(t, v)'
  BY <1>2, <1>4 DEF Fits, Gone
<1>9. CASE completedCorrelations' = disk /\ disk' = disk /\ ~corrupt
  <2>1. MapsAreTrue'
    BY <1>1, <1>7, <1>8, <1>9 DEF MapsAreTrue
  <2>2. JournalIsBehind'
    BY <1>1, <1>7, <1>9 DEF JournalIsBehind, JournalFits, Before, DurableTokens, Value
  <2>3. ReportedAreKept'
    <3> SUFFICES ASSUME NEW c \in Calls, NEW t \in Tokens, Reported(c, t)'
                 PROVE  t \in DOMAIN disk /\ Keeps(c, t, disk[t])'
      BY <1>7, <1>9 DEF ReportedAreKept, Keeps
    <3>1. Reported(c, t)
      BY <1>3, <1>5 DEF Reported
    <3> QED
      BY <1>1, <1>2, <1>9, <3>1 DEF ReportedAreKept, Keeps
  <2> QED
    BY <1>4, <1>6, <2>1, <2>2, <2>3 DEF StoreIsTrue
<1>10. CASE completedCorrelations' = Nothing /\ disk' = Nothing /\ corrupt' = TRUE
  <2>1. MapsAreTrue' /\ JournalIsBehind' /\ ReportedAreKept'
    BY <1>7, <1>10, NothingIs DEF MapsAreTrue, JournalIsBehind, ReportedAreKept
  <2> QED
    BY <1>4, <1>6, <2>1 DEF StoreIsTrue
<1> QED
  BY <1>9, <1>10 DEF Restart

LEMMA StoreStaysTrue ==
  ASSUME PromptIInv, [Next]_vars
  PROVE  StoreIsTrue'
<1>1. corrupt => corrupt'
  BY WhatIsKnown, NextKeeps DEF Kept
<1>2. CASE QueryPurchases \/ UNCHANGED vars
  <2>1. UNCHANGED <<deferredPurchases, completedCorrelations, journal, handed, finishing, play,
                    history, call>>
    BY <1>2 DEF QueryPurchases, vars, store
  <2> QED
    BY <2>1, SameAnswers, AskingIsTrue
<1>3. CASE Next /\ ~QueryPurchases
  BY <1>1, <1>3, CommandsAreTrue, RegisterIsTrue, PlayIsTrue, SheetClosesIsTrue,
     PrepareForPurchaseIsTrue, HearsIsTrue, QueryAnswersIsTrue, FinishTransactionIsTrue,
     RestartIsTrue DEF Next
<1> QED
  BY <1>2, <1>3

-----------------------------------------------------------------------------
(* What is promised *)

LEMMA PromptInit == Prompt /\ Init => PromptIInv
<1> SUFFICES ASSUME Prompt, Init PROVE PromptIInv
  OBVIOUS
<1>1. StoreIInv
  BY InitSound
<1>2. /\ purchases = NONE /\ updates = {} /\ owned = NONE /\ finishing = {} /\ handed = {}
      /\ \A c \in Calls : call[c].at = "idle" /\ call[c].context = NONE /\ call[c].answer = NONE
      /\ \A t \in Tokens : play[t].state = "none" /\ play[t].buyer = NONE
      /\ \A c \in Calls : history.older[c] = {}
      /\ disk = Nothing /\ DOMAIN Nothing = {} /\ Correlated = {}
  BY NothingIs DEF Init, Correlated
<1>3. SheetsAreSound
  BY <1>2 DEF SheetsAreSound, OneIsDue, CallbackIsOfSheet, SheetsAreAwaited, SheetIsClear,
     SnapshotsAreFresh, AnnouncementsAreTrue, LeftOver, Mid
<1>4. StoreIsTrue
  BY <1>2, NoneAssumption DEF StoreIsTrue, TokensAreIssued, MapsAreTrue, JournalIsBehind,
     ReportedAreKept, AnswersAreTrue, Reported, Issued
<1> QED
  BY <1>1, <1>3, <1>4 DEF PromptIInv

LEMMA PromptStep == PromptIInv /\ [Next]_vars => PromptIInv'
<1> SUFFICES ASSUME PromptIInv, [Next]_vars PROVE PromptIInv'
  OBVIOUS
<1>1. StoreIInv'
  BY WhatIsKnown, NextKeeps DEF Kept
<1>2. Prompt
  BY WhatIsKnown
<1> QED
  BY <1>1, <1>2, SheetsStaySound, StoreStaysTrue DEF PromptIInv

LEMMA PromptHolds == Prompt /\ Spec => []PromptIInv
  BY PromptInit, PromptStep, PTL DEF Spec

\* What the invariant says in the words of the properties.
LEMMA PromptImplies ==
  ASSUME PromptIInv
  PROVE  /\ OlderNeverConsumesNewer /\ ContextIsTrue /\ ResolvedContextSurvives
         /\ NothingOrphaned
<1>1. /\ MapsAreTrue /\ ReportedAreKept /\ AnswersAreTrue /\ JournalFits
      /\ Correlated \subseteq Tokens /\ DOMAIN disk \subseteq Tokens
      /\ \A c \in Calls : history.older[c] \subseteq Tokens
  BY WhatIsKnown, CorrelatedIs, CorrelationsAre DEF StoreIsTrue, TypeOK, StoreIInv
<1>2. OlderNeverConsumesNewer
  BY <1>1 DEF OlderNeverConsumesNewer, AnswersAreTrue
<1>3. ContextIsTrue
  BY <1>1 DEF ContextIsTrue, MapsAreTrue, Fits, AnswersAreTrue
<1>4. ResolvedContextSurvives
  BY <1>1 DEF ResolvedContextSurvives, ReportedAreKept, Reported, Keeps
<1>5. NothingOrphaned
  BY <1>1 DEF NothingOrphaned, MapsAreTrue, Fits, Gone, JournalFits
<1> QED
  BY <1>2, <1>3, <1>4, <1>5

\* No call is resolved with a transaction that is older than the call: neither a late
\* payment nor a purchase from elsewhere consumes the callback of a newer purchase.
THEOREM OlderIsNeverTaken == Prompt /\ Spec => []OlderNeverConsumesNewer
  BY PromptHolds, PromptImplies, PTL

\* The offer and attribution the app reports belong to the purchase they were given with.
THEOREM ContextHolds == Prompt /\ Spec => []ContextIsTrue
  BY PromptHolds, PromptImplies, PTL

\* A purchase that was reported as successful keeps its context, over failed writes,
\* queries and restarts, until the app finishes it or the journal becomes unreadable.
THEOREM ContextSurvives == Prompt /\ Spec => []ResolvedContextSurvives
  BY PromptHolds, PromptImplies, PTL

\* A transaction Play has finished is no longer in the journal.
THEOREM NoOrphans == Prompt /\ Spec => []NothingOrphaned
  BY PromptHolds, PromptImplies, PTL

\* No sheet opens for a product whose payment is pending.
THEOREM NoneIsPaidTwice == Prompt /\ Spec => NoSecondPayment
<1>1. PromptIInv /\ [Next]_vars =>
        [\A c \in Calls : call[c].at = "registered" /\ call'[c].at = "open" =>
           ~\E t \in Tokens : play[t].state = "pending" /\ call[c].product \in play[t].products]_vars
  <2> SUFFICES ASSUME PromptIInv, NEW c \in Calls, call[c].at = "registered"
               PROVE  Clear(call[c].product)
    BY DEF Clear
  <2> QED
    BY WhatIsKnown
       DEF SheetsAreSound, SheetsAreAwaited, SheetIsClear, CallbackIsOfSheet, LeftOver
<1> QED
  BY <1>1, PromptHolds, PTL DEF Spec, NoSecondPayment
=============================================================================
