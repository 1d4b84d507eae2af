----------------------------- MODULE Notifications -----------------------------
(***************************************************************************)
(* How a verification code reaches a user who has forgotten his password:  *)
(* sendResetPasswordCode (users.service.ts) stores the code and then asks  *)
(* NotificationMedium to send it.  The medium keeps a notification row,    *)
(* calls the handlers of the notification's type one after the other, and  *)
(* settles the row.                                                        *)
(*                                                                         *)
(* The n-th request for a code generates code n and notification n.  What  *)
(* comes before the code is stored (the cooldown, stale users) is in       *)
(* PasswordReset; since the handlers may take longer than the cooldown,    *)
(* requests of one user do overlap here.                                   *)
(*                                                                         *)
(* The faults: a save() may be rejected; a handler may be rejected, before *)
(* or after the provider has accepted the mail; the process may crash at   *)
(* any time, and a new one takes requests at once.                         *)
(***************************************************************************)
EXTENDS Naturals, Sequences

CONSTANTS
    Handlers,       \* the handlers of resetPasswordConfirmationLink, in order
    MaxRequests     \* bound: requests for a code

ASSUME HandlersAssumption == Len(Handlers) \in Nat \ {0}
ASSUME MaxRequestsAssumption == MaxRequests \in Nat

VARIABLES
    code,       \* the user's verification code as stored, 0 for NULL
    row,        \* notification.status as stored, "NONE" where there is no row
    status,     \* the status of the entity the request holds in memory
    step,       \* what the request is about to do
    handled,    \* how many handlers have been awaited without an error
    answer,     \* what the client got: 0 nothing yet, 201, or 500 for any error
    accepted,   \* the <<notification, handler>> a provider has accepted
    refused,    \* the <<notification, handler>> whose promise was rejected
    faults      \* history: the requests hit by a crash or a rejected save()

vars == <<code, row, status, step, handled, answer, accepted, refused, faults>>

Notifications == 1..MaxRequests
HandlerIndex == 1..Len(Handlers)

InFlight(n) == step[n] \in {"create", "handle", "settle"}

NotificationTypeOK ==
    /\ code \in 0..MaxRequests
    /\ row \in [Notifications -> {"NONE", "PROCESSING", "PROCESSED", "FAILED"}]
    /\ status \in [Notifications -> {"CREATED", "PROCESSING", "PROCESSED", "FAILED"}]
    /\ step \in [Notifications -> {"idle", "create", "handle", "settle", "over"}]
    /\ handled \in [Notifications -> 0..Len(Handlers)]
    /\ answer \in [Notifications -> {0, 201, 500}]
    /\ accepted \subseteq Notifications \X HandlerIndex
    /\ refused \subseteq Notifications \X HandlerIndex
    /\ faults \subseteq Notifications

Init ==
    /\ code = 0
    /\ row = [n \in Notifications |-> "NONE"]
    /\ status = [n \in Notifications |-> "CREATED"]
    /\ step = [n \in Notifications |-> "idle"]
    /\ handled = [n \in Notifications |-> 0]
    /\ answer = [n \in Notifications |-> 0]
    /\ accepted = {}
    /\ refused = {}
    /\ faults = {}

-----------------------------------------------------------------------------

\* The request ends with this HTTP status.
Answer(n, http) ==
    /\ step' = [step EXCEPT ![n] = "over"]
    /\ answer' = [answer EXCEPT ![n] = http]

\* Mutant (MailedCodeWasStored): the user is saved after the notification.
StoreNothingYet(n) == UNCHANGED code

StoreCode(n) == code' = n

\* Mutant (StoredCodeIsOnItsWay): requests are throttled after the save().
AfterStoringUnlessBusy(n) ==
    IF \E m \in Notifications : InFlight(m) THEN "over" ELSE "create"

AfterStoring(n) == "create"

\* POST /users/forgot-password: the code is generated and stored.  (A request
\* whose code cannot be stored changes nothing.)
RequestCode(n) ==
    /\ step[n] = "idle"
    /\ \A m \in 1..(n - 1) : step[m] # "idle"
    /\ StoreCode(n)
    /\ step' = [step EXCEPT ![n] = AfterStoring(n)]
    /\ UNCHANGED <<row, status, handled, answer, accepted, refused, faults>>

\* createNotification, startProcessing, and the first save().
StartProcessing(n) ==
    /\ step[n] = "create"
    /\ status' = [status EXCEPT ![n] = "PROCESSING"]
    /\ row' = [row EXCEPT ![n] = "PROCESSING"]
    /\ step' = [step EXCEPT ![n] = "handle"]
    /\ UNCHANGED <<code, handled, answer, accepted, refused, faults>>

\* That save() is rejected; it is outside of the try.
StartIsRejected(n) ==
    /\ step[n] = "create"
    /\ Answer(n, 500)
    /\ faults' = faults \cup {n}
    /\ UNCHANGED <<code, row, status, handled, accepted, refused>>

\* Mutant (NotificationTypeOK): one more handler than there are.
AllHandledLate(n) == handled[n] = Len(Handlers)

\* Mutant (StatusIsTrue): the handlers are not awaited one after the other.
AllHandledAtOnce(n) == TRUE

\* The loop is over once the handler that has just finished is the last one.
AllHandled(n) == handled[n] + 1 = Len(Handlers)

\* await handler.handle(...) resolves: the provider has accepted the mail.
Handle(n) ==
    /\ step[n] = "handle"
    /\ accepted' = accepted \cup {<<n, handled[n] + 1>>}
    /\ handled' = [handled EXCEPT ![n] = @ + 1]
    /\ IF AllHandled(n)
       THEN /\ status' = [status EXCEPT ![n] = "PROCESSED"]
            /\ step' = [step EXCEPT ![n] = "settle"]
       ELSE UNCHANGED <<status, step>>
    /\ UNCHANGED <<code, row, answer, refused, faults>>

\* Mutant (NotificationsSettle): only the success is saved, not in a finally.
AfterRejectionGiveUp(n) == Answer(n, 500)

\* finally
AfterRejection(n) ==
    /\ step' = [step EXCEPT ![n] = "settle"]
    /\ UNCHANGED answer

\* It is rejected: the provider refused the mail, or its answer was lost.
HandlerIsRejected(n) ==
    /\ step[n] = "handle"
    /\ \/ UNCHANGED accepted
       \/ accepted' = accepted \cup {<<n, handled[n] + 1>>}
    /\ refused' = refused \cup {<<n, handled[n] + 1>>}
    /\ status' = [status EXCEPT ![n] = "FAILED"]
    /\ AfterRejection(n)
    /\ UNCHANGED <<code, row, handled, faults>>

\* Mutant (SuccessIsTrue): the catch block does not throw the error again.
HttpStatusSwallowed(n) == 201

HttpStatus(n) == IF status[n] = "FAILED" THEN 500 ELSE 201

\* The save() in the finally block, and the answer.
Settle(n) ==
    /\ step[n] = "settle"
    /\ row' = [row EXCEPT ![n] = status[n]]
    /\ Answer(n, HttpStatus(n))
    /\ UNCHANGED <<code, status, handled, accepted, refused, faults>>

SettleIsRejected(n) ==
    /\ step[n] = "settle"
    /\ Answer(n, 500)
    /\ faults' = faults \cup {n}
    /\ UNCHANGED <<code, row, status, handled, accepted, refused>>

\* The process dies with all its requests.  Nothing looks for their rows when
\* it starts again.
Crash ==
    /\ \E n \in Notifications : InFlight(n)
    /\ step' = [n \in Notifications |-> IF InFlight(n) THEN "over" ELSE step[n]]
    /\ faults' = faults \cup {n \in Notifications : InFlight(n)}
    /\ UNCHANGED <<code, row, status, handled, answer, accepted, refused>>

\* A request that has been accepted goes on by itself.
Proceed(n) ==
    \/ StartProcessing(n) \/ StartIsRejected(n)
    \/ Handle(n) \/ HandlerIsRejected(n)
    \/ Settle(n) \/ SettleIsRejected(n)

Next ==
    \/ \E n \in Notifications : RequestCode(n) \/ Proceed(n)
    \/ Crash

\* The event loop runs every request whose promise has settled, and every
\* promise settles: the clients of the database and of the mail provider
\* resolve or reject.  Clients need not send requests.
Fairness == \A n \in Notifications : WF_vars(Proceed(n))

Spec == Init /\ [][Next]_vars /\ Fairness

-----------------------------------------------------------------------------
(* Safety. *)

\* What the notification table says about the handlers is true: PROCESSED rows
\* have been accepted by all of them, FAILED rows were rejected by one, and
\* the handlers before it, but none after it, have been called.
StatusIsTrue ==
    \A n \in Notifications :
        /\ row[n] = "PROCESSED" => \A h \in HandlerIndex :
                <<n, h>> \in accepted /\ <<n, h>> \notin refused
        /\ row[n] = "FAILED" => \E h \in HandlerIndex :
            /\ <<n, h>> \in refused
            /\ \A i \in 1..(h - 1) : <<n, i>> \in accepted \ refused
            /\ \A i \in (h + 1)..Len(Handlers) : <<n, i>> \notin accepted \cup refused

\* A client that is told of success has a mail on its way, with a code that
\* was stored, and a PROCESSED notification.
SuccessIsTrue ==
    \A n \in Notifications : answer[n] = 201 =>
        /\ row[n] = "PROCESSED"
        /\ code >= n
        /\ \A h \in HandlerIndex : <<n, h>> \in accepted

\* No code is mailed before it is stored: whoever reads the mail at once can
\* use the code, unless a later request has replaced it.
MailedCodeWasStored == \A m \in accepted : m[1] <= code

\* The old code is void as soon as the new one is stored.  Only a handler's
\* rejection or a fault leaves the user with a code that nobody mailed him.
StoredCodeIsOnItsWay ==
    code # 0 =>
        \/ <<code, 1>> \in accepted \cup refused
        \/ InFlight(code)
        \/ code \in faults

(* Liveness. *)

\* Every notification that is being processed is settled, whatever its
\* handlers do; only a crash or a rejected save() can leave it PROCESSING, and
\* then for good.
NotificationsSettle ==
    \A n \in Notifications :
        row[n] = "PROCESSING" ~> (row[n] \in {"PROCESSED", "FAILED"} \/ n \in faults)
=============================================================================
