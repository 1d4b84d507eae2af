-------------------------- MODULE NotificationsProofs --------------------------
(***************************************************************************)
(* Proofs about Notifications, for any list of handlers and any number of  *)
(* requests, rejections and crashes.                                       *)
(***************************************************************************)
EXTENDS Notifications, TLAPS

USE HandlersAssumption, MaxRequestsAssumption

Settled == {"PROCESSED", "FAILED"}

\* The handlers before the current one were called and fulfilled, and no later
\* one was called; the current one is refused exactly if the entity is FAILED.
Calls(n) ==
    /\ \A h \in HandlerIndex :
        /\ h <= handled[n] => <<n, h>> \in accepted /\ <<n, h>> \notin refused
        /\ h > handled[n] => (<<n, h>> \in accepted => <<n, h>> \in refused)
        /\ <<n, h>> \in refused => h = handled[n] + 1 /\ status[n] = "FAILED"
    /\ status[n] = "FAILED" =>
        handled[n] < Len(Handlers) /\ <<n, handled[n] + 1>> \in refused
    /\ status[n] = "PROCESSED" => handled[n] = Len(Handlers)

\* How far the entity in memory, the row and the answer have come.
Stage(n) ==
    /\ step[n] \in {"idle", "create"} =>
        status[n] = "CREATED" /\ handled[n] = 0 /\ row[n] = "NONE"
    /\ step[n] = "handle" =>
        status[n] = "PROCESSING" /\ handled[n] < Len(Handlers) /\ row[n] = "PROCESSING"
    /\ step[n] = "settle" => status[n] \in Settled /\ row[n] = "PROCESSING"
    /\ step[n] = "over" => status[n] \in Settled \/ n \in faults
    /\ row[n] \in Settled => row[n] = status[n]
    /\ answer[n] = 201 => row[n] = "PROCESSED"

\* The inductive invariant: the code is that of the last request that came.
NotificationInv ==
    /\ NotificationTypeOK
    /\ \A n \in Notifications : n <= code <=> step[n] # "idle"
    /\ \A n \in Notifications : Calls(n)
    /\ \A n \in Notifications : Stage(n)

LEMMA NotificationInvInit == Init => NotificationInv
  BY DEF Init, NotificationInv, NotificationTypeOK, Calls, Stage, Notifications,
         HandlerIndex, Settled

\* A step of one request leaves the others as they are.
LEMMA OthersAreKept ==
    ASSUME NEW m \in Notifications, Calls(m), Stage(m),
           row'[m] = row[m], status'[m] = status[m], step'[m] = step[m],
           handled'[m] = handled[m], answer'[m] = answer[m],
           \A h \in HandlerIndex : <<m, h>> \in accepted' <=> <<m, h>> \in accepted,
           \A h \in HandlerIndex : <<m, h>> \in refused' <=> <<m, h>> \in refused,
           m \in faults => m \in faults',
           handled[m] + 1 \in HandlerIndex \/ status[m] # "FAILED"
    PROVE  Calls(m)' /\ Stage(m)'
  BY DEF Calls, Stage, HandlerIndex

LEMMA NotificationInvStep == NotificationInv /\ [Next]_vars => NotificationInv'
  <1> SUFFICES ASSUME NotificationInv, [Next]_vars PROVE NotificationInv'
    OBVIOUS
  <1>0. /\ code \in 0..MaxRequests
        /\ row \in [Notifications -> {"NONE", "PROCESSING", "PROCESSED", "FAILED"}]
        /\ status \in [Notifications -> {"CREATED", "PROCESSING", "PROCESSED", "FAILED"}]
        /\ step \in [Notifications -> {"idle", "create", "handle", "settle", "over"}]
        /\ handled \in [Notifications -> 0..Len(Handlers)]
        /\ answer \in [Notifications -> {0, 201, 500}]
        /\ accepted \subseteq Notifications \X HandlerIndex
        /\ refused \subseteq Notifications \X HandlerIndex
        /\ faults \subseteq Notifications
    BY DEF NotificationInv, NotificationTypeOK
  <1>1. \A m \in Notifications :
          /\ Calls(m) /\ Stage(m)
          /\ m <= code <=> step[m] # "idle"
          /\ handled[m] + 1 \in HandlerIndex \/ status[m] # "FAILED"
    BY <1>0 DEF NotificationInv, Calls, HandlerIndex
  \* A step of request n, which has begun.
  <1>2. ASSUME NEW n \in Notifications, NotificationTypeOK', code' = code,
               step[n] # "idle", step'[n] # "idle",
               Calls(n)', Stage(n)',
               \A m \in Notifications \ {n} :
                   /\ row'[m] = row[m] /\ status'[m] = status[m] /\ step'[m] = step[m]
                   /\ handled'[m] = handled[m] /\ answer'[m] = answer[m]
                   /\ \A h \in HandlerIndex : <<m, h>> \in accepted' <=> <<m, h>> \in accepted
                   /\ \A h \in HandlerIndex : <<m, h>> \in refused' <=> <<m, h>> \in refused
                   /\ m \in faults => m \in faults'
        PROVE  NotificationInv'
    <2>1. \A m \in Notifications \ {n} : Calls(m)' /\ Stage(m)'
      BY <1>1, <1>2, OthersAreKept
    <2>2. \A m \in Notifications : m <= code' <=> step'[m] # "idle"
      BY <1>1, <1>2
    <2>3. QED
      BY <1>2, <2>1, <2>2 DEF NotificationInv
  <1>3. ASSUME NEW n \in Notifications, RequestCode(n) PROVE NotificationInv'
    <2>1. code' = n /\ step' = [step EXCEPT ![n] = "create"] /\ step[n] = "idle"
          /\ UNCHANGED <<row, status, handled, answer, accepted, refused, faults>>
      BY <1>3 DEF RequestCode, StoreCode, AfterStoring
    <2>2. NotificationTypeOK'
      BY <1>0, <2>1 DEF NotificationTypeOK, Notifications
    \* The requests before n are those that have come.
    <2>3. ASSUME NEW m \in Notifications PROVE m <= n <=> step'[m] # "idle"
      <3>1. m < n => step[m] # "idle"
        BY <1>3 DEF RequestCode, Notifications
      <3>2. m > n => step[m] = "idle"
        BY <1>0, <1>1, <2>1 DEF Notifications
      <3>3. QED
        BY <1>0, <2>1, <3>1, <3>2 DEF Notifications
    <2>4. Calls(n)' /\ Stage(n)'
      BY <1>0, <1>1, <2>1 DEF Calls, Stage, HandlerIndex
    <2>5. \A m \in Notifications \ {n} : Calls(m)' /\ Stage(m)'
      BY <1>0, <1>1, <2>1, OthersAreKept
    <2>6. QED
      BY <2>1, <2>2, <2>3, <2>4, <2>5 DEF NotificationInv
  <1>4. ASSUME NEW n \in Notifications, StartProcessing(n) PROVE NotificationInv'
    <2>1. NotificationTypeOK'
      BY <1>0, <1>4 DEF StartProcessing, NotificationTypeOK
    <2>2. /\ step[n] = "create" /\ status'[n] = "PROCESSING" /\ row'[n] = "PROCESSING"
          /\ step'[n] = "handle"
          /\ UNCHANGED <<code, handled, answer, accepted, refused, faults>>
      BY <1>0, <1>4 DEF StartProcessing
    <2>3. Calls(n)'
      BY <1>1, <2>2 DEF Calls, Stage
    <2>4. Stage(n)'
      BY <1>1, <2>2 DEF Stage, Settled
    <2>5. QED
      BY <1>0, <1>2, <1>4, <2>1, <2>2, <2>3, <2>4 DEF StartProcessing
  <1>5. ASSUME NEW n \in Notifications, StartIsRejected(n) PROVE NotificationInv'
    <2>1. NotificationTypeOK'
      BY <1>0, <1>5 DEF StartIsRejected, Answer, NotificationTypeOK
    <2>2. Calls(n)' /\ Stage(n)'
      BY <1>0, <1>1, <1>5 DEF StartIsRejected, Answer, Calls, Stage, HandlerIndex, Settled
    <2>3. QED
      BY <1>0, <1>2, <1>5, <2>1, <2>2 DEF StartIsRejected, Answer
  <1>6. ASSUME NEW n \in Notifications, Handle(n) PROVE NotificationInv'
    <2>1. /\ status[n] = "PROCESSING" /\ handled[n] < Len(Handlers)
          /\ row[n] = "PROCESSING" /\ step[n] = "handle"
      BY <1>1, <1>6 DEF Handle, Stage
    <2>2. /\ handled' = [handled EXCEPT ![n] = @ + 1]
          /\ handled'[n] = handled[n] + 1 /\ handled[n] + 1 \in HandlerIndex
          /\ accepted' = accepted \cup {<<n, handled[n] + 1>>}
          /\ UNCHANGED <<code, row, answer, refused, faults>>
          /\ \/ /\ handled'[n] = Len(Handlers)
                /\ status' = [status EXCEPT ![n] = "PROCESSED"]
                /\ step' = [step EXCEPT ![n] = "settle"]
             \/ handled'[n] # Len(Handlers) /\ UNCHANGED <<status, step>>
      BY <1>0, <1>6, <2>1 DEF Handle, AllHandled, HandlerIndex
    <2>3. NotificationTypeOK'
      <3>1. /\ handled' \in [Notifications -> 0..Len(Handlers)]
            /\ accepted' \subseteq Notifications \X HandlerIndex
        BY <1>0, <2>1, <2>2 DEF HandlerIndex
      <3>2. /\ status' \in [Notifications -> {"CREATED", "PROCESSING", "PROCESSED", "FAILED"}]
            /\ step' \in [Notifications -> {"idle", "create", "handle", "settle", "over"}]
        <4>1. CASE /\ status' = [status EXCEPT ![n] = "PROCESSED"]
                   /\ step' = [step EXCEPT ![n] = "settle"]
          BY <1>0, <4>1
        <4>2. CASE UNCHANGED <<status, step>>
          BY <1>0, <4>2
        <4>3. QED
          BY <2>2, <4>1, <4>2
      <3>3. QED
        BY <1>0, <2>2, <3>1, <3>2 DEF NotificationTypeOK
    <2>4. /\ \A h \in HandlerIndex :
               <<n, h>> \in accepted' <=> <<n, h>> \in accepted \/ h = handled'[n]
          /\ \/ handled'[n] = Len(Handlers) /\ status'[n] = "PROCESSED" /\ step'[n] = "settle"
             \/ /\ handled'[n] # Len(Handlers)
                /\ status'[n] = "PROCESSING" /\ step'[n] = "handle"
      BY <1>0, <2>1, <2>2
    <2>5. Calls(n)'
      <3>1. \A h \in HandlerIndex : h <= handled'[n] <=> h <= handled[n] \/ h = handled'[n]
        BY <1>0, <2>2 DEF HandlerIndex
      <3>2. \A h \in HandlerIndex : <<n, h>> \notin refused
        BY <1>1, <2>1 DEF Calls
      <3>3. \A h \in HandlerIndex :
              /\ h <= handled'[n] => <<n, h>> \in accepted'
              /\ h > handled'[n] => <<n, h>> \notin accepted'
        <4>1. ASSUME NEW h \in HandlerIndex
              PROVE  /\ h <= handled[n] => <<n, h>> \in accepted
                     /\ h > handled[n] => <<n, h>> \notin accepted
          BY <1>1, <3>2 DEF Calls
        <4>2. handled[n] \in Nat /\ handled'[n] = handled[n] + 1
          BY <1>0, <2>2
        <4>3. \A h \in HandlerIndex :
                h \in Nat /\ (h > handled'[n] => h > handled[n] /\ h # handled'[n])
          BY <4>2 DEF HandlerIndex
        <4>4. QED
          BY <2>4, <3>1, <4>1, <4>3
      <3>4. QED
        BY <2>2, <2>4, <3>2, <3>3 DEF Calls
    <2>6. Stage(n)'
      BY <1>0, <1>1, <2>1, <2>2, <2>4 DEF Stage, HandlerIndex, Settled
    <2>7. \A m \in Notifications \ {n} :
            /\ status'[m] = status[m] /\ step'[m] = step[m] /\ handled'[m] = handled[m]
            /\ \A h \in HandlerIndex : <<m, h>> \in accepted' <=> <<m, h>> \in accepted
      BY <1>0, <2>2
    <2>8. QED
      BY <1>2, <2>1, <2>2, <2>3, <2>4, <2>5, <2>6, <2>7
  <1>7. ASSUME NEW n \in Notifications, HandlerIsRejected(n) PROVE NotificationInv'
    <2>1. /\ status[n] = "PROCESSING" /\ handled[n] < Len(Handlers)
          /\ row[n] = "PROCESSING" /\ step[n] = "handle"
          /\ handled[n] + 1 \in HandlerIndex
      BY <1>0, <1>1, <1>7 DEF HandlerIsRejected, Stage, HandlerIndex
    <2>2. /\ accepted' \in {accepted, accepted \cup {<<n, handled[n] + 1>>}}
          /\ refused' = refused \cup {<<n, handled[n] + 1>>}
          /\ status' = [status EXCEPT ![n] = "FAILED"]
          /\ step' = [step EXCEPT ![n] = "settle"]
          /\ UNCHANGED <<code, row, handled, answer, faults>>
      BY <1>7 DEF HandlerIsRejected, AfterRejection
    <2>3. NotificationTypeOK'
      BY <1>0, <2>1, <2>2 DEF NotificationTypeOK
    <2>4. /\ status'[n] = "FAILED" /\ step'[n] = "settle"
          /\ \A h \in HandlerIndex :
               /\ <<n, h>> \in refused' <=> <<n, h>> \in refused \/ h = handled[n] + 1
               /\ <<n, h>> \in accepted => <<n, h>> \in accepted'
               /\ <<n, h>> \in accepted' => <<n, h>> \in accepted \/ h = handled[n] + 1
      BY <1>0, <2>2
    <2>5. Calls(n)'
      <3>1. \A h \in HandlerIndex : <<n, h>> \notin refused
        BY <1>1, <2>1 DEF Calls
      <3>2. \A h \in HandlerIndex : h <= handled[n] => h # handled[n] + 1
        BY <1>0 DEF HandlerIndex
      <3>3. QED
        BY <1>1, <2>1, <2>2, <2>4, <3>1, <3>2 DEF Calls
    <2>6. Stage(n)'
      BY <1>1, <2>1, <2>2, <2>4 DEF Stage, Settled
    <2>7. \A m \in Notifications \ {n} :
            /\ status'[m] = status[m] /\ step'[m] = step[m]
            /\ \A h \in HandlerIndex : <<m, h>> \in accepted' <=> <<m, h>> \in accepted
            /\ \A h \in HandlerIndex : <<m, h>> \in refused' <=> <<m, h>> \in refused
      BY <1>0, <2>2
    <2>8. QED
      BY <1>2, <2>1, <2>2, <2>3, <2>4, <2>5, <2>6, <2>7
  <1>8. ASSUME NEW n \in Notifications, Settle(n) PROVE NotificationInv'
    <2>1. NotificationTypeOK'
      BY <1>0, <1>1, <1>8 DEF Settle, Answer, HttpStatus, NotificationTypeOK, Stage, Settled
    <2>2. Calls(n)'
      BY <1>0, <1>1, <1>8 DEF Settle, Calls, HandlerIndex
    <2>3. Stage(n)'
      BY <1>0, <1>1, <1>8 DEF Settle, Answer, HttpStatus, Stage, Settled
    <2>4. QED
      BY <1>0, <1>2, <1>8, <2>1, <2>2, <2>3 DEF Settle, Answer
  <1>9. ASSUME NEW n \in Notifications, SettleIsRejected(n) PROVE NotificationInv'
    <2>1. NotificationTypeOK'
      BY <1>0, <1>9 DEF SettleIsRejected, Answer, NotificationTypeOK
    <2>2. Calls(n)' /\ Stage(n)'
      BY <1>0, <1>1, <1>9 DEF SettleIsRejected, Answer, Calls, Stage, HandlerIndex, Settled
    <2>3. QED
      BY <1>0, <1>2, <1>9, <2>1, <2>2 DEF SettleIsRejected, Answer
  <1>10. CASE Crash
    <2>1. NotificationTypeOK'
      BY <1>0, <1>10 DEF Crash, NotificationTypeOK
    <2>2. \A m \in Notifications : m <= code' <=> step'[m] # "idle"
      BY <1>0, <1>1, <1>10 DEF Crash, InFlight
    <2>3. ASSUME NEW m \in Notifications PROVE Calls(m)' /\ Stage(m)'
      BY <1>0, <1>1, <1>10 DEF Crash, InFlight, Calls, Stage, HandlerIndex, Settled
    <2>4. QED
      BY <2>1, <2>2, <2>3 DEF NotificationInv
  <1>11. CASE UNCHANGED vars
    BY <1>11 DEF vars, NotificationInv, NotificationTypeOK, Calls, Stage
  <1>12. QED
    BY <1>3, <1>4, <1>5, <1>6, <1>7, <1>8, <1>9, <1>10, <1>11 DEF Next, Proceed

\* How far handlers, row, entity and answer of a notification have come at
\* every await of the mediator: the inductive invariant of the theorems below.
THEOREM NotificationInvariant == Spec => []NotificationInv
  BY NotificationInvInit, NotificationInvStep, PTL DEF Spec

-----------------------------------------------------------------------------

\* However requests, handlers, rejections and crashes interleave, no handler
\* beyond the end of the list is called.
THEOREM NotificationsAreTyped == Spec => []NotificationTypeOK
  <1>1. NotificationInv => NotificationTypeOK
    BY DEF NotificationInv
  <1>2. QED
    BY <1>1, NotificationInvariant, PTL

\* The notification table tells the truth about the handlers, however many
\* there are and whichever of them is rejected.
THEOREM StatusesAreTrue == Spec => []StatusIsTrue
  <1>1. NotificationInv => StatusIsTrue
    <2> SUFFICES ASSUME NotificationInv, NEW n \in Notifications, row[n] \in Settled
                 PROVE  /\ row[n] = "PROCESSED" => \A h \in HandlerIndex :
                               <<n, h>> \in accepted /\ <<n, h>> \notin refused
                        /\ row[n] = "FAILED" => \E h \in HandlerIndex :
                             /\ <<n, h>> \in refused
                             /\ \A i \in 1..(h - 1) : <<n, i>> \in accepted \ refused
                             /\ \A i \in (h + 1)..Len(Handlers) :
                                    <<n, i>> \notin accepted \cup refused
      BY DEF StatusIsTrue, Settled
    <2>1. Calls(n) /\ row[n] = status[n] /\ handled[n] \in 0..Len(Handlers)
      BY DEF NotificationInv, NotificationTypeOK, Stage
    <2>2. CASE row[n] = "PROCESSED"
      BY <2>1, <2>2 DEF Calls, HandlerIndex
    <2>3. CASE row[n] = "FAILED"
      <3>1. PICK h \in HandlerIndex : h = handled[n] + 1 /\ <<n, h>> \in refused
        BY <2>1, <2>3 DEF Calls, HandlerIndex
      <3>2. \A i \in 1..(h - 1) : <<n, i>> \in accepted \ refused
        BY <2>1, <3>1 DEF Calls, HandlerIndex
      <3>3. \A i \in (h + 1)..Len(Handlers) : <<n, i>> \notin accepted \cup refused
        BY <2>1, <3>1 DEF Calls, HandlerIndex
      <3>4. QED
        BY <2>3, <3>1, <3>2, <3>3
    <2>4. QED
      BY <2>2, <2>3 DEF Settled
  <1>2. QED
    BY <1>1, NotificationInvariant, PTL

\* A client is told of success only if every handler has been accepted, the row
\* says so, and the code that was mailed has been stored.
THEOREM SuccessesAreTrue == Spec => []SuccessIsTrue
  <1>1. NotificationInv => SuccessIsTrue
    <2> SUFFICES ASSUME NotificationInv, NEW n \in Notifications, answer[n] = 201
                 PROVE  /\ row[n] = "PROCESSED"
                        /\ code >= n
                        /\ \A h \in HandlerIndex : <<n, h>> \in accepted
      BY DEF SuccessIsTrue
    <2>1. row[n] = "PROCESSED" /\ status[n] = "PROCESSED" /\ step[n] # "idle"
      BY DEF NotificationInv, Stage, Settled
    <2>2. n <= code /\ code \in Nat /\ n \in Nat
      BY <2>1 DEF NotificationInv, NotificationTypeOK, Notifications
    <2>3. \A h \in HandlerIndex : h <= handled[n]
      <3>1. handled[n] = Len(Handlers)
        BY <2>1 DEF NotificationInv, Calls
      <3>2. QED
        BY <3>1 DEF HandlerIndex
    <2>4. QED
      BY <2>1, <2>2, <2>3 DEF NotificationInv, Calls
  <1>2. QED
    BY <1>1, NotificationInvariant, PTL

\* A mail never overtakes the save() of the code in it.
THEOREM MailedCodesWereStored == Spec => []MailedCodeWasStored
  <1>1. NotificationInv => MailedCodeWasStored
    <2> SUFFICES ASSUME NotificationInv, NEW m \in accepted PROVE m[1] <= code
      BY DEF MailedCodeWasStored
    <2>1. PICK n \in Notifications, h \in HandlerIndex : m = <<n, h>>
      BY DEF NotificationInv, NotificationTypeOK
    <2>2. step[n] # "idle"
      <3>1. SUFFICES ASSUME step[n] = "idle" PROVE FALSE
        OBVIOUS
      <3>2. Calls(n) /\ status[n] = "CREATED" /\ handled[n] = 0
        BY <3>1 DEF NotificationInv, Stage
      <3>3. h > handled[n]
        BY <3>2 DEF HandlerIndex
      <3>4. QED
        BY <2>1, <3>2, <3>3 DEF Calls
    <2>3. QED
      BY <2>1, <2>2 DEF NotificationInv
  <1>2. QED
    BY <1>1, NotificationInvariant, PTL

\* The code that is stored has been given to the first handler, or is on its
\* way to it, unless a fault hit its request.
THEOREM StoredCodesAreOnTheirWay == Spec => []StoredCodeIsOnItsWay
  <1>1. NotificationInv => StoredCodeIsOnItsWay
    <2> SUFFICES ASSUME NotificationInv, code # 0, ~InFlight(code), code \notin faults
                 PROVE  <<code, 1>> \in accepted \cup refused
      BY DEF StoredCodeIsOnItsWay
    <2>1. code \in Notifications /\ step[code] = "over"
      BY DEF NotificationInv, NotificationTypeOK, InFlight, Notifications
    <2>2. status[code] \in Settled /\ Calls(code) /\ handled[code] \in 0..Len(Handlers)
      BY <2>1 DEF NotificationInv, NotificationTypeOK, Stage
    <2>3. QED
      BY <2>2 DEF Calls, HandlerIndex, Settled
  <1>2. QED
    BY <1>1, NotificationInvariant, PTL
=============================================================================
