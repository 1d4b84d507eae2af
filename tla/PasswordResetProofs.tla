------------------------ MODULE PasswordResetProofs ------------------------
(***************************************************************************)
(* Theorems about PasswordReset, for any number of overlapping requests.   *)
(***************************************************************************)
EXTENDS PasswordReset, TLAPS

USE CooldownAssumption, ResetBoundsAssumption

(***************************************************************************)
(* Types.                                                                  *)
(***************************************************************************)

\* The requests that are in a save(), with the row as they hold it.
SavingRequests ==
    [step : {"saving", "writing"}, kind : {"send", "guess", "reset", "update"},
     entity : Row, then : SUBSET Passwords,
     proof : Codes \cup Passwords, writes : SUBSET Columns]

\* What Saving builds is such a request.
LEMMA SavingType ==
    ASSUME NEW kind \in {"send", "guess", "reset", "update"}, NEW entity \in Row,
           NEW then \in SUBSET Passwords, NEW proof \in Codes \cup Passwords
    PROVE  Saving(kind, entity, then, proof) \in Requests
BY DEF Saving, Requests

\* A request in a save() has all the fields of one.
LEMMA SavingFields ==
    ASSUME NEW request \in Requests, request.step \in {"saving", "writing"}
    PROVE  request \in SavingRequests
BY DEF Requests, SavingRequests, Idle

\* A request that continues with a record of the right type keeps the type.
LEMMA ContinueType ==
    ASSUME PasswordTypeOK, NEW r \in Slots, NEW record \in Requests,
           Continue(r, record)
    PROVE  requests' \in [Slots -> Requests]
BY DEF PasswordTypeOK, Continue

\* An UPDATE of some columns leaves a row.
LEMMA OverwrittenType ==
    ASSUME user \in Row, NEW entity \in Row, NEW columns
    PROVE  Overwritten(entity, columns) \in Row
BY DEF Overwritten, Row

\* What follows a save() is again a request.
LEMMA AfterSaveType ==
    ASSUME NEW request \in SavingRequests
    PROVE  AfterSave(request) \in Requests
<1>1. CASE request.kind = "send"
    BY <1>1 DEF AfterSave, Requests, SavingRequests, Row
<1>2. CASE request.kind = "guess" /\ request.then # {}
    <2> DEFINE p == CHOOSE q \in request.then : TRUE
    <2>1. p \in Passwords
        BY <1>2 DEF SavingRequests
    <2>2. Hashed(p, 0) \in Stored
        BY <2>1 DEF Hashed, Stored
    <2>3. [request.entity EXCEPT !.password = Hashed(p, 0)] \in Row
        BY <2>2 DEF Row, SavingRequests
    <2> HIDE DEF p
    <2>4. Saving("reset", [request.entity EXCEPT !.password = Hashed(p, 0)], {},
                 request.proof) \in Requests
        BY <2>3, SavingType DEF SavingRequests
    <2> USE DEF p
    <2> QED BY <1>2, <2>4 DEF AfterSave
<1>3. CASE request.kind # "send" /\ ~(request.kind = "guess" /\ request.then # {})
    BY <1>3 DEF AfterSave, Requests
<1> QED BY <1>1, <1>2, <1>3

\* The row, every entity in memory, and the clock keep their types under every
\* step of every handler.
THEOREM PasswordTypeCorrect == Spec => []PasswordTypeOK
<1>1. Init => PasswordTypeOK
    <2> SUFFICES ASSUME Init PROVE PasswordTypeOK
        OBVIOUS
    <2>1. user \in Row
        BY DEF Init, Row, Stored, Hashed, Codes, NoCode, Times, Never
    <2> QED BY <2>1 DEF Init, PasswordTypeOK, Requests, Idle, Codes, NoCode, Times, MaxGuesses
<1>2. PasswordTypeOK /\ [Next]_vars => PasswordTypeOK'
    <2> SUFFICES ASSUME PasswordTypeOK, [Next]_vars PROVE PasswordTypeOK'
        OBVIOUS
    <2>0. /\ user \in Row /\ issued \in Codes /\ mailed \in Codes
          /\ now \in Times /\ guesses \in 0..MaxGuesses
          /\ requests \in [Slots -> Requests]
        BY DEF PasswordTypeOK
    <2>1. ASSUME NEW r \in Slots, SendResetPasswordCode(r) PROVE PasswordTypeOK'
        <3> DEFINE e == [user EXCEPT !.code = issued + 1, !.sentAt = now, !.verifiedAt = Never]
        <3>1. issued + 1 \in Codes
            BY <2>0, <2>1 DEF SendResetPasswordCode, Codes
        <3>2. e \in Row
            BY <2>0, <3>1 DEF Row, Times
        <3>3. NoCode \in Codes
            BY DEF NoCode, Codes
        <3> HIDE DEF e
        <3>4. Saving("send", e, {}, NoCode) \in Requests
            BY <3>2, <3>3, SavingType
        <3>5. Continue(r, Saving("send", e, {}, NoCode))
            BY <2>1 DEF SendResetPasswordCode, e
        <3> QED BY <2>0, <2>1, <3>1, <3>4, <3>5, ContinueType
                DEF SendResetPasswordCode, PasswordTypeOK
    <2>2. ASSUME NEW r \in Slots, ChangeForgottenPassword(r) PROVE PasswordTypeOK'
        <3> DEFINE e == [user EXCEPT !.verifiedAt = now]
        <3>1. e \in Row
            BY <2>0 DEF Row
        <3> HIDE DEF e
        <3>2. PICK guess \in 0..issued, then \in SUBSET Passwords :
                Continue(r, Saving("guess", e, then, guess))
            BY <2>2 DEF ChangeForgottenPassword, e
        <3>3. guess \in Codes
            BY <2>0 DEF Codes
        <3>4. Saving("guess", e, then, guess) \in Requests
            BY <3>1, <3>3, SavingType
        <3> QED BY <2>0, <2>2, <3>2, <3>4, ContinueType
                DEF ChangeForgottenPassword, PasswordTypeOK
    <2>3. ASSUME NEW r \in Slots, Update(r) PROVE PasswordTypeOK'
        <3>1. PICK e \in Row, proof \in Codes \cup Passwords :
                Continue(r, Saving("update", e, {}, proof))
            <4>1. CASE Continue(r, Saving("update", user, {}, NoCode))
                BY <2>0, <4>1 DEF NoCode, Codes
            <4>2. ASSUME NEW old \in Passwords, NEW new \in Passwords,
                         Continue(r, Saving("update",
                            [user EXCEPT !.password = Hashed(new, 0)], {}, old))
                  PROVE  \E e \in Row, proof \in Codes \cup Passwords :
                            Continue(r, Saving("update", e, {}, proof))
                <5>1. [user EXCEPT !.password = Hashed(new, 0)] \in Row
                    BY <2>0 DEF Row, Hashed, Stored
                <5> QED BY <4>2, <5>1
            <4> QED BY <2>3, <4>1, <4>2 DEF Update
        <3>2. Saving("update", e, {}, proof) \in Requests
            BY SavingType
        <3> QED BY <2>0, <2>3, <3>1, <3>2, ContinueType DEF Update, PasswordTypeOK
    <2>4. ASSUME NEW r \in Slots, Compare(r) PROVE PasswordTypeOK'
        <3> DEFINE e == BeforeUpdate(requests[r].entity, user)
                   w == {column \in Columns : e[column] # user[column]}
                   request == [requests[r] EXCEPT !.step = "writing", !.entity = e, !.writes = w]
        <3>1. requests[r] \in SavingRequests
            BY <2>0, <2>4, SavingFields DEF Compare, StepOf
        <3>2. e \in Row
            BY <2>0, <2>4, <3>1 DEF Compare, BeforeUpdate, SavingRequests, Row, Stored
        <3>3. w \in SUBSET Columns
            OBVIOUS
        <3>4. Continue(r, request)
            BY <2>4 DEF Compare
        <3> HIDE DEF e, w
        <3>5. request \in Requests
            BY <3>1, <3>2, <3>3 DEF SavingRequests, Requests
        <3> QED BY <2>0, <2>4, <3>4, <3>5, ContinueType DEF Compare, PasswordTypeOK
    <2>5. ASSUME NEW r \in Slots, Write(r) PROVE PasswordTypeOK'
        <3>1. requests[r] \in SavingRequests
            BY <2>0, <2>5, SavingFields DEF Write, StepOf
        <3>2. user' \in Row
            BY <2>0, <2>5, <3>1, OverwrittenType DEF Write, SavingRequests
        <3>3. requests' \in [Slots -> Requests]
            BY <2>5, <3>1, AfterSaveType, ContinueType DEF Write
        <3>4. guesses' \in 0..MaxGuesses
            BY <2>0, <2>5 DEF Write, MaxGuesses
        <3> QED BY <2>0, <2>5, <3>2, <3>3, <3>4 DEF Write, PasswordTypeOK
    <2>6. ASSUME NEW r \in Slots, Mail(r) PROVE PasswordTypeOK'
        <3>1. requests[r].code \in Codes
            BY <2>0, <2>6 DEF Mail, StepOf, Requests, Idle
        <3>2. requests' \in [Slots -> Requests]
            BY <2>6, ContinueType DEF Mail, Requests
        <3> QED BY <2>0, <2>6, <3>1, <3>2 DEF Mail, PasswordTypeOK
    <2>7. ASSUME NEW r \in Slots, Fail(r) PROVE PasswordTypeOK'
        <3>1. requests' \in [Slots -> Requests]
            BY <2>7, ContinueType DEF Fail, Requests
        <3> QED BY <2>0, <2>7, <3>1 DEF Fail, PasswordTypeOK
    <2>8. CASE TimePasses
        BY <2>0, <2>8 DEF TimePasses, PasswordTypeOK, Times
    <2>9. CASE UNCHANGED vars
        BY <2>0, <2>9 DEF vars, PasswordTypeOK
    <2> QED BY <2>1, <2>2, <2>3, <2>4, <2>5, <2>6, <2>7, <2>8, <2>9 DEF Next
<1> QED BY <1>1, <1>2, PTL DEF Spec

(***************************************************************************)
(* Whatever overlaps.                                                      *)
(***************************************************************************)

\* What is about to be written has been hashed.
HashedBeforeWriting ==
    \A r \in Slots : StepOf(r) = "writing" => requests[r].entity.password.hashes > 0

\* No interleaving of saves stores a password in plain text.
THEOREM PasswordNeverInPlainText == Spec => []NeverPlainText
<1> DEFINE IInv == NeverPlainText /\ HashedBeforeWriting
<1>1. Init => IInv
    BY DEF Init, NeverPlainText, HashedBeforeWriting, Hashed, StepOf, Idle
<1>2. PasswordTypeOK /\ IInv /\ [Next]_vars => IInv'
    <2> SUFFICES ASSUME PasswordTypeOK, NeverPlainText, HashedBeforeWriting, [Next]_vars
                 PROVE  IInv'
        OBVIOUS
    <2>0. user \in Row /\ requests \in [Slots -> Requests]
        BY DEF PasswordTypeOK
    <2>1. ASSUME NEW r \in Slots,
                 \/ SendResetPasswordCode(r) \/ ChangeForgottenPassword(r) \/ Update(r)
                 \/ Mail(r) \/ Fail(r)
          PROVE  IInv'
        <3>1. /\ requests'[r].step # "writing"
              /\ \A s \in Slots \ {r} : requests'[s] = requests[s]
            BY <2>0, <2>1 DEF SendResetPasswordCode, ChangeForgottenPassword, Update, Mail, Fail,
                              Continue, Saving, Idle
        <3>2. UNCHANGED user
            BY <2>1 DEF SendResetPasswordCode, ChangeForgottenPassword, Update, Mail, Fail
        <3> QED BY <3>1, <3>2 DEF NeverPlainText, HashedBeforeWriting, StepOf
    <2>2. ASSUME NEW r \in Slots, Compare(r) PROVE IInv'
        <3> DEFINE e == BeforeUpdate(requests[r].entity, user)
                   w == {column \in Columns : e[column] # user[column]}
        <3>1. requests[r] \in SavingRequests
            BY <2>0, <2>2, SavingFields DEF Compare, StepOf
        <3>2. e.password.hashes > 0
            BY <2>0, <3>1 DEF BeforeUpdate, SavingRequests, Row, Stored, NeverPlainText
        <3>3. /\ Continue(r, [requests[r] EXCEPT !.step = "writing", !.entity = e, !.writes = w])
              /\ UNCHANGED user
            BY <2>2 DEF Compare
        <3> HIDE DEF e, w
        <3>4. requests'[r].entity = e
            BY <2>0, <3>1, <3>3 DEF Continue, SavingRequests
        <3> QED BY <2>0, <3>2, <3>3, <3>4
                DEF Continue, NeverPlainText, HashedBeforeWriting, StepOf
    <2>3. ASSUME NEW r \in Slots, Write(r) PROVE IInv'
        <3>1. requests[r] \in SavingRequests
            BY <2>0, <2>3, SavingFields DEF Write, StepOf
        <3>2. NeverPlainText'
            BY <2>3 DEF Write, Overwritten, NeverPlainText, HashedBeforeWriting
        <3>3. Continue(r, AfterSave(requests[r]))
            BY <2>3 DEF Write
        <3>4. AfterSave(requests[r]).step # "writing"
            BY DEF AfterSave, Saving, Idle
        <3> QED BY <2>0, <3>2, <3>3, <3>4 DEF Continue, HashedBeforeWriting, StepOf
    <2>4. CASE UNCHANGED <<user, requests>>
        BY <2>4 DEF NeverPlainText, HashedBeforeWriting, StepOf
    <2> QED BY <2>1, <2>2, <2>3, <2>4 DEF Next, TimePasses, vars
<1>3. IInv => NeverPlainText
    OBVIOUS
<1> QED BY <1>1, <1>2, <1>3, PasswordTypeCorrect, PTL DEF Spec

(***************************************************************************)
(* One request at a time.                                                  *)
(***************************************************************************)

\* No two requests overlap.
OneRequest == \A r, s \in Slots : r = s

\* What the row keeps between requests.
UserInv ==
    /\ user.password.hashes = 1
    /\ user.sentAt <= now
    /\ user.sentAt # Never /\ user.verifiedAt = Never => guesses = 0
    /\ user.sentAt # Never /\ user.verifiedAt # Never =>
        (guesses - 1) * GuessCooldown <= user.verifiedAt - user.sentAt
    /\ user.verifiedAt <= now

\* How an entity in a save() differs from the row it was loaded from.
KeepsCode(q) ==
    q.kind # "send" => q.entity.code = user.code /\ q.entity.sentAt = user.sentAt
KeepsVerification(q) ==
    q.kind \in {"reset", "update"} => q.entity.verifiedAt = user.verifiedAt
RestartsCode(q) ==
    q.kind = "send" => q.entity.verifiedAt = Never /\ q.entity.sentAt <= now
RecordsGuess(q) ==
    q.kind = "guess" =>
        /\ q.entity.verifiedAt \in Times
        /\ q.entity.verifiedAt <= now
        /\ user.sentAt <= q.entity.verifiedAt
        /\ user.verifiedAt # Never => q.entity.verifiedAt - user.verifiedAt >= GuessCooldown
        /\ q.then # {} => q.proof = user.code
IsEntitled(q) ==
    /\ q.kind = "reset" => q.proof = user.code
    /\ q.kind \in {"send", "guess"} => q.entity.password = user.password
    /\ q.entity.password # user.password /\ q.kind = "update" =>
        Matches(q.proof, user.password)
IsHashedOnce(q) ==
    /\ q.step = "saving" => q.entity.password = user.password \/ q.entity.password.hashes = 0
    /\ q.step = "writing" => q.entity.password.hashes = 1
WritesDifferences(q) ==
    q.step = "writing" => q.entity = Overwritten(q.entity, q.writes)

EntityInv(q) ==
    /\ KeepsCode(q) /\ KeepsVerification(q) /\ RestartsCode(q) /\ RecordsGuess(q)
    /\ IsEntitled(q) /\ IsHashedOnce(q) /\ WritesDifferences(q)

SerialInv ==
    /\ UserInv
    /\ \A r \in Slots : StepOf(r) \in {"saving", "writing"} => EntityInv(requests[r])

\* The only request is the one that takes the step.
LEMMA Alone ==
    ASSUME OneRequest, PasswordTypeOK, NEW r \in Slots, NEW record, Continue(r, record)
    PROVE  \A s \in Slots : s = r /\ requests'[s] = record
BY DEF OneRequest, PasswordTypeOK, Continue

\* A request that is not in a save() has nothing to keep.
LEMMA NothingInSave ==
    ASSUME OneRequest, PasswordTypeOK, NEW r \in Slots, NEW record, Continue(r, record),
           record.step \notin {"saving", "writing"}, UserInv'
    PROVE  SerialInv'
BY Alone DEF SerialInv, StepOf

\* Nothing in UserInv moves while the row stays and time passes.
LEMMA UserInvStable ==
    ASSUME PasswordTypeOK, UserInv, UNCHANGED <<user, guesses>>, now' \in {now, now + 1}
    PROVE  UserInv'
BY DEF PasswordTypeOK, UserInv, Row, Times, Never

\* One more guess, a cooldown after the last.
LEMMA OneMoreGuess ==
    ASSUME NEW g \in Int, NEW s \in Int, NEW v \in Int, NEW t \in Int,
           (g - 1) * GuessCooldown <= v - s, t - v >= GuessCooldown
    PROVE  g * GuessCooldown <= t - s
<1>1. g * GuessCooldown = (g - 1) * GuessCooldown + GuessCooldown
    BY CooldownAssumption
<1> DEFINE m == (g - 1) * GuessCooldown
<1>2. m \in Int /\ m <= v - s
    BY CooldownAssumption
<1>3. g * GuessCooldown = m + GuessCooldown
    BY <1>1
<1> HIDE DEF m
<1> QED BY <1>2, <1>3, CooldownAssumption

\* What bounds the guesses made bounds one less.
LEMMA NoMoreGuesses ==
    ASSUME NEW g \in Int, NEW n \in {g, g + 1}, NEW d \in Int, g * GuessCooldown <= d
    PROVE  (n - 1) * GuessCooldown <= d
<1>1. CASE n = g + 1
    BY <1>1
<1>2. CASE n = g
    <2> DEFINE m == (g - 1) * GuessCooldown
    <2>1. g * GuessCooldown = m + GuessCooldown /\ m \in Int
        BY CooldownAssumption
    <2> HIDE DEF m
    <2>2. m <= d
        BY <2>1, CooldownAssumption
    <2> QED BY <1>2, <2>2 DEF m
<1> QED BY <1>1, <1>2

\* SerialInv is inductive: one case per handler.
LEMMA SerialStep ==
    ASSUME OneRequest, PasswordTypeOK, SerialInv, [Next]_vars
    PROVE  SerialInv'
<1>0. /\ user \in Row /\ issued \in Codes /\ now \in Times /\ guesses \in 0..MaxGuesses
      /\ requests \in [Slots -> Requests]
      /\ UserInv
    BY DEF PasswordTypeOK, SerialInv
<1>1. ASSUME NEW r \in Slots, SendResetPasswordCode(r) PROVE SerialInv'
    <2> DEFINE e == [user EXCEPT !.code = issued + 1, !.sentAt = now, !.verifiedAt = Never]
    <2>1. /\ Continue(r, Saving("send", e, {}, NoCode))
          /\ UNCHANGED <<user, now, guesses>>
        BY <1>1 DEF SendResetPasswordCode
    <2>2. e.password = user.password /\ e.verifiedAt = Never /\ e.sentAt = now
        BY <1>0 DEF Row
    <2>3. UserInv'
        BY <1>0, <2>1, UserInvStable
    <2> HIDE DEF e
    <2>4. \A s \in Slots : requests'[s] = Saving("send", e, {}, NoCode)
        BY <2>1, Alone
    <2>5. ASSUME NEW s \in Slots PROVE EntityInv(requests[s])'
        BY <1>0, <2>1, <2>2, <2>4
           DEF EntityInv, KeepsCode, KeepsVerification, RestartsCode, RecordsGuess, IsEntitled,
               IsHashedOnce, WritesDifferences, Saving, Times
    <2> QED BY <2>3, <2>5 DEF SerialInv
<1>2. ASSUME NEW r \in Slots, ChangeForgottenPassword(r) PROVE SerialInv'
    <2> DEFINE e == [user EXCEPT !.verifiedAt = now]
    <2>1. PICK guess \in 0..issued, then \in SUBSET Passwords :
            /\ Continue(r, Saving("guess", e, then, guess))
            /\ then # {} => guess = user.code
        BY <1>2 DEF ChangeForgottenPassword
    <2>2. /\ UNCHANGED <<user, now, guesses>>
          /\ user.verifiedAt # Never => now - user.verifiedAt >= GuessCooldown
        BY <1>2 DEF ChangeForgottenPassword, HasPassed
    <2>3. /\ e.password = user.password /\ e.code = user.code /\ e.sentAt = user.sentAt
          /\ e.verifiedAt = now
        BY <1>0 DEF Row
    <2>4. UserInv'
        BY <1>0, <2>2, UserInvStable
    <2> HIDE DEF e
    <2>5. \A s \in Slots : requests'[s] = Saving("guess", e, then, guess)
        BY <2>1, Alone
    <2>6. ASSUME NEW s \in Slots PROVE EntityInv(requests[s])'
        BY <1>0, <2>1, <2>2, <2>3, <2>5
           DEF EntityInv, KeepsCode, KeepsVerification, RestartsCode, RecordsGuess, IsEntitled,
               IsHashedOnce, WritesDifferences, Saving, Times, UserInv
    <2> QED BY <2>4, <2>6 DEF SerialInv
<1>3. ASSUME NEW r \in Slots, Update(r) PROVE SerialInv'
    <2>1. PICK e \in Row, proof \in Codes \cup Passwords :
            /\ Continue(r, Saving("update", e, {}, proof))
            /\ e.code = user.code /\ e.sentAt = user.sentAt /\ e.verifiedAt = user.verifiedAt
            /\ \/ e.password = user.password
               \/ e.password.hashes = 0 /\ Matches(proof, user.password)
        <3>1. CASE Continue(r, Saving("update", user, {}, NoCode))
            BY <1>0, <3>1 DEF NoCode, Codes
        <3>2. ASSUME NEW old \in Passwords, NEW new \in Passwords, Matches(old, user.password),
                     Continue(r, Saving("update",
                        [user EXCEPT !.password = Hashed(new, 0)], {}, old))
              PROVE  \E e \in Row, proof \in Codes \cup Passwords :
                        /\ Continue(r, Saving("update", e, {}, proof))
                        /\ e.code = user.code /\ e.sentAt = user.sentAt
                        /\ e.verifiedAt = user.verifiedAt
                        /\ \/ e.password = user.password
                           \/ e.password.hashes = 0 /\ Matches(proof, user.password)
            <4> DEFINE e == [user EXCEPT !.password = Hashed(new, 0)]
            <4>1. /\ e \in Row
                  /\ e.code = user.code /\ e.sentAt = user.sentAt
                  /\ e.verifiedAt = user.verifiedAt /\ e.password.hashes = 0
                BY <1>0 DEF Row, Hashed, Stored
            <4> HIDE DEF e
            <4>2. Continue(r, Saving("update", e, {}, old))
                BY <3>2 DEF e
            <4> QED BY <3>2, <4>1, <4>2
        <3> QED BY <1>3, <3>1, <3>2 DEF Update
    <2>2. UNCHANGED <<user, now, guesses>>
        BY <1>3 DEF Update
    <2>3. UserInv'
        BY <1>0, <2>2, UserInvStable
    <2>4. \A s \in Slots : requests'[s] = Saving("update", e, {}, proof)
        BY <2>1, Alone
    <2>5. ASSUME NEW s \in Slots PROVE EntityInv(requests[s])'
        BY <2>1, <2>2, <2>4
           DEF EntityInv, KeepsCode, KeepsVerification, RestartsCode, RecordsGuess, IsEntitled,
               IsHashedOnce, WritesDifferences, Saving, Matches
    <2> QED BY <2>3, <2>5 DEF SerialInv
<1>4. ASSUME NEW r \in Slots, Compare(r) PROVE SerialInv'
    <2> DEFINE q == requests[r]
               e == BeforeUpdate(q.entity, user)
               w == {column \in Columns : e[column] # user[column]}
    <2>1. q \in SavingRequests /\ q.step = "saving" /\ EntityInv(q)
        BY <1>0, <1>4, SavingFields DEF Compare, StepOf, SerialInv
    <2>2. e \in Row
        BY <1>0, <1>4, <2>1 DEF Compare, BeforeUpdate, SavingRequests, Row, Stored
    <2>3. /\ e.code = q.entity.code /\ e.sentAt = q.entity.sentAt
          /\ e.verifiedAt = q.entity.verifiedAt
          /\ \/ q.entity.password = user.password /\ e.password = user.password
             \/ q.entity.password # user.password
          /\ e.password.hashes = 1
        BY <1>0, <2>1 DEF BeforeUpdate, SavingRequests, Row, Stored, EntityInv, IsHashedOnce,
                          UserInv
    <2>4. e = Overwritten(e, w)
        BY <1>0, <2>2 DEF Overwritten, Columns, Row
    <2>5. /\ Continue(r, [q EXCEPT !.step = "writing", !.entity = e, !.writes = w])
          /\ UNCHANGED <<user, now, guesses>>
        BY <1>4 DEF Compare
    <2>6. UserInv'
        BY <1>0, <2>5, UserInvStable
    <2> HIDE DEF e, w
    <2>7. \A s \in Slots : requests'[s] = [q EXCEPT !.step = "writing", !.entity = e, !.writes = w]
        BY <2>5, Alone
    <2>8. ASSUME NEW s \in Slots
          PROVE  /\ requests'[s].step = "writing" /\ requests'[s].kind = q.kind
                 /\ requests'[s].entity = e /\ requests'[s].writes = w
                 /\ requests'[s].then = q.then /\ requests'[s].proof = q.proof
        BY <2>1, <2>7 DEF SavingRequests
    <2> HIDE DEF q
    <2>9. ASSUME NEW s \in Slots PROVE EntityInv(requests[s])'
        <3>1. Overwritten(requests[s].entity, requests[s].writes)' = Overwritten(e, w)
            BY <2>5, <2>8 DEF Overwritten
        <3>2. WritesDifferences(requests[s])'
            BY <2>4, <2>8, <3>1 DEF WritesDifferences
        <3>3. (/\ KeepsCode(requests[s]) /\ KeepsVerification(requests[s])
               /\ RestartsCode(requests[s]) /\ RecordsGuess(requests[s]))'
            BY <2>1, <2>3, <2>5, <2>8
               DEF EntityInv, KeepsCode, KeepsVerification, RestartsCode, RecordsGuess
        <3>4. (IsEntitled(requests[s]) /\ IsHashedOnce(requests[s]))'
            BY <2>1, <2>3, <2>5, <2>8 DEF EntityInv, IsEntitled, IsHashedOnce, Matches
        <3> QED BY <3>2, <3>3, <3>4 DEF EntityInv
    <2> QED BY <2>6, <2>9 DEF SerialInv
<1>5. ASSUME NEW r \in Slots, Write(r) PROVE SerialInv'
    <2> DEFINE q == requests[r]
    <2>1. q \in SavingRequests /\ q.step = "writing" /\ EntityInv(q)
        BY <1>0, <1>5, SavingFields DEF Write, StepOf, SerialInv
    <2>2. user' = q.entity /\ now' = now
        BY <1>5, <2>1 DEF Write, EntityInv, WritesDifferences
    <2>3. UserInv'
        <3>1. CASE q.kind = "send"
            BY <1>0, <1>5, <2>1, <2>2, <3>1
               DEF Write, EntityInv, RestartsCode, IsHashedOnce, UserInv, SavingRequests, Row, Never,
                   Times
        <3>2. CASE q.kind = "guess"
            <4>1. /\ user'.password.hashes = 1 /\ user'.sentAt = user.sentAt
                  /\ user'.verifiedAt \in Times /\ user'.verifiedAt <= now
                  /\ user.sentAt <= user'.verifiedAt
                  /\ user.verifiedAt # Never => user'.verifiedAt - user.verifiedAt >= GuessCooldown
                BY <2>1, <2>2, <3>2 DEF EntityInv, KeepsCode, RecordsGuess, IsHashedOnce
            <4>2. guesses' \in Nat /\ guesses' \in {guesses, guesses + 1}
                BY <1>0, <1>5, <3>2 DEF Write, MaxGuesses
            <4>3. ASSUME user.sentAt # Never
                  PROVE  (guesses' - 1) * GuessCooldown <= user'.verifiedAt - user.sentAt
                <5>1. guesses * GuessCooldown <= user'.verifiedAt - user.sentAt
                    <6>1. CASE user.verifiedAt = Never
                        BY <1>0, <4>1, <4>3, <6>1 DEF UserInv, Row, Times
                    <6>2. CASE user.verifiedAt # Never
                        BY <1>0, <4>1, <4>3, <6>2, OneMoreGuess
                           DEF UserInv, Row, Times, MaxGuesses
                    <6> QED BY <6>1, <6>2
                <5> QED BY <1>0, <4>1, <4>2, <4>3, <5>1, NoMoreGuesses
                        DEF MaxGuesses, Row, Times
            <4>4. user'.verifiedAt # Never
                BY <4>1 DEF Times, Never
            <4> QED BY <1>0, <2>2, <4>1, <4>3, <4>4 DEF UserInv
        <3>3. CASE q.kind \in {"reset", "update"}
            <4>1. /\ user'.sentAt = user.sentAt /\ user'.verifiedAt = user.verifiedAt
                  /\ user'.password.hashes = 1 /\ guesses' = guesses
                BY <1>5, <2>1, <2>2, <3>3
                   DEF Write, EntityInv, KeepsCode, KeepsVerification, IsHashedOnce
            <4> QED BY <1>0, <2>2, <4>1 DEF UserInv
        <3> QED BY <2>1, <3>1, <3>2, <3>3 DEF SavingRequests
    <2>4. Continue(r, AfterSave(q))
        BY <1>5 DEF Write
    <2>5. CASE q.kind = "guess" /\ q.then # {}
        <3> DEFINE p == CHOOSE p \in q.then : TRUE
                   e == [q.entity EXCEPT !.password = Hashed(p, 0)]
        <3>1. /\ e.code = user'.code /\ e.sentAt = user'.sentAt
              /\ e.verifiedAt = user'.verifiedAt /\ e.password.hashes = 0
            BY <2>1, <2>2 DEF SavingRequests, Row, Hashed
        <3>2. q.proof = user'.code
            BY <2>1, <2>2, <2>5 DEF EntityInv, KeepsCode, RecordsGuess
        <3>3. AfterSave(q) = Saving("reset", e, {}, q.proof)
            BY <2>5 DEF AfterSave
        <3> HIDE DEF e
        <3>4. \A s \in Slots : requests'[s] = Saving("reset", e, {}, q.proof)
            BY <2>4, <3>3, Alone
        <3>5. ASSUME NEW s \in Slots PROVE EntityInv(requests[s])'
            BY <3>1, <3>2, <3>4
               DEF EntityInv, KeepsCode, KeepsVerification, RestartsCode, RecordsGuess, IsEntitled,
                   IsHashedOnce, WritesDifferences, Saving
        <3> QED BY <2>3, <3>5 DEF SerialInv
    <2>6. CASE ~(q.kind = "guess" /\ q.then # {})
        <3>1. AfterSave(q).step \notin {"saving", "writing"}
            BY <2>6 DEF AfterSave, Idle
        <3> QED BY <2>3, <2>4, <3>1, NothingInSave
    <2> QED BY <2>5, <2>6
<1>6. ASSUME NEW r \in Slots, Mail(r) \/ Fail(r) PROVE SerialInv'
    <2>1. Continue(r, Idle) /\ UNCHANGED <<user, now, guesses>>
        BY <1>6 DEF Mail, Fail
    <2>2. Idle.step \notin {"saving", "writing"}
        BY DEF Idle
    <2>3. UserInv'
        BY <1>0, <2>1, UserInvStable
    <2> QED BY <2>1, <2>2, <2>3, NothingInSave
<1>7. CASE TimePasses \/ UNCHANGED vars
    <2>1. UNCHANGED <<user, requests, guesses>> /\ now' \in {now, now + 1}
        BY <1>7 DEF TimePasses, vars
    <2>2. UserInv'
        BY <1>0, <2>1, UserInvStable
    <2>3. ASSUME NEW r \in Slots, EntityInv(requests[r]), requests[r] \in SavingRequests
          PROVE  EntityInv(requests[r])'
        BY <1>0, <2>1, <2>3
           DEF EntityInv, KeepsCode, KeepsVerification, RestartsCode, RecordsGuess, IsEntitled,
               IsHashedOnce, WritesDifferences, Overwritten, Matches, SavingRequests, Row, Times,
               Never
    <2> QED BY <1>0, <2>1, <2>2, <2>3, SavingFields DEF SerialInv, StepOf
<1> QED BY <1>1, <1>2, <1>3, <1>4, <1>5, <1>6, <1>7 DEF Next

\* What one request at a time keeps.
THEOREM SerialInvariant == ASSUME OneRequest PROVE Spec => []SerialInv
<1>1. Init => SerialInv
    <2> SUFFICES ASSUME Init PROVE SerialInv
        OBVIOUS
    <2>1. UserInv
        BY DEF Init, UserInv, Hashed, Never
    <2>2. \A r \in Slots : StepOf(r) = "idle"
        BY DEF Init, StepOf, Idle
    <2> QED BY <2>1, <2>2 DEF SerialInv
<1>2. PasswordTypeOK /\ SerialInv /\ [Next]_vars => SerialInv'
    BY SerialStep
<1> QED BY <1>1, <1>2, PasswordTypeCorrect, PTL DEF Spec

\* With one request at a time the stored password is the hash of one that the
\* user chose, after every reset and every failure between its two saves.
THEOREM PasswordStaysUsable == ASSUME OneRequest PROVE Spec => []PasswordIsUsable
<1>1. SerialInv => PasswordIsUsable
    BY DEF SerialInv, UserInv, PasswordIsUsable
<1> QED BY <1>1, SerialInvariant, PTL

\* With one request at a time there is at most one guess per cooldown since
\* the code was sent, however often codes are sent.
THEOREM GuessesAreLimited == ASSUME OneRequest PROVE Spec => []GuessesLimited
<1>1. PasswordTypeOK /\ SerialInv => GuessesLimited
    <2> SUFFICES ASSUME PasswordTypeOK, UserInv, user.sentAt # Never
                 PROVE  (guesses - 1) * GuessCooldown <= now - user.sentAt
        BY DEF SerialInv, GuessesLimited
    <2>0. user \in Row /\ now \in Times /\ guesses \in Int
        BY DEF PasswordTypeOK, MaxGuesses
    <2>1. CASE user.verifiedAt = Never
        BY <2>0, <2>1, CooldownAssumption DEF UserInv, Row, Times
    <2>2. CASE user.verifiedAt # Never
        <3> DEFINE m == (guesses - 1) * GuessCooldown
        <3>1. m \in Int /\ m <= user.verifiedAt - user.sentAt /\ user.verifiedAt <= now
            BY <2>0, <2>2, CooldownAssumption DEF UserInv
        <3> HIDE DEF m
        <3>2. m <= now - user.sentAt
            BY <2>0, <3>1 DEF Row, Times, Never
        <3> QED BY <3>2 DEF m
    <2> QED BY <2>1, <2>2
<1> QED BY <1>1, SerialInvariant, PasswordTypeCorrect, PTL

\* With one request at a time only a request that named the current password
\* or guessed the current code changes the password.
THEOREM ChangesAreEntitled == ASSUME OneRequest PROVE Spec => OnlyEntitledChanges
<1> DEFINE Entitled ==
        user'.password # user.password =>
            \E r \in Slots :
                /\ StepOf(r) = "writing"
                /\ \/ requests[r].kind = "update" /\ Matches(requests[r].proof, user.password)
                   \/ requests[r].kind = "reset" /\ requests[r].proof = user.code
<1>1. PasswordTypeOK /\ SerialInv /\ [Next]_vars => [Entitled]_vars
    <2> SUFFICES ASSUME PasswordTypeOK, SerialInv, Next, user'.password # user.password
                 PROVE  \E r \in Slots :
                            /\ StepOf(r) = "writing"
                            /\ \/ /\ requests[r].kind = "update"
                                  /\ Matches(requests[r].proof, user.password)
                               \/ requests[r].kind = "reset" /\ requests[r].proof = user.code
        OBVIOUS
    <2>1. PICK r \in Slots : Write(r)
        BY DEF Next, SendResetPasswordCode, ChangeForgottenPassword, Update, Compare, Mail, Fail,
               TimePasses
    <2>2. requests[r] \in SavingRequests /\ StepOf(r) = "writing" /\ EntityInv(requests[r])
        BY <2>1, SavingFields DEF Write, StepOf, SerialInv, PasswordTypeOK
    <2>3. user' = requests[r].entity
        BY <2>1, <2>2 DEF Write, EntityInv, WritesDifferences, StepOf
    <2> QED BY <2>2, <2>3 DEF EntityInv, IsEntitled, SavingRequests
<1> QED BY <1>1, SerialInvariant, PasswordTypeCorrect, PTL DEF Spec, OnlyEntitledChanges
=============================================================================
