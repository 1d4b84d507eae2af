---------------------------- MODULE PasswordReset ----------------------------
(***************************************************************************)
(* The password of one user, and the verification code with which it can   *)
(* be changed when it is forgotten (users.service.ts, user.entity.ts).     *)
(*                                                                         *)
(* A request loads the user's row into an entity, checks and changes the   *)
(* entity without awaiting anything that depends on the row, and calls     *)
(* save().  save() SELECTs the row again, lets UserSubscriber hash the     *)
(* password if it differs from the row's, and UPDATEs every column that    *)
(* differs, whether or not the request meant to change it.  Users share no *)
(* rows, so one user is enough.                                            *)
(***************************************************************************)
EXTENDS Integers

CONSTANTS
    Slots,          \* bound: the requests that may be in flight together
    Passwords,      \* what the user may choose
    CodeCooldown,   \* ONE_MINUTE_IN_S
    GuessCooldown,  \* TEN_SECONDS_IN_S
    MaxCodes,       \* bound: verification codes generated
    MaxHashes,      \* bound: how often one password is hashed
    MaxTime         \* bound: last value of the clock

ASSUME CooldownAssumption ==
    CodeCooldown \in Nat \ {0} /\ GuessCooldown \in Nat \ {0}
ASSUME ResetBoundsAssumption ==
    MaxCodes \in Nat /\ MaxHashes \in Nat \ {0} /\ MaxTime \in Nat

VARIABLES
    user,       \* the row: password, code, sentAt, verifiedAt
    requests,   \* what each slot's handler holds in memory
    issued,     \* the codes generated so far are 1..issued
    mailed,     \* the last code that was handed to the mailer, 0 before
    now,        \* the clock of the process
    guesses     \* history: guesses recorded since the last code was sent

vars == <<user, requests, issued, mailed, now, guesses>>

\* The k-fold hash of a password: in plain text for k = 0.  The salt is left
\* out: two hashes of one password are equal.
Hashed(p, k) == [plain |-> p, hashes |-> k]
Stored == [plain : Passwords, hashes : 0..MaxHashes]

\* A code nobody generated stands for every wrong guess and for NULL.
NoCode == 0
Codes == 0..MaxCodes
Never == -1
Times == 0..MaxTime

Columns == {"password", "code", "sentAt", "verifiedAt"}
Row == [password : Stored, code : Codes,
        sentAt : Times \cup {Never}, verifiedAt : Times \cup {Never}]

\* Bound: no more guesses are counted, since GuessesLimited fails by then.
MaxGuesses == MaxTime + 2

Idle == [step |-> "idle"]

\* entity: the row as the handler has it; then: the password that is set
\* once a valid guess has been recorded; proof: what entitles the request.
Saving(kind, entity, then, proof) ==
    [step |-> "saving", kind |-> kind, entity |-> entity, then |-> then,
     proof |-> proof, writes |-> {}]

Requests ==
    {Idle} \cup
    [step : {"saving", "writing"}, kind : {"send", "guess", "reset", "update"},
     entity : Row, then : SUBSET Passwords,
     proof : Codes \cup Passwords, writes : SUBSET Columns]
    \cup [step : {"mailing"}, code : Codes]

PasswordTypeOK ==
    /\ user \in Row
    /\ requests \in [Slots -> Requests]
    /\ issued \in Codes
    /\ mailed \in Codes
    /\ now \in Times
    /\ guesses \in 0..MaxGuesses

Init ==
    /\ \E p \in Passwords :
        user = [password |-> Hashed(p, 1), code |-> NoCode,
                sentAt |-> Never, verifiedAt |-> Never]
    /\ requests = [r \in Slots |-> Idle]
    /\ issued = 0
    /\ mailed = NoCode
    /\ now = 0
    /\ guesses = 0

StepOf(r) == requests[r].step

Continue(r, record) == requests' = [requests EXCEPT ![r] = record]

\* Mutant (GuessesLimited): off by one.
HasPassedEarly(date, cooldown) == date = Never \/ now - date >= cooldown - 1

\* DateUtils.checkIfTimePassed, for a date that may be null.
HasPassed(date, cooldown) == date = Never \/ now - date >= cooldown

\* bcrypt.compare
Matches(p, stored) == stored = Hashed(p, 1)

-----------------------------------------------------------------------------
(* The handlers, up to their save(). *)

\* Mutant (PasswordTypeOK): the end of the cooldown is stored.
SendResetPasswordCodeUntil(r) ==
    /\ StepOf(r) = "idle"
    /\ issued < MaxCodes
    /\ HasPassed(user.sentAt, CodeCooldown)
    /\ issued' = issued + 1
    /\ Continue(r, Saving("send",
            [user EXCEPT !.code = issued + 1, !.sentAt = now + CodeCooldown,
                         !.verifiedAt = Never],
            {}, NoCode))
    /\ UNCHANGED <<user, mailed, now, guesses>>

\* POST /users/forgot-password
SendResetPasswordCode(r) ==
    /\ StepOf(r) = "idle"
    /\ issued < MaxCodes
    /\ HasPassed(user.sentAt, CodeCooldown)
    /\ issued' = issued + 1
    /\ Continue(r, Saving("send",
            [user EXCEPT !.code = issued + 1, !.sentAt = now, !.verifiedAt = Never],
            {}, NoCode))
    /\ UNCHANGED <<user, mailed, now, guesses>>

\* Mutant (OnlyEntitledChanges): the result of the check is dropped.
ChangeForgottenPasswordUnchecked(r) ==
    /\ StepOf(r) = "idle"
    /\ HasPassed(user.verifiedAt, GuessCooldown)
    /\ \E guess \in 0..issued, new \in Passwords :
        Continue(r, Saving("guess", [user EXCEPT !.verifiedAt = now], {new}, guess))
    /\ UNCHANGED <<user, issued, mailed, now, guesses>>

\* PATCH /users/forgot-password: whether or not the guess is right, its time
\* is saved first.
ChangeForgottenPassword(r) ==
    /\ StepOf(r) = "idle"
    /\ HasPassed(user.verifiedAt, GuessCooldown)
    /\ \E guess \in 0..issued, new \in Passwords :
        LET valid == user.code # NoCode /\ guess = user.code IN
        Continue(r, Saving("guess", [user EXCEPT !.verifiedAt = now],
                           IF valid THEN {new} ELSE {}, guess))
    /\ UNCHANGED <<user, issued, mailed, now, guesses>>

\* PATCH /users/me.  Without a password nothing changes, and it is saved.
Update(r) ==
    /\ StepOf(r) = "idle"
    /\ \/ Continue(r, Saving("update", user, {}, NoCode))
       \/ \E old, new \in Passwords :
            /\ Matches(old, user.password)
            /\ Continue(r, Saving("update", [user EXCEPT !.password = Hashed(new, 0)],
                                  {}, old))
    /\ UNCHANGED <<user, issued, mailed, now, guesses>>

-----------------------------------------------------------------------------
(* save() *)

\* Mutant (PasswordIsUsable): hashed on every save.
BeforeUpdateAlways(entity, databaseEntity) ==
    [entity EXCEPT !.password.hashes = @ + 1]

\* Mutant (NeverPlainText): @BeforeInsert only.
BeforeUpdateNothing(entity, databaseEntity) == entity

\* UserSubscriber.beforeUpdate
BeforeUpdate(entity, databaseEntity) ==
    IF entity.password # databaseEntity.password
    THEN [entity EXCEPT !.password.hashes = @ + 1]
    ELSE entity

Compare(r) ==
    /\ StepOf(r) = "saving"
    /\ LET e == BeforeUpdate(requests[r].entity, user) IN
        /\ e.password.hashes <= MaxHashes
        /\ Continue(r, [requests[r] EXCEPT
            !.step = "writing",
            !.entity = e,
            !.writes = {column \in Columns : e[column] # user[column]}])
    /\ UNCHANGED <<user, issued, mailed, now, guesses>>

\* What the handler does after its save().
AfterSave(request) ==
    IF request.kind = "send" THEN [step |-> "mailing", code |-> request.entity.code]
    ELSE IF request.kind = "guess" /\ request.then # {}
    THEN Saving("reset",
                [request.entity EXCEPT !.password =
                    Hashed(CHOOSE p \in request.then : TRUE, 0)],
                {}, request.proof)
    ELSE Idle

\* UPDATE ... SET, for some of the columns.
Overwritten(entity, columns) ==
    [password   |-> IF "password"   \in columns THEN entity.password   ELSE user.password,
     code       |-> IF "code"       \in columns THEN entity.code       ELSE user.code,
     sentAt     |-> IF "sentAt"     \in columns THEN entity.sentAt     ELSE user.sentAt,
     verifiedAt |-> IF "verifiedAt" \in columns THEN entity.verifiedAt ELSE user.verifiedAt]

Write(r) ==
    /\ StepOf(r) = "writing"
    /\ LET request == requests[r] IN
        /\ user' = Overwritten(request.entity, request.writes)
        /\ guesses' = IF request.kind = "send"  THEN 0 ELSE
                      IF request.kind = "guess" /\ guesses < MaxGuesses
                      THEN guesses + 1 ELSE guesses
        /\ Continue(r, AfterSave(request))
    /\ UNCHANGED <<issued, mailed, now>>

\* MailHandler: the mail is sent or fails; either way the request is over.
Mail(r) ==
    /\ StepOf(r) = "mailing"
    /\ mailed' \in {mailed, requests[r].code}
    /\ Continue(r, Idle)
    /\ UNCHANGED <<user, issued, now, guesses>>

\* An await is rejected or the process dies: memory is lost.
Fail(r) ==
    /\ StepOf(r) # "idle"
    /\ Continue(r, Idle)
    /\ UNCHANGED <<user, issued, mailed, now, guesses>>

TimePasses ==
    /\ now < MaxTime
    /\ now' = now + 1
    /\ UNCHANGED <<user, requests, issued, mailed, guesses>>

Next ==
    \/ \E r \in Slots :
        \/ SendResetPasswordCode(r) \/ ChangeForgottenPassword(r) \/ Update(r)
        \/ Compare(r) \/ Write(r) \/ Mail(r) \/ Fail(r)
    \/ TimePasses

Spec == Init /\ [][Next]_vars

-----------------------------------------------------------------------------
(* Safety. *)

\* Whatever overlaps, the row never holds a password in plain text: every
\* save() that brings a new one in hashes it on the way.
NeverPlainText == user.password.hashes > 0

(* One request at a time. *)

\* The stored password is the hash of one the user chose, so he can log in: the
\* row that is saved twice by a reset is hashed once.
PasswordIsUsable == user.password.hashes = 1

\* The cooldown bounds the guesses at a code by the time since it was sent,
\* although sending a code clears the time of the last guess.
GuessesLimited ==
    user.sentAt # Never => (guesses - 1) * GuessCooldown <= now - user.sentAt

\* The password is only changed by a request that named the current password,
\* or guessed the code that is still the current one.
OnlyEntitledChanges ==
    [][user'.password # user.password =>
        \E r \in Slots :
            /\ StepOf(r) = "writing"
            /\ \/ requests[r].kind = "update" /\ Matches(requests[r].proof, user.password)
               \/ requests[r].kind = "reset" /\ requests[r].proof = user.code]_vars

(* What the tests expect, and overlapping requests do not keep. *)

\* Recording a wrong guess does not change the password.
GuessKeepsPassword ==
    [][\A r \in Slots :
        Write(r) /\ requests[r].kind = "guess" /\ requests[r].then = {} =>
            user'.password = user.password]_vars
=============================================================================
