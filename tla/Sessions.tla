------------------------------ MODULE Sessions ------------------------------
(***************************************************************************)
(* Accounts and sessions: the handlers of app/api/routes/auth.py, with the *)
(* rows of PostgreSQL (users, one-time codes and refresh tokens) and the   *)
(* keys of Redis (attempt counters, reset codes).                          *)
(*                                                                         *)
(* A worker is a handler in flight, cut at the awaits between what it      *)
(* reads and what it writes; PostgreSQL and Redis share no transaction.  A *)
(* handler that writes in one statement what it need not have read is one  *)
(* step.  Requests that are refused change nothing and are left out.  So   *)
(* are the PIN of administrators, which counts as presenting the code, and *)
(* the registration of devices for pushes, which no handler here reads.    *)
(***************************************************************************)
EXTENDS Integers, FiniteSets, Sequences

CONSTANTS
    Workers,     \* handlers that can be in flight together
    Phones,      \* phone numbers
    MaxAttempts, \* MAX_ATTEMPTS of OTPRateLimiter
    MaxOtps,     \* bound: one-time codes
    MaxTokens,   \* bound: refresh tokens
    MaxCodes,    \* bound: password reset codes
    MaxFaults    \* bound: handlers that fail and processes that stop

ASSUME SessionsAssumption ==
    /\ IsFiniteSet(Workers) /\ Workers # {}
    /\ IsFiniteSet(Phones) /\ Phones # {}
    /\ {MaxOtps, MaxTokens, MaxCodes, MaxFaults} \subseteq Nat
    /\ MaxAttempts \in Nat \ {0}

VARIABLES
    user,     \* the account of each phone number
    otp,      \* rows of otp_records, in the order of created_at
    token,    \* rows of refresh_tokens
    held,     \* refresh tokens a client received
    attempts, \* counters of requests for codes, and whether they expire
    code,     \* the reset code stored for each phone number, 0 if none
    uses,     \* resets done with each reset code issued
    faults,   \* handlers failed and processes stopped so far
    req       \* the handler each worker is running

vars == <<user, otp, token, held, attempts, code, uses, faults, req>>

Otp == 1 .. MaxOtps

Token == 1 .. MaxTokens

Code == 1 .. MaxCodes

\* password: one was set.  must_change_password is only shown to the client.
User == [exists : BOOLEAN, password : BOOLEAN, active : BOOLEAN]

NoUser == [exists |-> FALSE, password |-> FALSE, active |-> FALSE]

NewUser(password) == [exists |-> TRUE, password |-> password, active |-> TRUE]

\* A code is taken when its transaction starts: that is its created_at; it is
\* over when used or expired.
OtpRow == [phone : Phones, state : {"free", "taken", "valid", "over"}]

\* A token is over when revoked or expired.  root is the token of the login it
\* descends from, otp the code it was issued for.
TokenRow == [phone : Phones, state : {"free", "live", "over"},
             root : 0 .. MaxTokens, otp : 0 .. MaxOtps]

\* The key of a number, and what the limit is about: the requests counted since
\* a key of this number last expired, and the logins that deleted it since.
Counter == [count : Nat, expires : BOOLEAN, passed : Nat, resets : Nat]

NoCounter == [count |-> 0, expires |-> FALSE, passed |-> 0, resets |-> 0]

Request ==
    [pc : {"idle"}]
    \cup [pc : {"increment", "expire", "account", "register", "login", "change"}, phone : Phones]
    \cup [pc : {"code"}, phone : Phones, otp : Otp, new : BOOLEAN]
    \cup [pc : {"clear", "open"}, phone : Phones, otp : Otp]
    \cup [pc : {"reset", "forget"}, phone : Phones, code : Code]
    \cup [pc : {"refresh"}, token : Token]

TypeOK ==
    /\ user \in [Phones -> User]
    /\ otp \in [Otp -> OtpRow]
    /\ token \in [Token -> TokenRow]
    /\ held \subseteq {n \in Token : token[n].state # "free"}
    /\ attempts \in [Phones -> Counter]
    /\ code \in [Phones -> 0 .. MaxCodes]
    /\ uses \in Seq(Nat) /\ Len(uses) <= MaxCodes
    /\ faults \in 0 .. MaxFaults
    /\ req \in [Workers -> Request]

Init ==
    /\ user = [p \in Phones |-> NoUser]
    /\ otp = [o \in Otp |-> [phone |-> CHOOSE p \in Phones : TRUE, state |-> "free"]]
    /\ token = [n \in Token |->
                  [phone |-> CHOOSE p \in Phones : TRUE, state |-> "free", root |-> 0, otp |-> 0]]
    /\ held = {}
    /\ attempts = [p \in Phones |-> NoCounter]
    /\ code = [p \in Phones |-> 0]
    /\ uses = <<>>
    /\ faults = 0
    /\ req = [w \in Workers |-> [pc |-> "idle"]]

At(w, pc) == req[w].pc = pc

Goto(w, r) == req' = [req EXCEPT ![w] = r]

Done(w) == Goto(w, [pc |-> "idle"])

\* The next row of a table.
FirstFree(rows) == {n \in DOMAIN rows : rows[n].state = "free" /\ \A m \in 1 .. n - 1 : rows[m].state # "free"}

\* Mutant: the token is sent and not stored.
IssueUnstored(p, o) ==
    \E n \in FirstFree(token) :
        /\ token' = token
        /\ held' = held \cup {n}

\* _build_token_response: the client receives a token that is stored.
Issue(p, o) ==
    \E n \in FirstFree(token) :
        /\ token' = [token EXCEPT ![n] = [phone |-> p, state |-> "live", root |-> n, otp |-> o]]
        /\ held' = held \cup {n}

-----------------------------------------------------------------------------
(* One-time codes: request-otp and verify-otp *)

\* Mutant: the limiter is not asked.
RequestOtpUnlimited(w, p) ==
    /\ At(w, "idle")
    /\ Goto(w, [pc |-> "increment", phone |-> p])
    /\ UNCHANGED <<user, otp, token, held, attempts, code, uses, faults>>

\* is_blocked
RequestOtp(w, p) ==
    /\ At(w, "idle")
    /\ attempts[p].count < MaxAttempts
    /\ Goto(w, [pc |-> "increment", phone |-> p])
    /\ UNCHANGED <<user, otp, token, held, attempts, code, uses, faults>>

\* INCR, and EXPIRE is to follow the first of a window.
Increment(w) ==
    /\ At(w, "increment")
    /\ attempts' = [attempts EXCEPT ![req[w].phone].count = @ + 1,
                                    ![req[w].phone].passed = @ + 1]
    /\ Goto(w, [req[w] EXCEPT !.pc = IF attempts[req[w].phone].count = 0 THEN "expire" ELSE "account"])
    /\ UNCHANGED <<user, otp, token, held, code, uses, faults>>

\* Mutant: the first request of a window gives its counter no expiry.
SetExpiryNever(w) ==
    /\ At(w, "expire")
    /\ Goto(w, [req[w] EXCEPT !.pc = "account"])
    /\ UNCHANGED <<user, otp, token, held, attempts, code, uses, faults>>

\* EXPIRE, which does nothing if the key is gone.
SetExpiry(w) ==
    /\ At(w, "expire")
    /\ attempts' = [attempts EXCEPT ![req[w].phone].expires = attempts[req[w].phone].count > 0]
    /\ Goto(w, [req[w] EXCEPT !.pc = "account"])
    /\ UNCHANGED <<user, otp, token, held, code, uses, faults>>

\* The account is looked up: a new one needs a name and must not be a driver's.
FindAccount(w) ==
    /\ At(w, "account")
    /\ \/ \E o \in FirstFree(otp) :
            /\ otp' = [otp EXCEPT ![o] = [phone |-> req[w].phone, state |-> "taken"]]
            /\ Goto(w, [pc |-> "code", phone |-> req[w].phone, otp |-> o,
                        new |-> ~user[req[w].phone].exists])
       \/ /\ ~user[req[w].phone].exists
          /\ Done(w)
          /\ UNCHANGED otp
    /\ UNCHANGED <<user, token, held, attempts, code, uses, faults>>

\* One commit for the account and the code: phone_number is unique.
CommitOtp(w) ==
    /\ At(w, "code")
    /\ req[w].new => ~user[req[w].phone].exists
    /\ otp' = [otp EXCEPT ![req[w].otp].state = "valid"]
    /\ user' = IF req[w].new THEN [user EXCEPT ![req[w].phone] = NewUser(FALSE)] ELSE user
    /\ Done(w)
    /\ UNCHANGED <<token, held, attempts, code, uses, faults>>

\* The newest code that is neither used nor expired.
Current(p) ==
    LET valid == {o \in Otp : otp[o].phone = p /\ otp[o].state = "valid"}
    IN  {o \in valid : \A x \in valid : x <= o}

VerifyStart(w, p) ==
    /\ At(w, "idle")
    /\ \E o \in Current(p) : Goto(w, [pc |-> "clear", phone |-> p, otp |-> o])
    /\ UNCHANGED <<user, otp, token, held, attempts, code, uses, faults>>

\* The counter is deleted before the commit, in the middle of its window.
ClearAttempts(w) ==
    /\ At(w, "clear")
    /\ attempts' = [attempts EXCEPT ![req[w].phone].count = 0,
                                    ![req[w].phone].expires = FALSE,
                                    ![req[w].phone].resets = @ + 1]
    /\ Goto(w, [req[w] EXCEPT !.pc = "open"])
    /\ UNCHANGED <<user, otp, token, held, code, uses, faults>>

\* Mutant: the code is not marked as used.
CommitVerifyReusable(w) ==
    /\ At(w, "open")
    /\ Issue(req[w].phone, req[w].otp)
    /\ Done(w)
    /\ UNCHANGED <<user, otp, attempts, code, uses, faults>>

CommitVerify(w) ==
    /\ At(w, "open")
    /\ otp' = [otp EXCEPT ![req[w].otp].state = "over"]
    /\ Issue(req[w].phone, req[w].otp)
    /\ Done(w)
    /\ UNCHANGED <<user, attempts, code, uses, faults>>

-----------------------------------------------------------------------------
(* Passwords: register, login, change-password, forgot- and reset-password *)

RegisterStart(w, p) ==
    /\ At(w, "idle")
    /\ ~user[p].exists
    /\ Goto(w, [pc |-> "register", phone |-> p])
    /\ UNCHANGED <<user, otp, token, held, attempts, code, uses, faults>>

CommitRegister(w) ==
    /\ At(w, "register")
    /\ ~user[req[w].phone].exists
    /\ user' = [user EXCEPT ![req[w].phone] = NewUser(TRUE)]
    /\ Issue(req[w].phone, 0)
    /\ Done(w)
    /\ UNCHANGED <<otp, attempts, code, uses, faults>>

\* An administrator creates the account with a password to change.
Onboard(p) ==
    /\ ~user[p].exists
    /\ user' = [user EXCEPT ![p] = NewUser(TRUE)]
    /\ UNCHANGED <<otp, token, held, attempts, code, uses, faults, req>>

LoginStart(w, p) ==
    /\ At(w, "idle")
    /\ user[p].password /\ user[p].active
    /\ Goto(w, [pc |-> "login", phone |-> p])
    /\ UNCHANGED <<user, otp, token, held, attempts, code, uses, faults>>

CommitLogin(w) ==
    /\ At(w, "login")
    /\ Issue(req[w].phone, 0)
    /\ Done(w)
    /\ UNCHANGED <<user, otp, attempts, code, uses, faults>>

\* get_current_user: an access token of an earlier login, and an active account.
SignedIn(p) == user[p].active /\ \E n \in held : token[n].phone = p

ChangeStart(w, p) ==
    /\ At(w, "idle")
    /\ SignedIn(p) /\ user[p].password
    /\ Goto(w, [pc |-> "change", phone |-> p])
    /\ UNCHANGED <<user, otp, token, held, attempts, code, uses, faults>>

CommitChange(w) ==
    /\ At(w, "change")
    /\ user' = [user EXCEPT ![req[w].phone].password = TRUE]
    /\ Done(w)
    /\ UNCHANGED <<otp, token, held, attempts, code, uses, faults>>

\* The code is stored for an hour, and shown to the client.
ForgotPassword(p) ==
    /\ user[p].exists
    /\ Len(uses) < MaxCodes
    /\ uses' = Append(uses, 0)
    /\ code' = [code EXCEPT ![p] = Len(uses) + 1]
    /\ UNCHANGED <<user, otp, token, held, attempts, faults, req>>

ResetStart(w, p) ==
    /\ At(w, "idle")
    /\ code[p] # 0
    /\ Goto(w, [pc |-> "reset", phone |-> p, code |-> code[p]])
    /\ UNCHANGED <<user, otp, token, held, attempts, code, uses, faults>>

CommitReset(w) ==
    /\ At(w, "reset")
    /\ user' = [user EXCEPT ![req[w].phone].password = TRUE]
    /\ uses' = [uses EXCEPT ![req[w].code] = @ + 1]
    /\ Goto(w, [req[w] EXCEPT !.pc = "forget"])
    /\ UNCHANGED <<otp, token, held, attempts, code, faults>>

\* Mutant: a code is left to expire.
ForgetCodeLater(w) ==
    /\ At(w, "forget")
    /\ Done(w)
    /\ UNCHANGED <<user, otp, token, held, attempts, code, uses, faults>>

\* The key is deleted, whichever code it holds by now.
ForgetCode(w) ==
    /\ At(w, "forget")
    /\ code' = [code EXCEPT ![req[w].phone] = 0]
    /\ Done(w)
    /\ UNCHANGED <<user, otp, token, held, attempts, uses, faults>>

-----------------------------------------------------------------------------
(* Refresh tokens *)

RefreshStart(w, n) ==
    /\ At(w, "idle")
    /\ n \in held
    /\ token[n].state = "live" /\ user[token[n].phone].active
    /\ Goto(w, [pc |-> "refresh", token |-> n])
    /\ UNCHANGED <<user, otp, token, held, attempts, code, uses, faults>>

\* Mutant: the new token is stored and the old one stays.
CommitRefreshBeside(w) ==
    /\ At(w, "refresh")
    /\ \E n \in FirstFree(token) :
         token' = [token EXCEPT ![n] = [token[req[w].token] EXCEPT !.state = "live"]]
    /\ Done(w)
    /\ UNCHANGED <<user, otp, held, attempts, code, uses, faults>>

\* The rotation is committed; then the response fails on a name that is not
\* defined, and no client receives the new token.
CommitRefresh(w) ==
    /\ At(w, "refresh")
    /\ \E n \in FirstFree(token) :
         token' = [token EXCEPT ![req[w].token].state = "over",
                                ![n] = [token[req[w].token] EXCEPT !.state = "live"]]
    /\ Done(w)
    /\ UNCHANGED <<user, otp, held, attempts, code, uses, faults>>

\* Also of a token that is over.
Logout(n) ==
    /\ n \in held
    /\ SignedIn(token[n].phone)
    /\ token' = [token EXCEPT ![n].state = "over"]
    /\ UNCHANGED <<user, otp, held, attempts, code, uses, faults, req>>

-----------------------------------------------------------------------------
(* Administrators, time, failures *)

\* Suspension and reinstatement (module Standing).
SetActive(p) ==
    /\ user[p].exists
    /\ user' = [user EXCEPT ![p].active = ~@]
    /\ UNCHANGED <<otp, token, held, attempts, code, uses, faults, req>>

OtpExpires(o) ==
    /\ otp[o].state = "valid"
    /\ otp' = [otp EXCEPT ![o].state = "over"]
    /\ UNCHANGED <<user, token, held, attempts, code, uses, faults, req>>

TokenExpires(n) ==
    /\ token[n].state = "live"
    /\ token' = [token EXCEPT ![n].state = "over"]
    /\ UNCHANGED <<user, otp, held, attempts, code, uses, faults, req>>

\* The keys of Redis go when their time is over.
WindowEnds(p) ==
    /\ attempts[p].expires
    /\ attempts' = [attempts EXCEPT ![p] = NoCounter]
    /\ UNCHANGED <<user, otp, token, held, code, uses, faults, req>>

CodeExpires(p) ==
    /\ code[p] # 0
    /\ code' = [code EXCEPT ![p] = 0]
    /\ UNCHANGED <<user, otp, token, held, attempts, uses, faults, req>>

\* An exception ends one handler, a restart all of them.  The second account
\* for one number fails on the unique constraint, which is no fault.
Fault ==
    /\ faults < MaxFaults
    /\ faults' = faults + 1
    /\ \/ \E w \in Workers : ~At(w, "idle") /\ Done(w)
       \/ req' = [w \in Workers |-> [pc |-> "idle"]]
    /\ UNCHANGED <<user, otp, token, held, attempts, code, uses>>

NotUnique(w) ==
    /\ At(w, "register") \/ (At(w, "code") /\ req[w].new)
    /\ user[req[w].phone].exists
    /\ Done(w)
    /\ UNCHANGED <<user, otp, token, held, attempts, code, uses, faults>>

-----------------------------------------------------------------------------
Arrive(w) ==
    \/ \E p \in Phones :
         \/ RequestOtp(w, p) \/ VerifyStart(w, p)
         \/ RegisterStart(w, p) \/ LoginStart(w, p)
         \/ ChangeStart(w, p) \/ ResetStart(w, p)
    \/ \E n \in Token : RefreshStart(w, n)

Continue(w) ==
    \/ Increment(w) \/ SetExpiry(w) \/ FindAccount(w) \/ CommitOtp(w) \/ NotUnique(w)
    \/ ClearAttempts(w) \/ CommitVerify(w)
    \/ CommitRegister(w) \/ CommitLogin(w) \/ CommitChange(w)
    \/ CommitReset(w) \/ ForgetCode(w)
    \/ CommitRefresh(w)

Next ==
    \/ \E w \in Workers : Arrive(w) \/ Continue(w)
    \/ \E p \in Phones :
         \/ Onboard(p) \/ ForgotPassword(p) \/ SetActive(p)
         \/ WindowEnds(p) \/ CodeExpires(p)
    \/ \E n \in Token : Logout(n) \/ TokenExpires(n)
    \/ \E o \in Otp : OtpExpires(o)
    \/ Fault

Spec == Init /\ [][Next]_vars

-----------------------------------------------------------------------------
(* Properties *)

\* A one-time code opens one session; handlers that verified it together, each
\* before the other's commit, open one each and no later request another.
OneSessionPerOtp ==
    \A o \in Otp : Cardinality({n \in held : token[n].otp = o}) <= Cardinality(Workers)

\* refresh_access_token replaces a token: however often it is presented, no
\* more tokens of one login are live than handlers refreshed it together, and
\* a suspension, a logout or an expiry in between adds none.  Only the token
\* of the login itself is ever presented, since no later one is received.
RotationReplaces ==
    \A n \in Token :
        Cardinality({m \in Token : token[m].root = n /\ token[m].state = "live"})
            <= Cardinality(Workers)

\* "Rate limited to 5 attempts per 10 minutes per phone number" (request_otp)
\* is what a number gets that nobody logs in with: each login starts the count
\* anew.  Within a window, from one expiry of the counter to the next, no more
\* requests pass than the limit, and one for each handler that asked with the
\* last of them, once and again for each login.
RequestsLimited ==
    \A p \in Phones :
        attempts[p].passed <= (MaxAttempts + Cardinality(Workers) - 1) * (1 + attempts[p].resets)

\* A reset code changes the password once; again only for handlers that read
\* it together, or after a fault between the commit and the deletion.
ResetCodeUsedUp ==
    \A c \in 1 .. Len(uses) : uses[c] <= Cardinality(Workers) * (1 + faults)

\* "Please wait 10 minutes" helps: a counter has its expiry, unless a handler
\* is about to set it or a fault ended one between INCR and EXPIRE.
CountersExpire ==
    LET stuck == {p \in Phones : attempts[p].count > 0 /\ ~attempts[p].expires
                    /\ \A w \in Workers : At(w, "expire") => req[w].phone # p}
    IN  Cardinality(stuck) <= faults * Cardinality(Workers)

=============================================================================
