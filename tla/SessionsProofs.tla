--------------------------- MODULE SessionsProofs ---------------------------
(***************************************************************************)
(* Proofs about Sessions for any number of handlers, phone numbers, codes, *)
(* tokens and failures.  Each section strengthens one property of Sessions *)
(* to an invariant that counts the handlers in flight, proves it of every  *)
(* action, and concludes the property.                                     *)
(***************************************************************************)
EXTENDS Sessions, FiniteSetTheorems, TLAPS

\* What a handler carries has its type, and moving on keeps it.
LEMMA Carried ==
    ASSUME TypeOK, NEW w \in Workers
    PROVE  /\ req[w] \in Request
           /\ req[w].pc \in {"increment", "expire", "account", "register", "login", "change"}
                => /\ req[w].phone \in Phones
                   /\ \A pc \in {"increment", "expire", "account"} :
                        [req[w] EXCEPT !.pc = pc] \in Request
                   /\ \A pc : /\ [req[w] EXCEPT !.pc = pc].pc = pc
                              /\ [req[w] EXCEPT !.pc = pc].phone = req[w].phone
           /\ At(w, "code") => req[w].phone \in Phones /\ req[w].otp \in Otp /\ req[w].new \in BOOLEAN
           /\ req[w].pc \in {"clear", "open"}
                => /\ req[w].phone \in Phones /\ req[w].otp \in Otp
                   /\ [req[w] EXCEPT !.pc = "open"] \in Request
                   /\ [req[w] EXCEPT !.pc = "open"].pc = "open"
                   /\ [req[w] EXCEPT !.pc = "open"].otp = req[w].otp
           /\ req[w].pc \in {"reset", "forget"}
                => /\ req[w].phone \in Phones /\ req[w].code \in Code
                   /\ [req[w] EXCEPT !.pc = "forget"] \in Request
                   /\ [req[w] EXCEPT !.pc = "forget"].pc = "forget"
                   /\ [req[w] EXCEPT !.pc = "forget"].code = req[w].code
                   /\ [req[w] EXCEPT !.pc = "forget"].phone = req[w].phone
           /\ At(w, "refresh") => req[w].token \in Token
<1>1. req[w] \in Request
  BY DEF TypeOK
<1>2. CASE req[w].pc = "idle"
  BY <1>1, <1>2 DEF Request, At
<1>3. CASE req[w] \in [pc : {"increment", "expire", "account", "register", "login", "change"}, phone : Phones]
  BY <1>1, <1>3 DEF Request, At
<1>4. CASE req[w] \in [pc : {"code"}, phone : Phones, otp : Otp, new : BOOLEAN]
  BY <1>1, <1>4 DEF Request, At
<1>5. CASE req[w] \in [pc : {"clear", "open"}, phone : Phones, otp : Otp]
  BY <1>1, <1>5 DEF Request, At
<1>6. CASE req[w] \in [pc : {"reset", "forget"}, phone : Phones, code : Code]
  BY <1>1, <1>6 DEF Request, At
<1>7. CASE req[w] \in [pc : {"refresh"}, token : Token]
  BY <1>1, <1>7 DEF Request, At
<1> QED
  BY <1>1, <1>2, <1>3, <1>4, <1>5, <1>6, <1>7 DEF Request

-----------------------------------------------------------------------------
(* Type correctness *)

LEMMA Idle == [pc |-> "idle"] \in Request
BY DEF Request

\* A worker moves on and writes nothing.
LEMMA TypeMove ==
    ASSUME TypeOK, NEW w \in Workers, NEW r \in Request, Goto(w, r),
           UNCHANGED <<user, otp, token, held, attempts, code, uses, faults>>
    PROVE  TypeOK'
BY DEF TypeOK, Goto

LEMMA RequestMoves ==
    ASSUME TypeOK, NEW w \in Workers, NEW r \in Request, Goto(w, r)
    PROVE  req' \in [Workers -> Request]
BY DEF TypeOK, Goto

LEMMA IssueType ==
    ASSUME TypeOK, NEW p \in Phones, NEW o \in 0 .. MaxOtps, Issue(p, o)
    PROVE  /\ token' \in [Token -> TokenRow]
           /\ held' \subseteq {n \in Token : token'[n].state # "free"}
<1>1. PICK n \in FirstFree(token) :
        /\ token' = [token EXCEPT ![n] = [phone |-> p, state |-> "live", root |-> n, otp |-> o]]
        /\ held' = held \cup {n}
  BY DEF Issue
<1>2. n \in Token /\ token \in [Token -> TokenRow]
  BY DEF TypeOK, FirstFree
<1>3. [phone |-> p, state |-> "live", root |-> n, otp |-> o] \in TokenRow
  BY <1>2, SessionsAssumption DEF TokenRow, Token
<1>4. token' \in [Token -> TokenRow]
  BY <1>1, <1>2, <1>3
<1>5. \A m \in Token : token'[m] = IF m = n THEN [phone |-> p, state |-> "live", root |-> n, otp |-> o] ELSE token[m]
  BY <1>1, <1>2
<1>6. held \subseteq {m \in Token : token[m].state # "free"}
  BY DEF TypeOK
<1> QED
  BY <1>1, <1>2, <1>4, <1>5, <1>6

LEMMA TypeInit == Init => TypeOK
<1> SUFFICES ASSUME Init PROVE TypeOK
  OBVIOUS
<1>1. PICK q \in Phones : q = CHOOSE p \in Phones : TRUE
  BY SessionsAssumption
<1>2. user \in [Phones -> User]
  BY DEF Init, User, NoUser
<1>3. otp \in [Otp -> OtpRow]
  BY <1>1 DEF Init, OtpRow
<1>4. token \in [Token -> TokenRow]
  BY <1>1, SessionsAssumption DEF Init, TokenRow
<1>5. held \subseteq {n \in Token : token[n].state # "free"}
  BY DEF Init
<1>6. attempts \in [Phones -> Counter]
  BY DEF Init, Counter, NoCounter
<1>7. code \in [Phones -> 0 .. MaxCodes] /\ uses \in Seq(Nat) /\ Len(uses) <= MaxCodes
  BY SessionsAssumption DEF Init
<1>8. faults \in 0 .. MaxFaults /\ req \in [Workers -> Request]
  BY SessionsAssumption, Idle DEF Init
<1> QED
  BY <1>2, <1>3, <1>4, <1>5, <1>6, <1>7, <1>8 DEF TypeOK

LEMMA TypeNext == ASSUME TypeOK, Next PROVE TypeOK'
<1>1. ASSUME NEW w \in Workers, Arrive(w) PROVE TypeOK'
  <2>1. ASSUME NEW p \in Phones, RequestOtp(w, p) \/ RegisterStart(w, p) \/ LoginStart(w, p) \/ ChangeStart(w, p)
        PROVE  TypeOK'
    <3>1. \A pc \in {"increment", "register", "login", "change"} : [pc |-> pc, phone |-> p] \in Request
      BY DEF Request
    <3> QED
      BY <2>1, <3>1, TypeMove DEF RequestOtp, RegisterStart, LoginStart, ChangeStart
  <2>2. ASSUME NEW p \in Phones, VerifyStart(w, p) PROVE TypeOK'
    <3>1. \A o \in Current(p) : o \in Otp
      BY DEF Current
    <3>2. \A o \in Otp : [pc |-> "clear", phone |-> p, otp |-> o] \in Request
      BY DEF Request
    <3> QED
      BY <2>2, <3>1, <3>2, TypeMove DEF VerifyStart
  <2>3. ASSUME NEW p \in Phones, ResetStart(w, p) PROVE TypeOK'
    <3>1. code[p] \in Code
      BY <2>3, SessionsAssumption DEF ResetStart, TypeOK, Code
    <3>2. [pc |-> "reset", phone |-> p, code |-> code[p]] \in Request
      BY <3>1 DEF Request
    <3> QED
      BY <2>3, <3>2, TypeMove DEF ResetStart
  <2>4. ASSUME NEW n \in Token, RefreshStart(w, n) PROVE TypeOK'
    <3>1. [pc |-> "refresh", token |-> n] \in Request
      BY DEF Request
    <3> QED
      BY <2>4, <3>1, TypeMove DEF RefreshStart
  <2> QED
    BY <1>1, <2>1, <2>2, <2>3, <2>4 DEF Arrive
<1>2. ASSUME NEW w \in Workers, Continue(w) PROVE TypeOK'
  <2>1. CASE Increment(w)
    <3>1. req[w].phone \in Phones
      BY <2>1, Carried DEF Increment, At
    <3>2. attempts' \in [Phones -> Counter]
      <4>1. attempts[req[w].phone] \in Counter
        BY <3>1 DEF TypeOK
      <4>2. [attempts[req[w].phone] EXCEPT !.count = attempts[req[w].phone].count + 1,
                                           !.passed = attempts[req[w].phone].passed + 1] \in Counter
        <5>1. /\ attempts[req[w].phone].count + 1 \in Nat
              /\ attempts[req[w].phone].passed + 1 \in Nat
          BY <4>1 DEF Counter
        <5>2. \A a, b \in Nat : [attempts[req[w].phone] EXCEPT !.count = a, !.passed = b] \in Counter
          BY <4>1 DEF Counter
        <5> QED
          BY <5>1, <5>2
      <4>3. attempts' = [attempts EXCEPT ![req[w].phone] =
                           [attempts[req[w].phone] EXCEPT !.count = attempts[req[w].phone].count + 1,
                                                          !.passed = attempts[req[w].phone].passed + 1]]
        BY <2>1, <3>1 DEF Increment, TypeOK
      <4> QED
        BY <3>1, <4>2, <4>3 DEF TypeOK
    <3>3. [req[w] EXCEPT !.pc = IF attempts[req[w].phone].count = 0 THEN "expire" ELSE "account"] \in Request
      BY <2>1, Carried DEF Increment, At
    <3>4. req' \in [Workers -> Request]
      BY <2>1, <3>3, RequestMoves DEF Increment
    <3> QED
      BY <2>1, <3>2, <3>4 DEF Increment, TypeOK
  <2>2. CASE SetExpiry(w)
    <3>1. req[w].phone \in Phones /\ [req[w] EXCEPT !.pc = "account"] \in Request
      BY <2>2, Carried DEF SetExpiry, At
    <3>2. attempts' \in [Phones -> Counter]
      <4>1. attempts[req[w].phone] \in Counter
        BY <3>1 DEF TypeOK
      <4>2. [attempts[req[w].phone] EXCEPT !.expires = attempts[req[w].phone].count > 0] \in Counter
        <5>1. \A b \in BOOLEAN : [attempts[req[w].phone] EXCEPT !.expires = b] \in Counter
          BY <4>1 DEF Counter
        <5>2. (attempts[req[w].phone].count > 0) \in BOOLEAN
          BY <4>1 DEF Counter
        <5> QED
          BY <5>1, <5>2
      <4>3. attempts' = [attempts EXCEPT ![req[w].phone] =
                           [attempts[req[w].phone] EXCEPT !.expires = attempts[req[w].phone].count > 0]]
        BY <2>2 DEF SetExpiry
      <4> QED
        BY <3>1, <4>2, <4>3 DEF TypeOK
    <3>3. req' \in [Workers -> Request]
      BY <2>2, <3>1, RequestMoves DEF SetExpiry
    <3> QED
      BY <2>2, <3>2, <3>3 DEF SetExpiry, TypeOK
  <2>3. CASE FindAccount(w)
    <3>1. req[w].phone \in Phones
      BY <2>3, Carried DEF FindAccount, At
    <3>2. ASSUME NEW o \in FirstFree(otp),
                 otp' = [otp EXCEPT ![o] = [phone |-> req[w].phone, state |-> "taken"]],
                 Goto(w, [pc |-> "code", phone |-> req[w].phone, otp |-> o, new |-> ~user[req[w].phone].exists])
          PROVE  otp' \in [Otp -> OtpRow] /\ req' \in [Workers -> Request]
      <4>1. o \in Otp
        BY DEF FirstFree, TypeOK
      <4>2. otp' \in [Otp -> OtpRow]
        BY <3>1, <3>2, <4>1 DEF TypeOK, OtpRow
      <4>3. [pc |-> "code", phone |-> req[w].phone, otp |-> o, new |-> ~user[req[w].phone].exists] \in Request
        BY <3>1, <4>1 DEF Request
      <4> QED
        BY <3>2, <4>2, <4>3, RequestMoves
    <3>3. ASSUME Done(w), UNCHANGED otp
          PROVE  otp' \in [Otp -> OtpRow] /\ req' \in [Workers -> Request]
      BY <3>3, Idle, RequestMoves DEF Done, TypeOK
    <3>4. otp' \in [Otp -> OtpRow] /\ req' \in [Workers -> Request]
      BY <2>3, <3>2, <3>3 DEF FindAccount
    <3> QED
      BY <2>3, <3>4 DEF FindAccount, TypeOK
  <2>4. CASE CommitOtp(w)
    <3>1. req[w].phone \in Phones /\ req[w].otp \in Otp
      BY <2>4, Carried DEF CommitOtp
    <3>2. otp' \in [Otp -> OtpRow]
      BY <2>4, <3>1 DEF CommitOtp, TypeOK, OtpRow
    <3>3. user' \in [Phones -> User]
      BY <2>4, <3>1 DEF CommitOtp, TypeOK, User, NewUser
    <3>4. req' \in [Workers -> Request]
      BY <2>4, Idle, RequestMoves DEF CommitOtp, Done
    <3> QED
      BY <2>4, <3>2, <3>3, <3>4 DEF CommitOtp, TypeOK
  <2>5. CASE NotUnique(w)
    BY <2>5, Idle, TypeMove DEF NotUnique, Done
  <2>6. CASE ClearAttempts(w)
    <3>1. req[w].phone \in Phones /\ [req[w] EXCEPT !.pc = "open"] \in Request
      BY <2>6, Carried DEF ClearAttempts, At
    <3>2. attempts' \in [Phones -> Counter]
      <4>1. attempts[req[w].phone] \in Counter
        BY <3>1 DEF TypeOK
      <4>2. [attempts[req[w].phone] EXCEPT !.count = 0, !.expires = FALSE,
                                           !.resets = attempts[req[w].phone].resets + 1] \in Counter
        <5>1. attempts[req[w].phone].resets + 1 \in Nat
          BY <4>1 DEF Counter
        <5>2. \A n \in Nat : [attempts[req[w].phone] EXCEPT !.count = 0, !.expires = FALSE,
                                                            !.resets = n] \in Counter
          BY <4>1 DEF Counter
        <5> QED
          BY <5>1, <5>2
      <4>3. attempts' = [attempts EXCEPT ![req[w].phone] =
                           [attempts[req[w].phone] EXCEPT !.count = 0, !.expires = FALSE,
                                                          !.resets = attempts[req[w].phone].resets + 1]]
        BY <2>6, <3>1 DEF ClearAttempts, TypeOK
      <4> QED
        BY <3>1, <4>2, <4>3 DEF TypeOK
    <3>3. req' \in [Workers -> Request]
      BY <2>6, <3>1, RequestMoves DEF ClearAttempts
    <3> QED
      BY <2>6, <3>2, <3>3 DEF ClearAttempts, TypeOK
  <2>7. CASE CommitVerify(w)
    <3>1. req[w].phone \in Phones /\ req[w].otp \in Otp
      BY <2>7, Carried DEF CommitVerify, At
    <3>2. otp' \in [Otp -> OtpRow]
      BY <2>7, <3>1 DEF CommitVerify, TypeOK, OtpRow
    <3>3. req[w].otp \in 0 .. MaxOtps
      BY <3>1, SessionsAssumption DEF Otp
    <3>4. token' \in [Token -> TokenRow] /\ held' \subseteq {n \in Token : token'[n].state # "free"}
      BY <2>7, <3>1, <3>3, IssueType DEF CommitVerify
    <3>5. req' \in [Workers -> Request]
      BY <2>7, Idle, RequestMoves DEF CommitVerify, Done
    <3> QED
      BY <2>7, <3>2, <3>4, <3>5 DEF CommitVerify, TypeOK
  <2>8. CASE CommitRegister(w)
    <3>1. req[w].phone \in Phones
      BY <2>8, Carried DEF CommitRegister, At
    <3>2. user' \in [Phones -> User]
      BY <2>8, <3>1 DEF CommitRegister, TypeOK, User, NewUser
    <3>3. token' \in [Token -> TokenRow] /\ held' \subseteq {n \in Token : token'[n].state # "free"}
      BY <2>8, <3>1, IssueType, SessionsAssumption DEF CommitRegister
    <3>4. req' \in [Workers -> Request]
      BY <2>8, Idle, RequestMoves DEF CommitRegister, Done
    <3> QED
      BY <2>8, <3>2, <3>3, <3>4 DEF CommitRegister, TypeOK
  <2>9. CASE CommitLogin(w)
    <3>1. req[w].phone \in Phones
      BY <2>9, Carried DEF CommitLogin, At
    <3>2. token' \in [Token -> TokenRow] /\ held' \subseteq {n \in Token : token'[n].state # "free"}
      BY <2>9, <3>1, IssueType, SessionsAssumption DEF CommitLogin
    <3>3. req' \in [Workers -> Request]
      BY <2>9, Idle, RequestMoves DEF CommitLogin, Done
    <3> QED
      BY <2>9, <3>2, <3>3 DEF CommitLogin, TypeOK
  <2>10. CASE CommitChange(w)
    <3>1. req[w].phone \in Phones
      BY <2>10, Carried DEF CommitChange, At
    <3>2. user' \in [Phones -> User]
      BY <2>10, <3>1 DEF CommitChange, TypeOK, User
    <3>3. req' \in [Workers -> Request]
      BY <2>10, Idle, RequestMoves DEF CommitChange, Done
    <3> QED
      BY <2>10, <3>2, <3>3 DEF CommitChange, TypeOK
  <2>11. CASE CommitReset(w)
    <3>1. req[w].phone \in Phones /\ req[w].code \in Code /\ [req[w] EXCEPT !.pc = "forget"] \in Request
      BY <2>11, Carried DEF CommitReset, At
    <3>2. user' \in [Phones -> User]
      BY <2>11, <3>1 DEF CommitReset, TypeOK, User
    <3>3. uses' \in Seq(Nat) /\ Len(uses') <= MaxCodes
      <4>1. uses \in Seq(Nat) /\ Len(uses) <= MaxCodes /\ DOMAIN uses = 1 .. Len(uses)
        BY DEF TypeOK
      <4>2. uses' = [uses EXCEPT ![req[w].code] = uses[req[w].code] + 1]
        BY <2>11 DEF CommitReset
      <4>3. CASE req[w].code \in 1 .. Len(uses)
        <5>1. uses[req[w].code] + 1 \in Nat
          BY <4>1, <4>3
        <5> QED
          BY <4>1, <4>2, <4>3, <5>1
      <4>4. CASE req[w].code \notin 1 .. Len(uses)
        <5>1. uses' = uses
          BY <4>1, <4>2, <4>4
        <5> QED
          BY <4>1, <5>1
      <4> QED
        BY <4>3, <4>4
    <3>4. req' \in [Workers -> Request]
      BY <2>11, <3>1, RequestMoves DEF CommitReset
    <3> QED
      BY <2>11, <3>2, <3>3, <3>4 DEF CommitReset, TypeOK
  <2>12. CASE ForgetCode(w)
    <3>1. req[w].phone \in Phones
      BY <2>12, Carried DEF ForgetCode, At
    <3>2. code' \in [Phones -> 0 .. MaxCodes]
      BY <2>12, <3>1, SessionsAssumption DEF ForgetCode, TypeOK
    <3>3. req' \in [Workers -> Request]
      BY <2>12, Idle, RequestMoves DEF ForgetCode, Done
    <3> QED
      BY <2>12, <3>2, <3>3 DEF ForgetCode, TypeOK
  <2>13. CASE CommitRefresh(w)
    <3>1. req[w].token \in Token
      BY <2>13, Carried DEF CommitRefresh
    <3>2. PICK n \in FirstFree(token) :
            token' = [token EXCEPT ![req[w].token].state = "over",
                                   ![n] = [token[req[w].token] EXCEPT !.state = "live"]]
      BY <2>13 DEF CommitRefresh
    <3>3. n \in Token
      BY DEF FirstFree, TypeOK
    <3>4. /\ token' \in [Token -> TokenRow]
          /\ \A m \in Token : token[m].state # "free" => token'[m].state # "free"
      BY <3>1, <3>2, <3>3 DEF TypeOK, TokenRow
    <3>5. req' \in [Workers -> Request]
      BY <2>13, Idle, RequestMoves DEF CommitRefresh, Done
    <3> QED
      BY <2>13, <3>4, <3>5 DEF CommitRefresh, TypeOK
  <2> QED
    BY <1>2, <2>1, <2>2, <2>3, <2>4, <2>5, <2>6, <2>7, <2>8, <2>9, <2>10, <2>11, <2>12, <2>13 DEF Continue
<1>3. ASSUME NEW p \in Phones, Onboard(p) \/ SetActive(p) PROVE TypeOK'
  <2>1. user[p] \in User /\ NewUser(TRUE) \in User
    BY DEF TypeOK, User, NewUser
  <2>2. [user[p] EXCEPT !.active = ~user[p].active] \in User
    BY <2>1 DEF User
  <2>3. \A u \in User : [user EXCEPT ![p] = u] \in [Phones -> User]
    BY DEF TypeOK
  <2>4. CASE Onboard(p)
    BY <2>4, <2>1, <2>3 DEF Onboard, TypeOK
  <2>5. CASE SetActive(p)
    <3>1. user' = [user EXCEPT ![p] = [user[p] EXCEPT !.active = ~user[p].active]]
      BY <2>5 DEF SetActive
    <3> QED
      BY <2>5, <2>2, <2>3, <3>1 DEF SetActive, TypeOK
  <2> QED
    BY <1>3, <2>4, <2>5
<1>4. ASSUME NEW p \in Phones, ForgotPassword(p) PROVE TypeOK'
  <2>1. uses' \in Seq(Nat) /\ Len(uses') = Len(uses) + 1 /\ Len(uses') <= MaxCodes
    BY <1>4, SessionsAssumption DEF ForgotPassword, TypeOK
  <2>2. code' \in [Phones -> 0 .. MaxCodes]
    BY <1>4, <2>1, SessionsAssumption DEF ForgotPassword, TypeOK
  <2> QED
    BY <1>4, <2>1, <2>2 DEF ForgotPassword, TypeOK
<1>5. ASSUME NEW p \in Phones, WindowEnds(p) \/ CodeExpires(p) PROVE TypeOK'
  <2>1. attempts' \in [Phones -> Counter]
    <3>1. NoCounter \in Counter
      BY DEF Counter, NoCounter
    <3> QED
      BY <1>5, <3>1 DEF WindowEnds, CodeExpires, TypeOK
  <2>2. code' \in [Phones -> 0 .. MaxCodes]
    <3>1. 0 \in 0 .. MaxCodes
      BY SessionsAssumption
    <3> QED
      BY <1>5, <3>1 DEF WindowEnds, CodeExpires, TypeOK
  <2> QED
    BY <1>5, <2>1, <2>2 DEF WindowEnds, CodeExpires, TypeOK
<1>6. ASSUME NEW n \in Token, Logout(n) \/ TokenExpires(n) PROVE TypeOK'
  <2>1. token' = [token EXCEPT ![n].state = "over"]
    BY <1>6 DEF Logout, TokenExpires
  <2>2. /\ token' \in [Token -> TokenRow]
        /\ \A m \in Token : token[m].state # "free" => token'[m].state # "free"
    BY <2>1 DEF TypeOK, TokenRow
  <2> QED
    BY <1>6, <2>2 DEF Logout, TokenExpires, TypeOK
<1>7. ASSUME NEW o \in Otp, OtpExpires(o) PROVE TypeOK'
  <2>1. otp' \in [Otp -> OtpRow]
    BY <1>7 DEF OtpExpires, TypeOK, OtpRow
  <2> QED
    BY <1>7, <2>1 DEF OtpExpires, TypeOK
<1>8. CASE Fault
  <2>1. faults' \in 0 .. MaxFaults
    BY <1>8, SessionsAssumption DEF Fault, TypeOK
  <2>2. req' \in [Workers -> Request]
    BY <1>8, Idle, RequestMoves DEF Fault, Done
  <2> QED
    BY <1>8, <2>1, <2>2 DEF Fault, TypeOK
<1> QED
  BY <1>1, <1>2, <1>3, <1>4, <1>5, <1>6, <1>7, <1>8 DEF Next

\* Every state the handlers reach has the types of the tables and the keys.
THEOREM TypeCorrect == Spec => []TypeOK
<1>1. Init => TypeOK
  BY TypeInit
<1>2. TypeOK /\ [Next]_vars => TypeOK'
  <2>1. ASSUME TypeOK, UNCHANGED vars PROVE TypeOK'
    BY <2>1 DEF TypeOK, vars
  <2> QED
    BY <2>1, TypeNext
<1> QED
  BY <1>1, <1>2, PTL DEF Spec

-----------------------------------------------------------------------------
(* The limit on requests for codes *)

\* The handlers that passed the limiter and have yet to count.
Counting(p) == {w \in Workers : At(w, "increment") /\ req[w].phone = p}

\* The strengthening of RequestsLimited: a handler that passed counts already.
LimitInv ==
    \A p \in Phones :
        attempts[p].count + Cardinality(Counting(p)) <= MaxAttempts + Cardinality(Workers) - 1

LEMMA CountingFinite ==
    \A p : /\ IsFiniteSet(Counting(p)) /\ Cardinality(Counting(p)) \in Nat
           /\ Cardinality(Counting(p)) <= Cardinality(Workers)
           /\ Cardinality(Workers) \in Nat /\ Cardinality(Workers) > 0
<1>1. IsFiniteSet(Workers) /\ Cardinality(Workers) \in Nat /\ Cardinality(Workers) # 0
  BY SessionsAssumption, FS_CardinalityType, FS_EmptySet
<1> TAKE p
<1>2. Counting(p) \in SUBSET Workers
  BY DEF Counting
<1> QED
  BY <1>1, <1>2, FS_Subset, FS_CardinalityType

\* A request that does not pass the limiter adds nothing.
LEMMA NotCounting ==
    ASSUME TypeOK, NEW w \in Workers, NEW r \in Request, r.pc # "increment", Goto(w, r)
    PROVE  \A p : Counting(p)' \subseteq Counting(p)
BY DEF TypeOK, Goto, Counting, At

LEMMA LimitQuiet ==
    ASSUME TypeOK, TypeOK', LimitInv,
           \A p \in Phones : attempts'[p].count \in {0, attempts[p].count},
           \A p \in Phones : Counting(p)' \subseteq Counting(p)
    PROVE  LimitInv'
<1> SUFFICES ASSUME NEW p \in Phones
             PROVE  attempts'[p].count + Cardinality(Counting(p)') <= MaxAttempts + Cardinality(Workers) - 1
  BY DEF LimitInv
<1>1. Cardinality(Counting(p)') <= Cardinality(Counting(p)) /\ Cardinality(Counting(p)') \in Nat
  <2>1. IsFiniteSet(Counting(p)) /\ Counting(p)' \in SUBSET Counting(p)
    BY CountingFinite
  <2> QED
    BY <2>1, FS_Subset, FS_CardinalityType
<1>2. /\ attempts[p].count \in Nat /\ attempts'[p].count \in Nat
      /\ attempts'[p].count \in {0, attempts[p].count}
  BY DEF TypeOK, Counter
<1>3. attempts[p].count + Cardinality(Counting(p)) <= MaxAttempts + Cardinality(Workers) - 1
  BY DEF LimitInv
<1> QED
  BY <1>1, <1>2, <1>3, CountingFinite, SessionsAssumption

LEMMA LimitInit == Init => LimitInv
<1> SUFFICES ASSUME Init, NEW p \in Phones
             PROVE  attempts[p].count + Cardinality(Counting(p)) <= MaxAttempts + Cardinality(Workers) - 1
  BY DEF LimitInv
<1>1. attempts[p].count = 0 /\ Counting(p) = {}
  BY DEF Init, NoCounter, Counting, At
<1> QED
  BY <1>1, CountingFinite, FS_EmptySet, SessionsAssumption

\* The limiter lets a handler pass below the limit, and no handler that passed
\* before is this one.
LEMMA LimitRequestOtp ==
    ASSUME TypeOK, LimitInv, NEW w \in Workers, NEW q \in Phones, RequestOtp(w, q)
    PROVE  LimitInv'
<1> SUFFICES ASSUME NEW p \in Phones
             PROVE  attempts'[p].count + Cardinality(Counting(p)') <= MaxAttempts + Cardinality(Workers) - 1
  BY DEF LimitInv
<1>1. /\ attempts' = attempts /\ attempts[q].count < MaxAttempts
      /\ At(w, "idle") /\ req' = [req EXCEPT ![w] = [pc |-> "increment", phone |-> q]]
  BY DEF RequestOtp, Goto
<1>2. attempts[p].count \in Nat /\ attempts[p].count + Cardinality(Counting(p)) <= MaxAttempts + Cardinality(Workers) - 1
  BY DEF LimitInv, TypeOK, Counter
<1>3. CASE p = q
  <2>1. Counting(p)' \in SUBSET Workers
    BY DEF Counting
  <2>2. Cardinality(Counting(p)') <= Cardinality(Workers) /\ Cardinality(Counting(p)') \in Nat
    BY <2>1, SessionsAssumption, FS_Subset, FS_CardinalityType
  <2> QED
    BY <1>1, <1>2, <1>3, <2>2, CountingFinite, SessionsAssumption
<1>4. CASE p # q
  <2>1. Counting(p)' = Counting(p)
    BY <1>1, <1>4 DEF Counting, At, TypeOK
  <2> QED
    BY <1>1, <1>2, <2>1
<1> QED
  BY <1>3, <1>4

\* A handler that counts is no longer about to.
LEMMA LimitIncrement ==
    ASSUME TypeOK, LimitInv, NEW w \in Workers, Increment(w)
    PROVE  LimitInv'
<1> SUFFICES ASSUME NEW p \in Phones
             PROVE  attempts'[p].count + Cardinality(Counting(p)') <= MaxAttempts + Cardinality(Workers) - 1
  BY DEF LimitInv
<1> DEFINE q == req[w].phone
           r == [req[w] EXCEPT !.pc = IF attempts[q].count = 0 THEN "expire" ELSE "account"]
<1>1. /\ At(w, "increment") /\ q \in Phones /\ Goto(w, r) /\ r \in Request /\ r.pc # "increment"
      /\ attempts' = [attempts EXCEPT ![q].count = @ + 1, ![q].passed = @ + 1]
  <2>1. /\ At(w, "increment") /\ Goto(w, r)
        /\ attempts' = [attempts EXCEPT ![q].count = @ + 1, ![q].passed = @ + 1]
    BY DEF Increment
  <2>2. q \in Phones /\ r \in Request
    BY <2>1, Carried DEF At
  <2>3. r.pc \in {"expire", "account"}
    BY <2>1, Carried DEF At
  <2> QED
    BY <2>1, <2>2, <2>3
<1>2. attempts[p].count \in Nat /\ attempts[p].count + Cardinality(Counting(p)) <= MaxAttempts + Cardinality(Workers) - 1
  BY DEF LimitInv, TypeOK, Counter
<1>3. Counting(p)' \subseteq Counting(p)
  BY <1>1, NotCounting
<1>4. CASE p = q
  <2>1. attempts'[p].count = attempts[p].count + 1
    BY <1>1, <1>4 DEF TypeOK, Counter
  <2>2. w \in Counting(p) /\ w \notin Counting(p)'
    BY <1>1, <1>4 DEF Counting, At, Goto, TypeOK
  <2>3. Counting(p)' \in SUBSET (Counting(p) \ {w})
    BY <1>3, <2>2
  <2>4. /\ IsFiniteSet(Counting(p) \ {w})
        /\ Cardinality(Counting(p) \ {w}) = Cardinality(Counting(p)) - 1
    BY <2>2, CountingFinite, FS_RemoveElement
  <2>5. Cardinality(Counting(p)') <= Cardinality(Counting(p)) - 1 /\ Cardinality(Counting(p)') \in Nat
    BY <2>3, <2>4, FS_Subset, FS_CardinalityType
  <2> QED
    BY <1>2, <2>1, <2>5, CountingFinite, SessionsAssumption
<1>5. CASE p # q
  <2>1. attempts'[p] = attempts[p]
    BY <1>1, <1>5 DEF TypeOK
  <2>2. Cardinality(Counting(p)') <= Cardinality(Counting(p)) /\ Cardinality(Counting(p)') \in Nat
    BY <1>3, CountingFinite, FS_Subset, FS_CardinalityType
  <2> QED
    BY <1>2, <2>1, <2>2, CountingFinite, SessionsAssumption
<1> QED
  BY <1>4, <1>5

LEMMA LimitNext == ASSUME TypeOK, LimitInv, Next PROVE LimitInv'
<1>0. TypeOK'
  BY TypeNext
<1>1. ASSUME NEW w \in Workers, NEW r \in Request, r.pc # "increment", Goto(w, r),
             \A p \in Phones : attempts'[p].count \in {0, attempts[p].count}
      PROVE  LimitInv'
  BY <1>0, <1>1, NotCounting, LimitQuiet
<1>2. ASSUME UNCHANGED req, \A p \in Phones : attempts'[p].count \in {0, attempts[p].count}
      PROVE  LimitInv'
  <2>1. \A p \in Phones : Counting(p)' \subseteq Counting(p)
    BY <1>2 DEF Counting, At
  <2> QED
    BY <1>0, <1>2, <2>1, LimitQuiet
<1>3. [pc |-> "idle"] \in Request /\ [pc |-> "idle"].pc # "increment"
  BY Idle
<1>4. ASSUME NEW w \in Workers, Arrive(w) PROVE LimitInv'
  <2>1. ASSUME NEW p \in Phones, RequestOtp(w, p) PROVE LimitInv'
    BY <2>1, LimitRequestOtp
  <2>2. ASSUME ~ \E p \in Phones : RequestOtp(w, p) PROVE LimitInv'
    <3>1. /\ UNCHANGED attempts
          /\ Goto(w, req'[w]) /\ req'[w] \in Request /\ req'[w].pc # "increment"
      <4>1. w \in DOMAIN req /\ req'[w] \in Request
        BY <1>0 DEF TypeOK
      <4> QED
        BY <1>4, <2>2, <4>1
        DEF Arrive, VerifyStart, RegisterStart, LoginStart, ChangeStart, ResetStart, RefreshStart, Goto
    <3> QED
      BY <1>1, <3>1
  <2> QED
    BY <2>1, <2>2
<1>5. ASSUME NEW w \in Workers, Continue(w) PROVE LimitInv'
  <2>1. CASE Increment(w)
    BY <2>1, LimitIncrement
  <2>2. CASE SetExpiry(w)
    <3>1. [req[w] EXCEPT !.pc = "account"] \in Request /\ [req[w] EXCEPT !.pc = "account"].pc = "account"
      BY <2>2, Carried DEF SetExpiry, At
    <3>2. \A p \in Phones : attempts'[p].count = attempts[p].count
      BY <2>2 DEF SetExpiry, TypeOK, Counter
    <3> QED
      BY <2>2, <3>1, <3>2, <1>1 DEF SetExpiry
  <2>3. CASE FindAccount(w)
    <3>1. UNCHANGED attempts /\ Goto(w, req'[w]) /\ req'[w] \in Request /\ req'[w].pc # "increment"
      <4>1. w \in DOMAIN req /\ req'[w] \in Request
        BY <1>0 DEF TypeOK
      <4> QED
        BY <2>3, <4>1 DEF FindAccount, Goto, Done
    <3> QED
      BY <1>1, <3>1
  <2>4. CASE ClearAttempts(w)
    <3>1. [req[w] EXCEPT !.pc = "open"] \in Request /\ [req[w] EXCEPT !.pc = "open"].pc = "open"
      BY <2>4, Carried DEF ClearAttempts, At
    <3>2. \A p \in Phones : attempts'[p].count \in {0, attempts[p].count}
      BY <2>4 DEF ClearAttempts, TypeOK, Counter, NoCounter
    <3> QED
      BY <2>4, <3>1, <3>2, <1>1 DEF ClearAttempts
  <2>5. CASE CommitReset(w)
    <3>1. [req[w] EXCEPT !.pc = "forget"] \in Request /\ [req[w] EXCEPT !.pc = "forget"].pc = "forget"
      BY <2>5, Carried DEF CommitReset, At
    <3> QED
      BY <2>5, <3>1, <1>1 DEF CommitReset
  <2>6. CASE \/ CommitOtp(w) \/ NotUnique(w) \/ CommitVerify(w) \/ CommitRegister(w) \/ CommitLogin(w)
             \/ CommitChange(w) \/ ForgetCode(w) \/ CommitRefresh(w)
    <3>1. Done(w) /\ UNCHANGED attempts
      BY <2>6 DEF CommitOtp, NotUnique, CommitVerify, CommitRegister, CommitLogin, CommitChange, ForgetCode, CommitRefresh
    <3> QED
      BY <3>1, <1>1, Idle DEF Done
  <2> QED
    BY <1>5, <2>1, <2>2, <2>3, <2>4, <2>5, <2>6 DEF Continue
<1>6. ASSUME NEW p \in Phones,
             Onboard(p) \/ ForgotPassword(p) \/ SetActive(p) \/ CodeExpires(p)
      PROVE  LimitInv'
  BY <1>6, <1>2 DEF Onboard, ForgotPassword, SetActive, CodeExpires
<1>7. ASSUME NEW p \in Phones, WindowEnds(p) PROVE LimitInv'
  <2>1. \A q \in Phones : attempts'[q].count \in {0, attempts[q].count}
    BY <1>7 DEF WindowEnds, TypeOK, NoCounter
  <2> QED
    BY <1>7, <2>1, <1>2 DEF WindowEnds
<1>8. ASSUME NEW n \in Token, Logout(n) \/ TokenExpires(n) PROVE LimitInv'
  BY <1>8, <1>2 DEF Logout, TokenExpires
<1>9. ASSUME NEW o \in Otp, OtpExpires(o) PROVE LimitInv'
  BY <1>9, <1>2 DEF OtpExpires
<1>10. CASE Fault
  <2>1. \A p \in Phones : Counting(p)' \subseteq Counting(p)
    <3>1. CASE \E w \in Workers : Done(w)
      BY <3>1, NotCounting, Idle DEF Done
    <3>2. CASE req' = [w \in Workers |-> [pc |-> "idle"]]
      BY <3>2 DEF Counting, At
    <3> QED
      BY <1>10, <3>1, <3>2 DEF Fault
  <2> QED
    BY <1>0, <1>10, <2>1, LimitQuiet DEF Fault
<1> QED
  BY <1>4, <1>5, <1>6, <1>7, <1>8, <1>9, <1>10 DEF Next

\* The most the counter reaches.
Limit == MaxAttempts + Cardinality(Workers) - 1

\* What passed in a window is in the counter or was cut off it by a login.
WindowInv == \A p \in Phones : attempts[p].passed <= attempts[p].count + Limit * attempts[p].resets

LEMMA LimitType == Limit \in Nat
BY CountingFinite, SessionsAssumption DEF Limit

\* The counters of a handler that asks nothing of the limiter.
LEMMA WindowQuiet ==
    ASSUME TypeOK, WindowInv,
           \A p \in Phones : /\ attempts'[p].count = attempts[p].count
                             /\ attempts'[p].passed = attempts[p].passed
                             /\ attempts'[p].resets = attempts[p].resets
    PROVE  WindowInv'
<1>1. Limit' = Limit
  BY DEF Limit
<1> QED
  BY <1>1 DEF WindowInv

LEMMA WindowIncrement ==
    ASSUME TypeOK, WindowInv, NEW w \in Workers, Increment(w)
    PROVE  WindowInv'
<1>1. PICK q \in Phones : attempts' = [attempts EXCEPT ![q].count = @ + 1, ![q].passed = @ + 1]
  BY Carried DEF Increment, At
<1>2. attempts \in [Phones -> Counter]
  BY DEF TypeOK
<1> SUFFICES ASSUME NEW p \in Phones
             PROVE  attempts'[p].passed <= attempts'[p].count + Limit * attempts'[p].resets
  BY DEF WindowInv, Limit
<1>3. /\ attempts[p].passed \in Nat /\ attempts[p].count \in Nat /\ Limit * attempts[p].resets \in Nat
      /\ attempts[p].passed <= attempts[p].count + Limit * attempts[p].resets
  BY <1>2, LimitType DEF WindowInv, Counter
<1>4. CASE p = q
  <2>1. attempts'[p] = [attempts[p] EXCEPT !.count = attempts[p].count + 1, !.passed = attempts[p].passed + 1]
    BY <1>1, <1>2, <1>4
  <2>2. /\ attempts'[p].count = attempts[p].count + 1 /\ attempts'[p].passed = attempts[p].passed + 1
        /\ attempts'[p].resets = attempts[p].resets
    BY <1>2, <2>1 DEF Counter
  <2>3. \A x, y, z \in Nat : x <= y + z => x + 1 <= (y + 1) + z
    OBVIOUS
  <2> QED
    BY <1>3, <2>2, <2>3
<1>5. CASE p # q
  BY <1>1, <1>2, <1>3, <1>5
<1> QED
  BY <1>4, <1>5

\* A login cuts off what the counter held, which is no more than Limit.
LEMMA WindowClear ==
    ASSUME TypeOK, LimitInv, WindowInv, NEW w \in Workers, ClearAttempts(w)
    PROVE  WindowInv'
<1>1. PICK q \in Phones :
        attempts' = [attempts EXCEPT ![q].count = 0, ![q].expires = FALSE, ![q].resets = @ + 1]
  BY Carried DEF ClearAttempts, At
<1>2. attempts \in [Phones -> Counter]
  BY DEF TypeOK
<1> SUFFICES ASSUME NEW p \in Phones
             PROVE  attempts'[p].passed <= attempts'[p].count + Limit * attempts'[p].resets
  BY DEF WindowInv, Limit
<1>3. /\ attempts[p].passed \in Nat /\ attempts[p].count \in Nat /\ attempts[p].resets \in Nat
      /\ attempts[p].passed <= attempts[p].count + Limit * attempts[p].resets
  BY <1>2 DEF WindowInv, Counter
<1>4. CASE p = q
  <2>1. attempts'[p] = [attempts[p] EXCEPT !.count = 0, !.expires = FALSE, !.resets = attempts[p].resets + 1]
    BY <1>1, <1>2, <1>4
  <2>2. /\ attempts'[p].count = 0 /\ attempts'[p].passed = attempts[p].passed
        /\ attempts'[p].resets = attempts[p].resets + 1
    BY <1>2, <2>1 DEF Counter
  <2>3. attempts[p].count <= Limit
    BY <1>3, CountingFinite, SessionsAssumption DEF LimitInv, Limit
  <2>4. \A x, y, z, l \in Nat : x <= y + l * z /\ y <= l => x <= 0 + l * (z + 1)
    OBVIOUS
  <2> QED
    BY <1>3, <2>2, <2>3, <2>4, LimitType
<1>5. CASE p # q
  BY <1>1, <1>2, <1>3, <1>5
<1> QED
  BY <1>4, <1>5

LEMMA WindowNext == ASSUME TypeOK, LimitInv, WindowInv, Next PROVE WindowInv'
<1>1. ASSUME UNCHANGED attempts PROVE WindowInv'
  BY <1>1, WindowQuiet
<1>2. ASSUME NEW w \in Workers, Arrive(w) PROVE UNCHANGED attempts
  BY <1>2 DEF Arrive, RequestOtp, VerifyStart, RegisterStart, LoginStart, ChangeStart, ResetStart, RefreshStart
<1>3. ASSUME NEW w \in Workers, Continue(w) PROVE WindowInv'
  <2>1. CASE Increment(w)
    BY <2>1, WindowIncrement
  <2>2. CASE ClearAttempts(w)
    BY <2>2, WindowClear
  <2>3. CASE SetExpiry(w)
    <3>1. PICK q \in Phones : attempts' = [attempts EXCEPT ![q].expires = attempts[q].count > 0]
      BY <2>3, Carried DEF SetExpiry, At
    <3>2. attempts \in [Phones -> Counter]
      BY DEF TypeOK
    <3>3. \A b : /\ [attempts[q] EXCEPT !.expires = b].count = attempts[q].count
                 /\ [attempts[q] EXCEPT !.expires = b].passed = attempts[q].passed
                 /\ [attempts[q] EXCEPT !.expires = b].resets = attempts[q].resets
      BY <3>2 DEF Counter
    <3> QED
      BY <3>1, <3>2, <3>3, WindowQuiet
  <2>4. CASE ~Increment(w) /\ ~ClearAttempts(w) /\ ~SetExpiry(w)
    <3>1. UNCHANGED attempts
      BY <1>3, <2>4 DEF Continue, FindAccount, CommitOtp, NotUnique, CommitVerify, CommitRegister, CommitLogin,
                        CommitChange, CommitReset, ForgetCode, CommitRefresh
    <3> QED
      BY <1>1, <3>1
  <2> QED
    BY <2>1, <2>2, <2>3, <2>4
<1>4. ASSUME NEW p \in Phones, WindowEnds(p) PROVE WindowInv'
  <2>1. attempts \in [Phones -> Counter] /\ attempts' = [attempts EXCEPT ![p] = NoCounter]
    BY <1>4 DEF TypeOK, WindowEnds
  <2>2. Limit * 0 = 0
    BY LimitType
  <2> QED
    BY <2>1, <2>2 DEF WindowInv, NoCounter, Limit
<1>5. ASSUME \/ \E p \in Phones : Onboard(p) \/ ForgotPassword(p) \/ SetActive(p) \/ CodeExpires(p)
             \/ \E n \in Token : Logout(n) \/ TokenExpires(n)
             \/ \E o \in Otp : OtpExpires(o)
             \/ Fault
      PROVE  UNCHANGED attempts
  BY <1>5 DEF Onboard, ForgotPassword, SetActive, CodeExpires, Logout, TokenExpires, OtpExpires, Fault
<1> QED
  BY <1>1, <1>2, <1>3, <1>4, <1>5 DEF Next

\* OTPRateLimiter: however many handlers ask it together, a window lets no more
\* requests of a phone number pass than the limit and those in flight with the
\* last of them, once and again for each login, which deletes the counter.
THEOREM RequestsLimitedAlways == Spec => []RequestsLimited
<1>1. Init => TypeOK /\ LimitInv /\ WindowInv
  <2>1. Init => WindowInv
    <3>1. Limit * 0 = 0
      BY LimitType
    <3> QED
      BY <3>1 DEF Init, WindowInv, NoCounter
  <2> QED
    BY <2>1, TypeInit, LimitInit
<1>2. TypeOK /\ LimitInv /\ WindowInv /\ [Next]_vars => TypeOK' /\ LimitInv' /\ WindowInv'
  <2>1. ASSUME TypeOK, LimitInv, WindowInv, UNCHANGED vars PROVE TypeOK' /\ LimitInv' /\ WindowInv'
    <3>1. TypeOK' /\ LimitInv'
      BY <2>1 DEF TypeOK, LimitInv, Counting, At, vars
    <3> QED
      BY <2>1, <3>1, WindowQuiet DEF vars
  <2> QED
    BY <2>1, TypeNext, LimitNext, WindowNext
<1>3. TypeOK /\ LimitInv /\ WindowInv => RequestsLimited
  <2> SUFFICES ASSUME TypeOK, LimitInv, WindowInv, NEW p \in Phones
               PROVE  attempts[p].passed <= Limit * (1 + attempts[p].resets)
    BY DEF RequestsLimited, Limit
  <2>1. /\ attempts[p].passed \in Nat /\ attempts[p].count \in Nat /\ attempts[p].resets \in Nat
        /\ attempts[p].passed <= attempts[p].count + Limit * attempts[p].resets
    BY DEF TypeOK, WindowInv, Counter
  <2>2. attempts[p].count <= Limit
    BY <2>1, CountingFinite, SessionsAssumption DEF LimitInv, Limit
  <2>3. \A x, y, z, l \in Nat : x <= y + l * z /\ y <= l => x <= l * (1 + z)
    OBVIOUS
  <2> QED
    BY <2>1, <2>2, <2>3, LimitType
<1> QED
  BY <1>1, <1>2, <1>3, PTL DEF Spec

-----------------------------------------------------------------------------
(* Rotation of refresh tokens *)

\* The live tokens that descend from the token of a login, and the handlers
\* that rotate it.
Later(n) == {m \in Token \ {n} : token[m].root = n /\ token[m].state = "live"}

Refreshing(n) == {w \in Workers : At(w, "refresh") /\ req[w].token = n}

\* The strengthening of RotationReplaces: what a client holds is the token of
\* a login, which has no descendants while it is live.
RotationInv ==
    /\ \A m \in Token : token[m].state # "free" => token[m].root \in held
    /\ \A m \in held : token[m].root = m
    /\ \A w \in Workers : At(w, "refresh") => req[w].token \in held
    /\ \A n \in held :
         /\ token[n].state = "live" => Later(n) = {}
         /\ Cardinality(Later(n)) + Cardinality(Refreshing(n)) <= Cardinality(Workers)

LEMMA Smaller ==
    ASSUME NEW S, IsFiniteSet(S), NEW T, T \subseteq S
    PROVE  /\ IsFiniteSet(T) /\ Cardinality(T) \in Nat /\ Cardinality(S) \in Nat
           /\ Cardinality(T) <= Cardinality(S)
BY FS_Subset, FS_CardinalityType

LEMMA TokensFinite == IsFiniteSet(Token) /\ IsFiniteSet(Workers) /\ Cardinality(Workers) \in Nat \ {0}
BY SessionsAssumption, FS_Interval, FS_CardinalityType, FS_EmptySet DEF Token

\* A token is issued to a client in a row that was free.
LEMMA Issued ==
    ASSUME TypeOK, NEW p \in Phones, NEW o \in 0 .. MaxOtps, Issue(p, o)
    PROVE  \E n \in Token :
             /\ token[n].state = "free" /\ n \notin held /\ held' = held \cup {n}
             /\ \A m \in Token : token'[m] = IF m = n THEN [phone |-> p, state |-> "live", root |-> n, otp |-> o]
                                                      ELSE token[m]
<1>1. PICK n \in FirstFree(token) :
        /\ token' = [token EXCEPT ![n] = [phone |-> p, state |-> "live", root |-> n, otp |-> o]]
        /\ held' = held \cup {n}
  BY DEF Issue
<1>2. n \in Token /\ token[n].state = "free" /\ token \in [Token -> TokenRow]
  BY DEF TypeOK, FirstFree
<1>3. n \notin held
  BY <1>2 DEF TypeOK
<1>4. \A m \in Token : token'[m] = IF m = n THEN [phone |-> p, state |-> "live", root |-> n, otp |-> o] ELSE token[m]
  BY <1>1, <1>2
<1> QED
  BY <1>1, <1>2, <1>3, <1>4

LEMMA RotationInit == Init => RotationInv
BY DEF Init, RotationInv, At

\* Tokens end, handlers end or do something else.
LEMMA RotationQuiet ==
    ASSUME TypeOK, TypeOK', RotationInv, held' = held,
           \A m \in Token : /\ token'[m].root = token[m].root
                            /\ \/ token'[m].state = token[m].state
                               \/ token[m].state = "live" /\ token'[m].state = "over",
           \A w \in Workers : req'[w].pc = "refresh" => req'[w] = req[w]
    PROVE  RotationInv'
<1>1. \A m \in Token : token'[m].state # "free" => token'[m].root \in held'
  BY DEF RotationInv
<1>2. \A m \in held' : token'[m].root = m
  BY DEF RotationInv, TypeOK
<1>3. \A w \in Workers : At(w, "refresh")' => req'[w].token \in held'
  BY DEF RotationInv, At
<1>4. ASSUME NEW n \in held'
      PROVE  /\ token'[n].state = "live" => Later(n)' = {}
             /\ Cardinality(Later(n)') + Cardinality(Refreshing(n)') <= Cardinality(Workers)
  <2>1. n \in held /\ n \in Token
    BY <1>4 DEF TypeOK
  <2>2. Later(n)' \subseteq Later(n) /\ Later(n) \subseteq Token
    BY DEF Later
  <2>3. Refreshing(n)' \subseteq Refreshing(n) /\ Refreshing(n) \subseteq Workers
    BY DEF Refreshing, At
  <2>4. IsFiniteSet(Later(n)) /\ IsFiniteSet(Refreshing(n))
    BY <2>2, <2>3, TokensFinite, Smaller
  <2>5. /\ Cardinality(Later(n)') <= Cardinality(Later(n))
        /\ Cardinality(Later(n)') \in Nat /\ Cardinality(Later(n)) \in Nat
    BY <2>2, <2>4, Smaller
  <2>6. /\ Cardinality(Refreshing(n)') <= Cardinality(Refreshing(n))
        /\ Cardinality(Refreshing(n)') \in Nat /\ Cardinality(Refreshing(n)) \in Nat
    BY <2>3, <2>4, Smaller
  <2>7. token'[n].state = "live" => Later(n)' = {}
    BY <2>1, <2>2 DEF RotationInv
  <2>8. Cardinality(Later(n)) + Cardinality(Refreshing(n)) <= Cardinality(Workers)
    BY <2>1 DEF RotationInv
  <2> QED
    BY <2>5, <2>6, <2>7, <2>8, TokensFinite
<1> QED
  BY <1>1, <1>2, <1>3, <1>4 DEF RotationInv

LEMMA RotationRefreshStart ==
    ASSUME TypeOK, RotationInv, NEW w \in Workers, NEW k \in Token, RefreshStart(w, k)
    PROVE  RotationInv'
<1>1. /\ k \in held /\ token[k].state = "live" /\ token' = token /\ held' = held
      /\ At(w, "idle") /\ req' = [req EXCEPT ![w] = [pc |-> "refresh", token |-> k]]
  BY DEF RefreshStart, Goto
<1>2. \A x \in Workers : At(x, "refresh")' => req'[x].token \in held'
  BY <1>1 DEF RotationInv, At, TypeOK
<1>3. ASSUME NEW n \in held'
      PROVE  /\ token'[n].state = "live" => Later(n)' = {}
             /\ Cardinality(Later(n)') + Cardinality(Refreshing(n)') <= Cardinality(Workers)
  <2>1. n \in held /\ Later(n)' = Later(n)
    BY <1>1, <1>3 DEF Later
  <2>2. CASE n = k
    <3>1. Later(n) = {} /\ Refreshing(n)' \subseteq Workers
      BY <1>1, <2>1, <2>2 DEF RotationInv, Refreshing
    <3>2. Cardinality(Refreshing(n)') <= Cardinality(Workers) /\ Cardinality(Refreshing(n)') \in Nat
      BY <3>1, TokensFinite, Smaller
    <3> QED
      BY <2>1, <3>1, <3>2, FS_EmptySet
  <2>3. CASE n # k
    <3>1. Refreshing(n)' = Refreshing(n)
      BY <1>1, <2>3 DEF Refreshing, At, TypeOK
    <3> QED
      BY <1>1, <2>1, <3>1 DEF RotationInv
  <2> QED
    BY <2>2, <2>3
<1> QED
  BY <1>1, <1>2, <1>3 DEF RotationInv

\* A login: the new token has no descendants and no handler rotates it.
LEMMA RotationIssue ==
    ASSUME TypeOK, RotationInv, NEW p \in Phones, NEW o \in 0 .. MaxOtps, Issue(p, o),
           NEW w \in Workers, Done(w)
    PROVE  RotationInv'
<1>1. PICK k \in Token :
        /\ token[k].state = "free" /\ k \notin held /\ held' = held \cup {k}
        /\ \A m \in Token : token'[m] = IF m = k THEN [phone |-> p, state |-> "live", root |-> k, otp |-> o]
                                                 ELSE token[m]
  BY Issued
<1>2. \A x \in Workers : req'[x].pc = "refresh" => req'[x] = req[x]
  BY DEF Done, Goto, TypeOK
<1>3. \A m \in Token : token'[m].state # "free" => token'[m].root \in held'
  BY <1>1 DEF RotationInv
<1>4. \A m \in held' : token'[m].root = m
  BY <1>1 DEF RotationInv, TypeOK
<1>5. \A x \in Workers : At(x, "refresh")' => req'[x].token \in held'
  BY <1>1, <1>2 DEF RotationInv, At
<1>6. ASSUME NEW n \in held'
      PROVE  /\ token'[n].state = "live" => Later(n)' = {}
             /\ Cardinality(Later(n)') + Cardinality(Refreshing(n)') <= Cardinality(Workers)
  <2>1. Refreshing(n)' \subseteq Refreshing(n) /\ Refreshing(n) \subseteq Workers
    BY <1>2 DEF Refreshing, At
  <2>2. IsFiniteSet(Refreshing(n))
    BY <2>1, TokensFinite, Smaller
  <2>3. /\ Cardinality(Refreshing(n)') <= Cardinality(Refreshing(n)) /\ Cardinality(Refreshing(n)') \in Nat
        /\ Cardinality(Refreshing(n)) <= Cardinality(Workers) /\ Cardinality(Refreshing(n)) \in Nat
    BY <2>1, <2>2, TokensFinite, Smaller
  <2>4. CASE n = k
    <3>1. Later(n)' = {}
      BY <1>1, <2>4 DEF RotationInv, Later
    <3> QED
      BY <2>3, <3>1, FS_EmptySet, TokensFinite
  <2>5. CASE n # k
    <3>1. n \in held /\ n \in Token /\ token'[n] = token[n]
      BY <1>1, <1>6, <2>5 DEF TypeOK
    <3>2. Later(n)' = Later(n)
      BY <1>1, <2>5 DEF Later
    <3>3. Later(n) \subseteq Token
      BY DEF Later
    <3>4. Cardinality(Later(n)) \in Nat
      BY <3>3, TokensFinite, Smaller
    <3> QED
      BY <2>3, <3>1, <3>2, <3>4, TokensFinite DEF RotationInv
  <2> QED
    BY <2>4, <2>5
<1> QED
  BY <1>3, <1>4, <1>5, <1>6 DEF RotationInv

\* A rotation: one handler fewer is about to rotate, one descendant more.
LEMMA RotationRefresh ==
    ASSUME TypeOK, RotationInv, NEW w \in Workers, CommitRefresh(w)
    PROVE  RotationInv'
<1> DEFINE t == req[w].token
<1>1. At(w, "refresh") /\ t \in held /\ t \in Token /\ token[t].root = t /\ held' = held
  BY DEF CommitRefresh, RotationInv, TypeOK
<1>2. PICK k \in FirstFree(token) :
        token' = [token EXCEPT ![t].state = "over", ![k] = [token[t] EXCEPT !.state = "live"]]
  BY DEF CommitRefresh
<1>3. k \in Token /\ token[k].state = "free" /\ k \notin held /\ k # t
  BY <1>1 DEF FirstFree, TypeOK
<1>4. \A m \in Token : token'[m] = IF m = k THEN [token[t] EXCEPT !.state = "live"]
                                   ELSE IF m = t THEN [token[t] EXCEPT !.state = "over"]
                                   ELSE token[m]
  BY <1>1, <1>2, <1>3 DEF TypeOK
<1>5. /\ token'[k].root = t /\ token'[k].state = "live"
      /\ token'[t].root = t /\ token'[t].state = "over"
  <2>1. token[t] \in TokenRow
    BY <1>1 DEF TypeOK
  <2>2. \A r \in TokenRow : \A st : /\ [r EXCEPT !.state = st].root = r.root
                                    /\ [r EXCEPT !.state = st].state = st
    BY DEF TokenRow
  <2>3. token'[k] = [token[t] EXCEPT !.state = "live"] /\ token'[t] = [token[t] EXCEPT !.state = "over"]
    BY <1>1, <1>3, <1>4
  <2> QED
    BY <1>1, <2>1, <2>2, <2>3
<1>6. \A x \in Workers : req'[x].pc = "refresh" => req'[x] = req[x] /\ x # w
  BY DEF CommitRefresh, Done, Goto, TypeOK
<1>7. \A m \in Token : token'[m].state # "free" => token'[m].root \in held'
  BY <1>1, <1>4, <1>5 DEF RotationInv
<1>8. \A m \in held' : token'[m].root = m
  BY <1>1, <1>3, <1>4, <1>5 DEF RotationInv, TypeOK
<1>9. \A x \in Workers : At(x, "refresh")' => req'[x].token \in held'
  BY <1>1, <1>6 DEF RotationInv, At
<1>10. ASSUME NEW n \in held'
       PROVE  /\ token'[n].state = "live" => Later(n)' = {}
              /\ Cardinality(Later(n)') + Cardinality(Refreshing(n)') <= Cardinality(Workers)
  <2>1. Refreshing(n)' \subseteq Refreshing(n) /\ Refreshing(n) \subseteq Workers
    BY <1>6 DEF Refreshing, At
  <2>2. IsFiniteSet(Refreshing(n))
    BY <2>1, TokensFinite, Smaller
  <2>3. Later(n) \subseteq Token
    BY DEF Later
  <2>4. IsFiniteSet(Later(n)) /\ Cardinality(Later(n)) \in Nat
    BY <2>3, TokensFinite, Smaller
  <2>5. n \in held /\ n \in Token
    BY <1>1, <1>10 DEF TypeOK
  <2>6. Cardinality(Later(n)) + Cardinality(Refreshing(n)) <= Cardinality(Workers)
    BY <2>5 DEF RotationInv
  <2>7. CASE n = t
    <3>1. Later(n)' \subseteq Later(n) \cup {k}
      <4>1. \A m \in Token \ {k, t} : token'[m] = token[m]
        BY <1>4
      <4> QED
        BY <4>1, <2>7 DEF Later
    <3>2. IsFiniteSet(Later(n) \cup {k}) /\ Cardinality(Later(n) \cup {k}) <= Cardinality(Later(n)) + 1
      <4>1. /\ IsFiniteSet(Later(n) \cup {k})
            /\ Cardinality(Later(n) \cup {k}) = IF k \in Later(n) THEN Cardinality(Later(n)) ELSE Cardinality(Later(n)) + 1
        BY <2>4, FS_AddElement
      <4> QED
        BY <2>4, <4>1
    <3>3. Cardinality(Later(n)') <= Cardinality(Later(n)) + 1 /\ Cardinality(Later(n)') \in Nat
      BY <2>4, <3>1, <3>2, Smaller
    <3>4. w \in Refreshing(n) /\ w \notin Refreshing(n)'
      BY <1>1, <1>6, <2>7 DEF Refreshing, At
    <3>5. IsFiniteSet(Refreshing(n) \ {w}) /\ Cardinality(Refreshing(n) \ {w}) = Cardinality(Refreshing(n)) - 1
      BY <2>2, <3>4, FS_RemoveElement
    <3>6. Refreshing(n)' \subseteq Refreshing(n) \ {w}
      BY <2>1, <3>4
    <3>7. /\ Cardinality(Refreshing(n)') <= Cardinality(Refreshing(n)) - 1
          /\ Cardinality(Refreshing(n)') \in Nat /\ Cardinality(Refreshing(n)) \in Nat
      BY <2>2, <3>5, <3>6, Smaller, FS_CardinalityType
    <3>8. token'[n].state # "live"
      BY <1>5, <2>7
    <3> QED
      BY <2>4, <2>6, <3>3, <3>7, <3>8, TokensFinite
  <2>8. CASE n # t
    <3>1. token'[n] = token[n]
      BY <1>1, <1>3, <1>4, <2>5, <2>8
    <3>2. Later(n)' \subseteq Later(n)
      BY <1>4, <1>5, <2>8 DEF Later
    <3>3. Cardinality(Later(n)') <= Cardinality(Later(n)) /\ Cardinality(Later(n)') \in Nat
      BY <2>4, <3>2, Smaller
    <3>4. /\ Cardinality(Refreshing(n)') <= Cardinality(Refreshing(n))
          /\ Cardinality(Refreshing(n)') \in Nat /\ Cardinality(Refreshing(n)) \in Nat
      BY <2>1, <2>2, Smaller
    <3>5. token'[n].state = "live" => Later(n)' = {}
      BY <2>5, <3>1, <3>2 DEF RotationInv
    <3> QED
      BY <2>4, <2>6, <3>3, <3>4, <3>5, TokensFinite
  <2> QED
    BY <2>7, <2>8
<1> QED
  BY <1>7, <1>8, <1>9, <1>10 DEF RotationInv

LEMMA RotationNext == ASSUME TypeOK, RotationInv, Next PROVE RotationInv'
<1>1. TypeOK'
  BY TypeNext
<1>2. ASSUME NEW w \in Workers, Goto(w, req'[w]), req'[w].pc # "refresh", UNCHANGED <<token, held>>
      PROVE  RotationInv'
  <2>1. \A x \in Workers : req'[x].pc = "refresh" => req'[x] = req[x]
    BY <1>2 DEF Goto, TypeOK
  <2> QED
    BY <1>1, <1>2, <2>1, RotationQuiet
<1>3. ASSUME UNCHANGED req, held' = held,
             \A m \in Token : /\ token'[m].root = token[m].root
                              /\ \/ token'[m].state = token[m].state
                                 \/ token[m].state = "live" /\ token'[m].state = "over"
      PROVE  RotationInv'
  BY <1>1, <1>3, RotationQuiet
<1>4. ASSUME NEW w \in Workers, Arrive(w) PROVE RotationInv'
  <2>1. ASSUME NEW n \in Token, RefreshStart(w, n) PROVE RotationInv'
    BY <2>1, RotationRefreshStart
  <2>2. ASSUME ~ \E n \in Token : RefreshStart(w, n) PROVE RotationInv'
    <3>1. UNCHANGED <<token, held>> /\ Goto(w, req'[w]) /\ req'[w].pc # "refresh"
      BY <1>4, <2>2
      DEF Arrive, RequestOtp, VerifyStart, RegisterStart, LoginStart, ChangeStart, ResetStart, Goto, TypeOK
    <3> QED
      BY <1>2, <3>1
  <2> QED
    BY <2>1, <2>2
<1>5. ASSUME NEW w \in Workers, Continue(w) PROVE RotationInv'
  <2>1. CASE CommitRefresh(w)
    BY <2>1, RotationRefresh
  <2>2. CASE CommitVerify(w)
    <3>1. req[w].phone \in Phones /\ req[w].otp \in 0 .. MaxOtps
      <4>1. req[w].phone \in Phones /\ req[w].otp \in Otp
        BY <2>2, Carried DEF CommitVerify, At
      <4> QED
        BY <4>1, SessionsAssumption DEF Otp
    <3> QED
      BY <2>2, <3>1, RotationIssue DEF CommitVerify
  <2>3. CASE CommitRegister(w) \/ CommitLogin(w)
    <3>1. req[w].phone \in Phones
      <4>1. req[w].pc \in {"register", "login"}
        BY <2>3 DEF CommitRegister, CommitLogin, At
      <4> QED
        BY <4>1, Carried
    <3> QED
      <4>1. 0 \in 0 .. MaxOtps
        BY SessionsAssumption
      <4> QED
        BY <2>3, <3>1, <4>1, RotationIssue DEF CommitRegister, CommitLogin
  <2>4. CASE Increment(w) \/ SetExpiry(w) \/ ClearAttempts(w) \/ CommitReset(w)
    <3>1. /\ req[w].pc \in {"increment", "expire", "clear", "reset"}
          /\ \E pc \in {"expire", "account", "open", "forget"} : Goto(w, [req[w] EXCEPT !.pc = pc])
          /\ UNCHANGED <<token, held>>
      BY <2>4 DEF Increment, SetExpiry, ClearAttempts, CommitReset, At
    <3>2. PICK pc \in {"expire", "account", "open", "forget"} : Goto(w, [req[w] EXCEPT !.pc = pc])
      BY <3>1
    <3>3. \A x \in Workers : req'[x].pc = "refresh" => req'[x] = req[x]
      <4>1. [req[w] EXCEPT !.pc = pc].pc = pc
        BY <3>1 DEF TypeOK, Request
      <4> QED
        BY <3>2, <4>1 DEF Goto, TypeOK
    <3> QED
      BY <1>1, <3>1, <3>3, RotationQuiet
  <2>5. CASE FindAccount(w) \/ CommitOtp(w) \/ NotUnique(w) \/ CommitChange(w) \/ ForgetCode(w)
    <3>1. UNCHANGED <<token, held>>
      BY <2>5 DEF FindAccount, CommitOtp, NotUnique, CommitChange, ForgetCode
    <3>2. CASE Done(w)
      <4>1. \A x \in Workers : req'[x].pc = "refresh" => req'[x] = req[x]
        BY <3>2 DEF Done, Goto, TypeOK
      <4> QED
        BY <1>1, <3>1, <4>1, RotationQuiet
    <3>3. CASE FindAccount(w)
      <4>1. \A x \in Workers : req'[x].pc = "refresh" => req'[x] = req[x]
        BY <3>3 DEF FindAccount, Done, Goto, TypeOK
      <4> QED
        BY <1>1, <3>1, <4>1, RotationQuiet
    <3> QED
      BY <2>5, <3>2, <3>3 DEF CommitOtp, NotUnique, CommitChange, ForgetCode
  <2> QED
    BY <1>5, <2>1, <2>2, <2>3, <2>4, <2>5 DEF Continue
<1>6. ASSUME NEW p \in Phones,
             Onboard(p) \/ ForgotPassword(p) \/ SetActive(p) \/ WindowEnds(p) \/ CodeExpires(p)
      PROVE  RotationInv'
  BY <1>6, <1>3 DEF Onboard, ForgotPassword, SetActive, WindowEnds, CodeExpires
<1>7. ASSUME NEW n \in Token, Logout(n) \/ TokenExpires(n) PROVE RotationInv'
  <2>1. token' = [token EXCEPT ![n].state = "over"] /\ UNCHANGED <<held, req>> /\ token[n].state # "free"
    BY <1>7 DEF Logout, TokenExpires, TypeOK
  <2>2. \A m \in Token : /\ token'[m].root = token[m].root
                         /\ \/ token'[m].state = token[m].state
                            \/ token[m].state = "live" /\ token'[m].state = "over"
    BY <2>1 DEF TypeOK, TokenRow
  <2> QED
    BY <2>1, <2>2, <1>3
<1>8. ASSUME NEW o \in Otp, OtpExpires(o) PROVE RotationInv'
  BY <1>8, <1>3 DEF OtpExpires
<1>9. CASE Fault
  <2>1. \A x \in Workers : req'[x].pc = "refresh" => req'[x] = req[x]
    BY <1>9 DEF Fault, Done, Goto, TypeOK
  <2> QED
    BY <1>1, <1>9, <2>1, RotationQuiet DEF Fault
<1> QED
  BY <1>4, <1>5, <1>6, <1>7, <1>8, <1>9 DEF Next

\* refresh_access_token: however a login's token is presented, at most as many
\* of its tokens are live as handlers can rotate it together.
THEOREM RotationReplacesAlways == Spec => []RotationReplaces
<1>1. Init => TypeOK /\ RotationInv
  BY TypeInit, RotationInit
<1>2. TypeOK /\ RotationInv /\ [Next]_vars => TypeOK' /\ RotationInv'
  <2>1. ASSUME TypeOK, RotationInv, UNCHANGED vars PROVE TypeOK' /\ RotationInv'
    BY <2>1 DEF TypeOK, RotationInv, Later, Refreshing, At, vars
  <2> QED
    BY <2>1, TypeNext, RotationNext
<1>3. TypeOK /\ RotationInv => RotationReplaces
  <2> SUFFICES ASSUME TypeOK, RotationInv, NEW n \in Token
               PROVE  Cardinality({m \in Token : token[m].root = n /\ token[m].state = "live"})
                        <= Cardinality(Workers)
    BY DEF RotationReplaces
  <2> DEFINE L == {m \in Token : token[m].root = n /\ token[m].state = "live"}
  <2> SUFFICES Cardinality(L) <= Cardinality(Workers)
    OBVIOUS
  <2>1. Later(n) \subseteq Token /\ Refreshing(n) \subseteq Workers
    BY DEF Later, Refreshing
  <2>2. Cardinality(Later(n)) \in Nat /\ Cardinality(Refreshing(n)) \in Nat
    BY <2>1, TokensFinite, Smaller
  <2>3. CASE n \notin held
    <3>1. L = {}
      BY <2>3 DEF RotationInv
    <3> QED
      BY <3>1, FS_EmptySet, TokensFinite
  <2>4. CASE n \in held /\ token[n].state = "live"
    <3>1. L = {n}
      BY <2>4 DEF RotationInv, Later
    <3> QED
      <4>1. Cardinality({n}) = 1
        BY FS_Singleton
      <4> QED
        BY <3>1, <4>1, TokensFinite
  <2>5. CASE n \in held /\ token[n].state # "live"
    <3>1. L = Later(n)
      BY <2>5 DEF Later
    <3> QED
      <4>1. Cardinality(Later(n)) + Cardinality(Refreshing(n)) <= Cardinality(Workers)
        BY <2>5 DEF RotationInv
      <4> QED
        <5>1. Cardinality(L) = Cardinality(Later(n))
          BY <3>1
        <5> HIDE DEF L
        <5> QED
          BY <2>2, <4>1, <5>1, TokensFinite
  <2> QED
    BY <2>3, <2>4, <2>5
<1> QED
  BY <1>1, <1>2, <1>3, PTL DEF Spec

-----------------------------------------------------------------------------
(* One-time codes *)

\* The handlers that verified a code, and the sessions it opened.
Pending(o) == {w \in Workers : req[w].pc \in {"clear", "open"} /\ req[w].otp = o}

IssuedFor(o) == {n \in held : token[n].otp = o}

\* The strengthening of OneSessionPerOtp: no session comes of a code before it
\* is over, and sessions and handlers that will open one are counted together.
OtpInv ==
    /\ \A w \in Workers : At(w, "code") => otp[req[w].otp].state = "taken"
    /\ \A w, x \in Workers : At(w, "code") /\ At(x, "code") /\ req[w].otp = req[x].otp => w = x
    /\ \A o \in Otp :
         /\ Pending(o) # {} => otp[o].state \in {"valid", "over"}
         /\ otp[o].state # "over" => IssuedFor(o) = {}
         /\ Cardinality(Pending(o)) + Cardinality(IssuedFor(o)) <= Cardinality(Workers)

LEMMA OtpFinite ==
    ASSUME TypeOK
    PROVE  \A o : /\ IsFiniteSet(Pending(o)) /\ IsFiniteSet(IssuedFor(o))
                  /\ Cardinality(Pending(o)) \in Nat /\ Cardinality(IssuedFor(o)) \in Nat
                  /\ Cardinality(Pending(o)) <= Cardinality(Workers)
<1> TAKE o
<1>1. Pending(o) \subseteq Workers /\ IssuedFor(o) \subseteq Token
  BY DEF Pending, IssuedFor, TypeOK
<1> QED
  BY <1>1, TokensFinite, Smaller

LEMMA OtpInit == Init => OtpInv
<1> SUFFICES ASSUME Init PROVE OtpInv
  OBVIOUS
<1>1. \A o \in Otp : Pending(o) = {} /\ IssuedFor(o) = {}
  BY DEF Init, Pending, IssuedFor
<1>2. \A w \in Workers : ~At(w, "code")
  BY DEF Init, At
<1> QED
  <2>1. Cardinality({}) = 0 /\ 0 + 0 <= Cardinality(Workers)
    BY FS_EmptySet, TokensFinite
  <2>2. ASSUME NEW o \in Otp
        PROVE  Cardinality(Pending(o)) + Cardinality(IssuedFor(o)) <= Cardinality(Workers)
    BY <1>1, <2>1
  <2> QED
    BY <1>1, <1>2, <2>2 DEF OtpInv

\* Codes expire, handlers end, go on to open a session or do something else.
LEMMA OtpQuiet ==
    ASSUME TypeOK, TypeOK', OtpInv,
           \A o \in Otp : IssuedFor(o)' = IssuedFor(o),
           \A o \in Otp : \/ otp'[o].state = otp[o].state
                          \/ otp[o].state = "valid" /\ otp'[o].state = "over",
           \A w \in Workers :
               /\ req'[w].pc = "code" => req'[w] = req[w]
               /\ req'[w].pc \in {"clear", "open"} =>
                    req[w].pc \in {"clear", "open"} /\ req'[w].otp = req[w].otp
    PROVE  OtpInv'
<1>1. \A w \in Workers : At(w, "code")' => otp'[req'[w].otp].state = "taken"
  <2> SUFFICES ASSUME NEW w \in Workers, At(w, "code")'
               PROVE  otp'[req'[w].otp].state = "taken"
    OBVIOUS
  <2>1. At(w, "code") /\ req'[w] = req[w]
    BY DEF At
  <2>2. req[w].otp \in Otp /\ otp[req[w].otp].state = "taken"
    BY <2>1, Carried DEF OtpInv
  <2> QED
    BY <2>1, <2>2
<1>2. \A w, x \in Workers : At(w, "code")' /\ At(x, "code")' /\ req'[w].otp = req'[x].otp => w = x
  BY DEF OtpInv, At
<1>3. ASSUME NEW o \in Otp
      PROVE  /\ Pending(o)' # {} => otp'[o].state \in {"valid", "over"}
             /\ otp'[o].state # "over" => IssuedFor(o)' = {}
             /\ Cardinality(Pending(o)') + Cardinality(IssuedFor(o)') <= Cardinality(Workers)
  <2>1. Pending(o)' \subseteq Pending(o)
    BY DEF Pending
  <2>2. Cardinality(Pending(o)') <= Cardinality(Pending(o)) /\ Cardinality(Pending(o)') \in Nat
    BY <2>1, OtpFinite, Smaller
  <2>3. Pending(o) # {} => otp[o].state \in {"valid", "over"}
    BY DEF OtpInv
  <2>4. otp[o].state # "over" => IssuedFor(o) = {}
    BY DEF OtpInv
  <2>5. Cardinality(Pending(o)) + Cardinality(IssuedFor(o)) <= Cardinality(Workers)
    BY DEF OtpInv
  <2>6. Pending(o)' # {} => otp'[o].state \in {"valid", "over"}
    BY <2>1, <2>3
  <2>7. otp'[o].state # "over" => IssuedFor(o)' = {}
    BY <2>4
  <2>8. Cardinality(IssuedFor(o)') = Cardinality(IssuedFor(o))
    OBVIOUS
  <2> QED
    BY <2>2, <2>5, <2>6, <2>7, <2>8, OtpFinite, TokensFinite
<1> QED
  BY <1>1, <1>2, <1>3 DEF OtpInv

\* A free code is taken by one handler.
LEMMA OtpTaken ==
    ASSUME TypeOK, OtpInv, NEW w \in Workers, At(w, "account"), NEW o \in FirstFree(otp), NEW b,
           otp' = [otp EXCEPT ![o] = [phone |-> req[w].phone, state |-> "taken"]],
           Goto(w, [pc |-> "code", phone |-> req[w].phone, otp |-> o, new |-> b]),
           UNCHANGED <<token, held>>
    PROVE  OtpInv'
<1>1. o \in Otp /\ otp[o].state = "free"
  BY DEF FirstFree, TypeOK
<1>2. \A q \in Otp : otp'[q].state = IF q = o THEN "taken" ELSE otp[q].state
  BY <1>1 DEF TypeOK
<1>3. /\ \A x \in Workers \ {w} : req'[x] = req[x]
      /\ req'[w].pc = "code" /\ req'[w].otp = o
  BY DEF Goto, TypeOK
<1>4. \A x \in Workers : At(x, "code") => req[x].otp \in Otp /\ req[x].otp # o
  BY <1>1, Carried DEF OtpInv
<1>5. \A x \in Workers : At(x, "code")' => otp'[req'[x].otp].state = "taken"
  BY <1>1, <1>2, <1>3, <1>4 DEF OtpInv, At
<1>6. \A x, y \in Workers : At(x, "code")' /\ At(y, "code")' /\ req'[x].otp = req'[y].otp => x = y
  BY <1>3, <1>4 DEF OtpInv, At
<1>7. \A q \in Otp : Pending(q)' = Pending(q) /\ IssuedFor(q)' = IssuedFor(q)
  BY <1>3 DEF Pending, IssuedFor, At
<1>8. ASSUME NEW q \in Otp
      PROVE  /\ Pending(q)' # {} => otp'[q].state \in {"valid", "over"}
             /\ otp'[q].state # "over" => IssuedFor(q)' = {}
             /\ Cardinality(Pending(q)') + Cardinality(IssuedFor(q)') <= Cardinality(Workers)
  BY <1>1, <1>2, <1>7 DEF OtpInv
<1> QED
  BY <1>5, <1>6, <1>8 DEF OtpInv

\* A code that is committed can be verified.
LEMMA OtpCommitted ==
    ASSUME TypeOK, OtpInv, NEW w \in Workers, CommitOtp(w)
    PROVE  OtpInv'
<1> DEFINE o == req[w].otp
<1>1. /\ At(w, "code") /\ o \in Otp /\ otp[o].state = "taken"
      /\ otp' = [otp EXCEPT ![o].state = "valid"] /\ token' = token /\ held' = held
  BY Carried DEF CommitOtp, OtpInv
<1>2. \A q \in Otp : otp'[q].state = IF q = o THEN "valid" ELSE otp[q].state
  BY <1>1 DEF TypeOK, OtpRow
<1>3. (\A x \in Workers \ {w} : req'[x] = req[x]) /\ req'[w].pc = "idle"
  BY DEF CommitOtp, Done, Goto, TypeOK
<1>4. \A x \in Workers \ {w} : At(x, "code") => req[x].otp \in Otp /\ req[x].otp # o
  BY <1>1, Carried DEF OtpInv
<1>5. \A x \in Workers : At(x, "code")' => otp'[req'[x].otp].state = "taken"
  BY <1>2, <1>3, <1>4 DEF OtpInv, At
<1>6. \A x, y \in Workers : At(x, "code")' /\ At(y, "code")' /\ req'[x].otp = req'[y].otp => x = y
  BY <1>3 DEF OtpInv, At
<1>7. \A q \in Otp : Pending(q)' = Pending(q) /\ IssuedFor(q)' = IssuedFor(q)
  BY <1>1, <1>3 DEF Pending, IssuedFor, At
<1>8. ASSUME NEW q \in Otp
      PROVE  /\ Pending(q)' # {} => otp'[q].state \in {"valid", "over"}
             /\ otp'[q].state # "over" => IssuedFor(q)' = {}
             /\ Cardinality(Pending(q)') + Cardinality(IssuedFor(q)') <= Cardinality(Workers)
  BY <1>1, <1>2, <1>7 DEF OtpInv
<1> QED
  BY <1>5, <1>6, <1>8 DEF OtpInv

\* A code that is valid has opened no session, however many handlers verify it.
LEMMA OtpVerified ==
    ASSUME TypeOK, OtpInv, NEW w \in Workers, NEW p \in Phones, VerifyStart(w, p)
    PROVE  OtpInv'
<1>1. PICK o \in Current(p) : Goto(w, [pc |-> "clear", phone |-> p, otp |-> o])
  BY DEF VerifyStart
<1>2. o \in Otp /\ otp[o].state = "valid" /\ At(w, "idle") /\ UNCHANGED <<otp, token, held>>
  BY DEF VerifyStart, Current
<1>3. /\ \A x \in Workers \ {w} : req'[x] = req[x]
      /\ req'[w].pc = "clear" /\ req'[w].otp = o
  BY <1>1 DEF Goto, TypeOK
<1>4. \A x \in Workers : At(x, "code")' => otp'[req'[x].otp].state = "taken"
  BY <1>2, <1>3 DEF OtpInv, At
<1>5. \A x, y \in Workers : At(x, "code")' /\ At(y, "code")' /\ req'[x].otp = req'[y].otp => x = y
  BY <1>3 DEF OtpInv, At
<1>6. ASSUME NEW q \in Otp
      PROVE  /\ Pending(q)' # {} => otp'[q].state \in {"valid", "over"}
             /\ otp'[q].state # "over" => IssuedFor(q)' = {}
             /\ Cardinality(Pending(q)') + Cardinality(IssuedFor(q)') <= Cardinality(Workers)
  <2>1. IssuedFor(q)' = IssuedFor(q)
    BY <1>2 DEF IssuedFor
  <2>2. CASE q = o
    <3>1. IssuedFor(q) = {}
      BY <1>2, <2>2 DEF OtpInv
    <3>2. Pending(q)' \subseteq Workers
      BY DEF Pending
    <3>3. Cardinality(Pending(q)') <= Cardinality(Workers) /\ Cardinality(Pending(q)') \in Nat
      BY <3>2, TokensFinite, Smaller
    <3>4. Cardinality(IssuedFor(q)') = 0
      BY <2>1, <3>1, FS_EmptySet
    <3> QED
      BY <1>2, <2>1, <2>2, <3>1, <3>3, <3>4, TokensFinite
  <2>3. CASE q # o
    <3>1. Pending(q)' = Pending(q)
      BY <1>2, <1>3, <2>3 DEF Pending, At
    <3> QED
      BY <1>2, <2>1, <3>1 DEF OtpInv
  <2> QED
    BY <2>2, <2>3
<1> QED
  BY <1>4, <1>5, <1>6 DEF OtpInv

\* A session is opened: its handler no longer counts, the session does.
LEMMA OtpOpened ==
    ASSUME TypeOK, OtpInv, NEW w \in Workers, CommitVerify(w)
    PROVE  OtpInv'
<1> DEFINE o == req[w].otp
<1>1. At(w, "open") /\ req[w].phone \in Phones /\ o \in Otp
  BY Carried DEF CommitVerify, At
<1>2. o \in 0 .. MaxOtps
  BY <1>1, SessionsAssumption DEF Otp
<1>3. Issue(req[w].phone, o) /\ otp' = [otp EXCEPT ![o].state = "over"]
  BY DEF CommitVerify
<1>4. PICK k \in Token :
        /\ k \notin held /\ held' = held \cup {k}
        /\ \A m \in Token : token'[m] = IF m = k THEN [phone |-> req[w].phone, state |-> "live", root |-> k, otp |-> o]
                                                 ELSE token[m]
  <2>1. \A p \in Phones, c \in 0 .. MaxOtps : Issue(p, c) => \E k \in Token :
          /\ k \notin held /\ held' = held \cup {k}
          /\ \A m \in Token : token'[m] = IF m = k THEN [phone |-> p, state |-> "live", root |-> k, otp |-> c]
                                                   ELSE token[m]
    <3> SUFFICES ASSUME NEW p \in Phones, NEW c \in 0 .. MaxOtps, Issue(p, c)
                 PROVE  \E k \in Token :
                          /\ k \notin held /\ held' = held \cup {k}
                          /\ \A m \in Token : token'[m] = IF m = k THEN [phone |-> p, state |-> "live", root |-> k, otp |-> c]
                                                                   ELSE token[m]
      OBVIOUS
    <3>1. PICK k \in Token :
            /\ token[k].state = "free" /\ k \notin held /\ held' = held \cup {k}
            /\ \A m \in Token : token'[m] = IF m = k THEN [phone |-> p, state |-> "live", root |-> k, otp |-> c]
                                                     ELSE token[m]
      BY Issued
    <3> QED
      BY <3>1
  <2> HIDE DEF o
  <2> QED
    BY <1>1, <1>2, <1>3, <2>1
<1>5. \A q \in Otp : otp'[q].state = IF q = o THEN "over" ELSE otp[q].state
  BY <1>1, <1>3 DEF TypeOK, OtpRow
<1>6. (\A x \in Workers \ {w} : req'[x] = req[x]) /\ req'[w].pc = "idle"
  BY DEF CommitVerify, Done, Goto, TypeOK
<1>7. w \in Pending(o) /\ otp[o].state \in {"valid", "over"}
  <2>1. w \in Pending(o)
    BY <1>1 DEF Pending, At
  <2> QED
    BY <1>1, <2>1 DEF OtpInv
<1>8. \A x \in Workers : At(x, "code")' => otp'[req'[x].otp].state = "taken"
  <2> SUFFICES ASSUME NEW x \in Workers, At(x, "code")'
               PROVE  otp'[req'[x].otp].state = "taken"
    OBVIOUS
  <2>1. At(x, "code") /\ req'[x] = req[x]
    BY <1>6 DEF At
  <2>2. req[x].otp \in Otp /\ otp[req[x].otp].state = "taken"
    BY <2>1, Carried DEF OtpInv
  <2> QED
    BY <1>5, <1>7, <2>1, <2>2
<1>9. \A x, y \in Workers : At(x, "code")' /\ At(y, "code")' /\ req'[x].otp = req'[y].otp => x = y
  BY <1>6 DEF OtpInv, At
<1>10. \A n \in held : n \in Token /\ n # k /\ token'[n] = token[n]
  BY <1>4 DEF TypeOK
<1>11. ASSUME NEW q \in Otp
       PROVE  /\ Pending(q)' # {} => otp'[q].state \in {"valid", "over"}
              /\ otp'[q].state # "over" => IssuedFor(q)' = {}
              /\ Cardinality(Pending(q)') + Cardinality(IssuedFor(q)') <= Cardinality(Workers)
  <2>1. CASE q = o
    <3>1. IssuedFor(q)' = IssuedFor(q) \cup {k}
      BY <1>4, <1>10, <2>1 DEF IssuedFor
    <3>2. k \notin IssuedFor(q) /\ w \in Pending(q)
      BY <1>4, <1>7, <2>1 DEF IssuedFor
    <3>3. Cardinality(IssuedFor(q)') = Cardinality(IssuedFor(q)) + 1
      BY <3>1, <3>2, OtpFinite, FS_AddElement
    <3>4. Pending(q)' \subseteq Pending(q) \ {w}
      BY <1>6 DEF Pending
    <3>5. IsFiniteSet(Pending(q) \ {w}) /\ Cardinality(Pending(q) \ {w}) = Cardinality(Pending(q)) - 1
      BY <3>2, OtpFinite, FS_RemoveElement
    <3>6. Cardinality(Pending(q)') <= Cardinality(Pending(q)) - 1 /\ Cardinality(Pending(q)') \in Nat
      BY <3>4, <3>5, Smaller
    <3>7. Cardinality(Pending(q)) + Cardinality(IssuedFor(q)) <= Cardinality(Workers)
      BY DEF OtpInv
    <3>8. otp'[q].state = "over"
      BY <1>5, <2>1
    <3> QED
      BY <3>3, <3>6, <3>7, <3>8, OtpFinite, TokensFinite
  <2>2. CASE q # o
    <3>1. token'[k].otp = o
      BY <1>4
    <3>2. IssuedFor(q)' = IssuedFor(q)
      BY <1>4, <1>10, <2>2, <3>1 DEF IssuedFor
    <3>3. Pending(q)' = Pending(q)
      BY <1>1, <1>6, <2>2 DEF Pending, At
    <3>4. otp'[q].state = otp[q].state
      BY <1>5, <2>2
    <3> QED
      BY <3>2, <3>3, <3>4 DEF OtpInv
  <2> QED
    BY <2>1, <2>2
<1> QED
  BY <1>8, <1>9, <1>11 DEF OtpInv

LEMMA OtpNext == ASSUME TypeOK, OtpInv, Next PROVE OtpInv'
<1>1. TypeOK'
  BY TypeNext
<1>2. UNCHANGED <<token, held>> => \A o \in Otp : IssuedFor(o)' = IssuedFor(o)
  BY DEF IssuedFor
\* A handler ends, or does something that is not about a code.
<1>3. ASSUME NEW w \in Workers, Goto(w, req'[w]), req'[w].pc \notin {"code", "clear", "open"},
             UNCHANGED <<otp, token, held>>
      PROVE  OtpInv'
  <2>1. \A x \in Workers : req'[x] = IF x = w THEN req'[w] ELSE req[x]
    BY <1>3 DEF Goto, TypeOK
  <2> QED
    BY <1>1, <1>2, <1>3, <2>1, OtpQuiet
<1>4. ASSUME UNCHANGED <<otp, req, token, held>> PROVE OtpInv'
  BY <1>1, <1>2, <1>4, OtpQuiet
<1>5. ASSUME NEW w \in Workers, NEW p \in Phones, Issue(p, 0), Done(w), UNCHANGED otp PROVE OtpInv'
  <2>1. 0 \in 0 .. MaxOtps
    BY SessionsAssumption
  <2>2. PICK k \in Token :
          /\ k \notin held /\ held' = held \cup {k}
          /\ \A m \in Token : token'[m] = IF m = k THEN [phone |-> p, state |-> "live", root |-> k, otp |-> 0]
                                                   ELSE token[m]
    BY <1>5, <2>1, Issued
  <2>3. /\ \A n \in held : n \in Token /\ n # k /\ token'[n] = token[n]
        /\ token'[k].otp = 0
    BY <2>2 DEF TypeOK
  <2>4. \A o \in Otp : o # 0
    BY SessionsAssumption DEF Otp
  <2>5. \A o \in Otp : IssuedFor(o)' = IssuedFor(o)
    BY <2>2, <2>3, <2>4 DEF IssuedFor
  <2>6. \A x \in Workers : req'[x] = IF x = w THEN [pc |-> "idle"] ELSE req[x]
    BY <1>5 DEF Done, Goto, TypeOK
  <2> QED
    BY <1>1, <1>5, <2>5, <2>6, OtpQuiet
<1>6. ASSUME NEW w \in Workers, Arrive(w) PROVE OtpInv'
  <2>1. ASSUME NEW p \in Phones, VerifyStart(w, p) PROVE OtpInv'
    BY <2>1, OtpVerified
  <2>2. ASSUME ~ \E p \in Phones : VerifyStart(w, p) PROVE OtpInv'
    <3>1. UNCHANGED <<otp, token, held>> /\ Goto(w, req'[w]) /\ req'[w].pc \notin {"code", "clear", "open"}
      BY <1>6, <2>2
      DEF Arrive, RequestOtp, RegisterStart, LoginStart, ChangeStart, ResetStart, RefreshStart, Goto, TypeOK
    <3> QED
      BY <1>3, <3>1
  <2> QED
    BY <2>1, <2>2
<1>7. ASSUME NEW w \in Workers, Continue(w) PROVE OtpInv'
  <2>1. CASE FindAccount(w)
    <3>1. CASE Done(w) /\ UNCHANGED otp
      <4>1. Goto(w, req'[w]) /\ req'[w].pc = "idle" /\ UNCHANGED <<token, held>>
        BY <2>1, <3>1 DEF FindAccount, Done, Goto, TypeOK
      <4> QED
        BY <1>3, <3>1, <4>1
    <3>2. CASE \E o \in FirstFree(otp) :
                 /\ otp' = [otp EXCEPT ![o] = [phone |-> req[w].phone, state |-> "taken"]]
                 /\ Goto(w, [pc |-> "code", phone |-> req[w].phone, otp |-> o, new |-> ~user[req[w].phone].exists])
      BY <2>1, <3>2, OtpTaken DEF FindAccount
    <3> QED
      BY <2>1, <3>1, <3>2 DEF FindAccount
  <2>2. CASE CommitOtp(w)
    BY <2>2, OtpCommitted
  <2>3. CASE CommitVerify(w)
    BY <2>3, OtpOpened
  <2>4. CASE CommitRegister(w) \/ CommitLogin(w)
    <3>1. req[w].pc \in {"register", "login"}
      BY <2>4 DEF CommitRegister, CommitLogin, At
    <3>2. req[w].phone \in Phones
      BY <3>1, Carried
    <3> QED
      BY <2>4, <3>2, <1>5 DEF CommitRegister, CommitLogin
  <2>5. CASE Increment(w) \/ SetExpiry(w) \/ CommitReset(w)
    <3>1. /\ req[w].pc \in {"increment", "expire", "reset"}
          /\ \E pc \in {"expire", "account", "forget"} : Goto(w, [req[w] EXCEPT !.pc = pc])
          /\ UNCHANGED <<otp, token, held>>
      BY <2>5 DEF Increment, SetExpiry, CommitReset, At
    <3>2. PICK pc \in {"expire", "account", "forget"} : Goto(w, [req[w] EXCEPT !.pc = pc])
      BY <3>1
    <3>3. [req[w] EXCEPT !.pc = pc].pc = pc
      BY <3>1 DEF TypeOK, Request
    <3>4. Goto(w, req'[w]) /\ req'[w].pc = pc
      BY <3>2, <3>3 DEF Goto, TypeOK
    <3> QED
      BY <1>3, <3>1, <3>4
  <2>6. CASE ClearAttempts(w)
    <3>1. req[w].pc = "clear" /\ Goto(w, [req[w] EXCEPT !.pc = "open"]) /\ UNCHANGED <<otp, token, held>>
      BY <2>6 DEF ClearAttempts, At
    <3>2. [req[w] EXCEPT !.pc = "open"].pc = "open" /\ [req[w] EXCEPT !.pc = "open"].otp = req[w].otp
      BY <3>1, Carried
    <3>3. \A x \in Workers : req'[x] = IF x = w THEN [req[w] EXCEPT !.pc = "open"] ELSE req[x]
      BY <3>1 DEF Goto, TypeOK
    <3> QED
      BY <1>1, <1>2, <3>1, <3>2, <3>3, OtpQuiet
  <2>7. CASE CommitRefresh(w)
    <3>1. req[w].token \in Token
      BY <2>7, Carried DEF CommitRefresh
    <3>2. PICK k \in FirstFree(token) :
            token' = [token EXCEPT ![req[w].token].state = "over",
                                   ![k] = [token[req[w].token] EXCEPT !.state = "live"]]
      BY <2>7 DEF CommitRefresh
    <3>3. k \in Token /\ k \notin held
      BY DEF FirstFree, TypeOK
    <3>4. \A n \in held : n \in Token /\ token'[n].otp = token[n].otp
      BY <3>1, <3>2, <3>3 DEF TypeOK, TokenRow
    <3>5. \A o \in Otp : IssuedFor(o)' = IssuedFor(o)
      BY <2>7, <3>4 DEF IssuedFor, CommitRefresh
    <3>6. UNCHANGED otp /\ \A x \in Workers : req'[x] = IF x = w THEN [pc |-> "idle"] ELSE req[x]
      BY <2>7 DEF CommitRefresh, Done, Goto, TypeOK
    <3> QED
      BY <1>1, <3>5, <3>6, OtpQuiet
  <2>8. CASE NotUnique(w) \/ CommitChange(w) \/ ForgetCode(w)
    <3>1. UNCHANGED <<otp, token, held>> /\ Done(w)
      BY <2>8 DEF NotUnique, CommitChange, ForgetCode
    <3>2. Goto(w, req'[w]) /\ req'[w].pc = "idle"
      BY <3>1 DEF Done, Goto, TypeOK
    <3> QED
      BY <1>3, <3>1, <3>2
  <2> QED
    BY <1>7, <2>1, <2>2, <2>3, <2>4, <2>5, <2>6, <2>7, <2>8 DEF Continue
<1>8. ASSUME NEW p \in Phones,
             Onboard(p) \/ ForgotPassword(p) \/ SetActive(p) \/ WindowEnds(p) \/ CodeExpires(p)
      PROVE  OtpInv'
  BY <1>8, <1>4 DEF Onboard, ForgotPassword, SetActive, WindowEnds, CodeExpires
<1>9. ASSUME NEW n \in Token, Logout(n) \/ TokenExpires(n) PROVE OtpInv'
  <2>1. token' = [token EXCEPT ![n].state = "over"] /\ UNCHANGED <<otp, held, req>>
    BY <1>9 DEF Logout, TokenExpires
  <2>2. \A m \in held : token'[m].otp = token[m].otp
    BY <2>1 DEF TypeOK, TokenRow
  <2>3. \A o \in Otp : IssuedFor(o)' = IssuedFor(o)
    BY <2>1, <2>2 DEF IssuedFor
  <2> QED
    BY <1>1, <2>1, <2>3, OtpQuiet
<1>10. ASSUME NEW o \in Otp, OtpExpires(o) PROVE OtpInv'
  <2>1. otp[o].state = "valid" /\ otp' = [otp EXCEPT ![o].state = "over"] /\ UNCHANGED <<token, held, req>>
    BY <1>10 DEF OtpExpires
  <2>2. \A q \in Otp : otp'[q].state = IF q = o THEN "over" ELSE otp[q].state
    BY <2>1 DEF TypeOK, OtpRow
  <2> QED
    BY <1>1, <1>2, <2>1, <2>2, OtpQuiet
<1>11. CASE Fault
  <2>1. \A x \in Workers : req'[x] \in {req[x], [pc |-> "idle"]}
    BY <1>11 DEF Fault, Done, Goto, TypeOK
  <2>2. UNCHANGED <<otp, token, held>>
    BY <1>11 DEF Fault
  <2> QED
    BY <1>1, <1>2, <2>1, <2>2, OtpQuiet
<1> QED
  BY <1>6, <1>7, <1>8, <1>9, <1>10, <1>11 DEF Next

\* verify_otp: a one-time code opens one session for each handler that verified
\* it before the first of them committed, and no later request another.
THEOREM OneSessionPerOtpAlways == Spec => []OneSessionPerOtp
<1>1. Init => TypeOK /\ OtpInv
  BY TypeInit, OtpInit
<1>2. TypeOK /\ OtpInv /\ [Next]_vars => TypeOK' /\ OtpInv'
  <2>1. ASSUME TypeOK, OtpInv, UNCHANGED vars PROVE TypeOK' /\ OtpInv'
    <3>1. TypeOK'
      BY <2>1 DEF TypeOK, vars
    <3>2. \A o : Pending(o)' = Pending(o) /\ IssuedFor(o)' = IssuedFor(o)
      BY <2>1 DEF Pending, IssuedFor, vars
    <3>3. OtpInv'
      BY <2>1, <3>2 DEF OtpInv, At, vars
    <3> QED
      BY <3>1, <3>3
  <2> QED
    BY <2>1, TypeNext, OtpNext
<1>3. TypeOK /\ OtpInv => OneSessionPerOtp
  <2> SUFFICES ASSUME TypeOK, OtpInv, NEW o \in Otp
               PROVE  Cardinality(IssuedFor(o)) <= Cardinality(Workers)
    BY DEF OneSessionPerOtp, IssuedFor
  <2>1. Cardinality(Pending(o)) + Cardinality(IssuedFor(o)) <= Cardinality(Workers)
    BY DEF OtpInv
  <2> QED
    BY <2>1, OtpFinite, TokensFinite
<1> QED
  BY <1>1, <1>2, <1>3, PTL DEF Spec

-----------------------------------------------------------------------------
(* Password reset codes *)

Stored(c) == \E p \in Phones : code[p] = c

\* The handlers that read a code, and those that used it and have yet to delete it.
Resetting(c) == {w \in Workers : At(w, "reset") /\ req[w].code = c}

Forgetting(c) == {w \in Workers : At(w, "forget") /\ req[w].code = c}

\* The uses a failed handler or a stopped process leaves behind.
Excused == Cardinality(Workers) * faults

\* The strengthening of ResetCodeUsedUp: while a code is stored each use is one
\* of a handler that is about to delete it; once it is gone, no handler but
\* those that had read it uses it.
ResetInv ==
    /\ \A p \in Phones : code[p] <= Len(uses)
    /\ \A p, q \in Phones : code[p] = code[q] /\ code[p] # 0 => p = q
    /\ \A w \in Workers : req[w].pc \in {"reset", "forget"} =>
         /\ req[w].code \in 1 .. Len(uses)
         /\ \A p \in Phones : code[p] = req[w].code => p = req[w].phone
    /\ \A c \in 1 .. Len(uses) :
         /\ Stored(c) => uses[c] <= Cardinality(Forgetting(c)) + Excused
         /\ ~Stored(c) => uses[c] + Cardinality(Resetting(c)) <= Cardinality(Workers) + Excused

LEMMA ResetFinite ==
    \A c : /\ IsFiniteSet(Resetting(c)) /\ Cardinality(Resetting(c)) \in Nat
           /\ IsFiniteSet(Forgetting(c)) /\ Cardinality(Forgetting(c)) \in Nat
           /\ Cardinality(Forgetting(c)) + Cardinality(Resetting(c)) <= Cardinality(Workers)
<1> TAKE c
<1>1. /\ Resetting(c) \subseteq Workers /\ Forgetting(c) \subseteq Workers
      /\ Forgetting(c) \cup Resetting(c) \subseteq Workers /\ Forgetting(c) \cap Resetting(c) = {}
  BY DEF Resetting, Forgetting, At
<1>2. /\ IsFiniteSet(Resetting(c)) /\ Cardinality(Resetting(c)) \in Nat
      /\ IsFiniteSet(Forgetting(c)) /\ Cardinality(Forgetting(c)) \in Nat
  BY <1>1, TokensFinite, Smaller
<1>3. Cardinality(Forgetting(c) \cup Resetting(c)) = Cardinality(Forgetting(c)) + Cardinality(Resetting(c)) - 0
  BY <1>1, <1>2, FS_Union, FS_EmptySet
<1>4. Cardinality(Forgetting(c) \cup Resetting(c)) <= Cardinality(Workers)
  BY <1>1, TokensFinite, Smaller
<1> QED
  BY <1>2, <1>3, <1>4, TokensFinite

LEMMA ExcusedType == ASSUME TypeOK PROVE Excused \in Nat
<1>1. faults \in Nat /\ Cardinality(Workers) \in Nat
  BY TokensFinite, SessionsAssumption DEF TypeOK
<1> QED
  BY <1>1 DEF Excused

LEMMA ResetInit == Init => ResetInv
BY DEF Init, ResetInv

\* What a code allows when its handlers and its key only go.
LEMMA ResetBound ==
    ASSUME TypeOK, ResetInv, UNCHANGED faults, NEW c \in 1 .. Len(uses),
           uses'[c] = uses[c],
           Stored(c)' => Stored(c) /\ Forgetting(c)' = Forgetting(c),
           Resetting(c)' \subseteq Resetting(c)
    PROVE  /\ Stored(c)' => uses'[c] <= Cardinality(Forgetting(c)') + Excused'
           /\ ~Stored(c)' => uses'[c] + Cardinality(Resetting(c)') <= Cardinality(Workers) + Excused'
<1>1. Excused' = Excused /\ Excused \in Nat
  BY ExcusedType DEF Excused
<1>2. Cardinality(Resetting(c)') <= Cardinality(Resetting(c)) /\ Cardinality(Resetting(c)') \in Nat
  BY ResetFinite, Smaller
<1>3. uses[c] \in Nat
  BY DEF TypeOK
<1>4. /\ Stored(c) => uses[c] <= Cardinality(Forgetting(c)) + Excused
      /\ ~Stored(c) => uses[c] + Cardinality(Resetting(c)) <= Cardinality(Workers) + Excused
  BY DEF ResetInv
<1>5. CASE Stored(c)'
  <2>1. uses[c] <= Cardinality(Forgetting(c)) + Excused /\ Cardinality(Forgetting(c)') = Cardinality(Forgetting(c))
    BY <1>4, <1>5
  <2> QED
    BY <1>1, <1>5, <2>1
<1>6. CASE ~Stored(c)' /\ Stored(c)
  <2>1. uses[c] <= Cardinality(Forgetting(c)) + Excused
    BY <1>4, <1>6
  <2> QED
    BY <1>1, <1>2, <1>3, <1>6, <2>1, ResetFinite, TokensFinite
<1>7. CASE ~Stored(c)' /\ ~Stored(c)
  <2>1. uses[c] + Cardinality(Resetting(c)) <= Cardinality(Workers) + Excused
    BY <1>4, <1>7
  <2> QED
    BY <1>1, <1>2, <1>3, <1>7, <2>1, ResetFinite, TokensFinite
<1> QED
  BY <1>5, <1>6, <1>7

\* Keys go, handlers start and end that have nothing to do with a reset.
LEMMA ResetQuiet ==
    ASSUME TypeOK, ResetInv, UNCHANGED <<uses, faults>>,
           \A p \in Phones : code'[p] \in {0, code[p]},
           \A w \in Workers : \/ req'[w] = req[w]
                              \/ req'[w].pc \notin {"reset", "forget"} /\ req[w].pc # "forget"
    PROVE  ResetInv'
<1>1. \A p \in Phones : code'[p] <= Len(uses')
  <2>1. Len(uses) \in Nat /\ uses' = uses
    BY DEF TypeOK
  <2>2. \A p \in Phones : code[p] <= Len(uses)
    BY DEF ResetInv
  <2> QED
    BY <2>1, <2>2
<1>2. \A p, q \in Phones : code'[p] = code'[q] /\ code'[p] # 0 => p = q
  BY DEF ResetInv
<1>3. \A w \in Workers : req'[w].pc \in {"reset", "forget"} =>
         /\ req'[w].code \in 1 .. Len(uses')
         /\ \A p \in Phones : code'[p] = req'[w].code => p = req'[w].phone
  <2> SUFFICES ASSUME NEW w \in Workers, req'[w].pc \in {"reset", "forget"}
               PROVE  /\ req'[w].code \in 1 .. Len(uses')
                      /\ \A p \in Phones : code'[p] = req'[w].code => p = req'[w].phone
    OBVIOUS
  <2>1. req'[w] = req[w] /\ req[w].pc \in {"reset", "forget"}
    OBVIOUS
  <2>2. req[w].code \in 1 .. Len(uses) /\ \A p \in Phones : code[p] = req[w].code => p = req[w].phone
    BY <2>1 DEF ResetInv
  <2>3. req[w].code # 0
    BY <2>2
  <2> QED
    BY <2>1, <2>2, <2>3
<1>4. ASSUME NEW c \in 1 .. Len(uses')
      PROVE  /\ Stored(c)' => uses'[c] <= Cardinality(Forgetting(c)') + Excused'
             /\ ~Stored(c)' => uses'[c] + Cardinality(Resetting(c)') <= Cardinality(Workers) + Excused'
  <2>1. c \in 1 .. Len(uses) /\ c # 0 /\ uses'[c] = uses[c]
    BY <1>4
  <2>2. Stored(c)' => Stored(c)
    BY <2>1 DEF Stored
  <2>3. Forgetting(c)' = Forgetting(c)
    BY DEF Forgetting, At
  <2>4. Resetting(c)' \subseteq Resetting(c)
    BY DEF Resetting, At
  <2> QED
    BY <2>1, <2>2, <2>3, <2>4, ResetBound
<1> QED
  BY <1>1, <1>2, <1>3, <1>4 DEF ResetInv

\* A new code replaces the one stored before it.
LEMMA ResetIssued ==
    ASSUME TypeOK, ResetInv, NEW p \in Phones, ForgotPassword(p)
    PROVE  ResetInv'
<1> DEFINE n == Len(uses) + 1
<1>1. uses' = Append(uses, 0) /\ code' = [code EXCEPT ![p] = n] /\ UNCHANGED <<req, faults>>
  BY DEF ForgotPassword
<1>2. uses \in Seq(Nat) /\ Len(uses) \in Nat /\ Len(uses') = n /\ n \in Nat
  BY <1>1 DEF TypeOK
<1>3. /\ uses'[n] = 0
      /\ \A c \in 1 .. Len(uses) : uses'[c] = uses[c]
  BY <1>1, <1>2
<1>4. \A q \in Phones : code'[q] = IF q = p THEN n ELSE code[q]
  BY <1>1 DEF TypeOK
<1>5. \A q \in Phones : code[q] \in Nat /\ code[q] <= Len(uses) /\ code[q] # n
  BY <1>2, SessionsAssumption DEF ResetInv, TypeOK
<1>6. \A q \in Phones : code'[q] <= Len(uses')
  BY <1>2, <1>4, <1>5
<1>7. \A q, r \in Phones : code'[q] = code'[r] /\ code'[q] # 0 => q = r
  BY <1>4, <1>5 DEF ResetInv
<1>8. \A w \in Workers : req'[w].pc \in {"reset", "forget"} =>
         /\ req'[w].code \in 1 .. Len(uses')
         /\ \A q \in Phones : code'[q] = req'[w].code => q = req'[w].phone
  <2> SUFFICES ASSUME NEW w \in Workers, req'[w].pc \in {"reset", "forget"}
               PROVE  /\ req'[w].code \in 1 .. Len(uses')
                      /\ \A q \in Phones : code'[q] = req'[w].code => q = req'[w].phone
    OBVIOUS
  <2>1. req[w].code \in 1 .. Len(uses) /\ \A q \in Phones : code[q] = req[w].code => q = req[w].phone
    BY <1>1 DEF ResetInv
  <2>2. req[w].code # n /\ req[w].code \in 1 .. n
    BY <1>2, <2>1
  <2> QED
    BY <1>1, <1>2, <1>4, <2>1, <2>2
<1>9. ASSUME NEW c \in 1 .. Len(uses')
      PROVE  /\ Stored(c)' => uses'[c] <= Cardinality(Forgetting(c)') + Excused'
             /\ ~Stored(c)' => uses'[c] + Cardinality(Resetting(c)') <= Cardinality(Workers) + Excused'
  <2>1. Forgetting(c)' = Forgetting(c) /\ Resetting(c)' = Resetting(c) /\ Excused' = Excused
    BY <1>1 DEF Forgetting, Resetting, At, Excused
  <2>2. CASE c = n
    <3>1. Stored(c)'
      BY <1>4, <2>2 DEF Stored
    <3>2. 0 <= Cardinality(Forgetting(c)) + Excused
      BY ResetFinite, ExcusedType
    <3> QED
      BY <1>3, <2>1, <2>2, <3>1, <3>2
  <2>3. CASE c # n
    <3>1. c \in 1 .. Len(uses)
      BY <1>2, <2>3
    <3>2. Stored(c)' => Stored(c)
      BY <1>4, <2>3 DEF Stored
    <3> QED
      BY <1>1, <1>3, <2>1, <3>1, <3>2, ResetBound
  <2> QED
    BY <2>2, <2>3
<1> QED
  BY <1>6, <1>7, <1>8, <1>9 DEF ResetInv

\* A handler reads the code that is stored for its phone number.
LEMMA ResetRead ==
    ASSUME TypeOK, ResetInv, NEW w \in Workers, NEW p \in Phones, ResetStart(w, p)
    PROVE  ResetInv'
<1>1. /\ At(w, "idle") /\ code[p] # 0 /\ UNCHANGED <<code, uses, faults>>
      /\ Goto(w, [pc |-> "reset", phone |-> p, code |-> code[p]])
  BY DEF ResetStart
<1>2. /\ \A x \in Workers \ {w} : req'[x] = req[x]
      /\ req'[w].pc = "reset" /\ req'[w].phone = p /\ req'[w].code = code[p]
  BY <1>1 DEF Goto, TypeOK
<1>3. code[p] \in 1 .. Len(uses)
  <2>1. code[p] \in Nat /\ code[p] <= Len(uses) /\ Len(uses) \in Nat
    BY SessionsAssumption DEF TypeOK, ResetInv
  <2> QED
    BY <1>1, <2>1
<1>4. \A x \in Workers : req'[x].pc \in {"reset", "forget"} =>
         /\ req'[x].code \in 1 .. Len(uses')
         /\ \A q \in Phones : code'[q] = req'[x].code => q = req'[x].phone
  <2> SUFFICES ASSUME NEW x \in Workers, req'[x].pc \in {"reset", "forget"}
               PROVE  /\ req'[x].code \in 1 .. Len(uses')
                      /\ \A q \in Phones : code'[q] = req'[x].code => q = req'[x].phone
    OBVIOUS
  <2>1. CASE x = w
    BY <1>1, <1>2, <1>3, <2>1 DEF ResetInv
  <2>2. CASE x # w
    BY <1>1, <1>2, <2>2 DEF ResetInv
  <2> QED
    BY <2>1, <2>2
<1>5. ASSUME NEW c \in 1 .. Len(uses')
      PROVE  /\ Stored(c)' => uses'[c] <= Cardinality(Forgetting(c)') + Excused'
             /\ ~Stored(c)' => uses'[c] + Cardinality(Resetting(c)') <= Cardinality(Workers) + Excused'
  <2>1. c \in 1 .. Len(uses) /\ Stored(c)' = Stored(c) /\ uses'[c] = uses[c] /\ Excused' = Excused
    BY <1>1, <1>5 DEF Stored, Excused
  <2>2. Forgetting(c)' = Forgetting(c)
    BY <1>1, <1>2 DEF Forgetting, At
  <2>3. CASE Stored(c)
    BY <2>1, <2>2, <2>3 DEF ResetInv
  <2>4. CASE ~Stored(c)
    <3>1. c # code[p]
      BY <2>4 DEF Stored
    <3>2. Resetting(c)' \subseteq Resetting(c)
      BY <1>2, <3>1 DEF Resetting, At
    <3> QED
      BY <1>1, <2>1, <2>2, <3>2, ResetBound
  <2> QED
    BY <2>3, <2>4
<1> QED
  BY <1>1, <1>4, <1>5 DEF ResetInv

\* A code is used: its handler is now one that will delete it.
LEMMA ResetUsed ==
    ASSUME TypeOK, ResetInv, NEW w \in Workers, CommitReset(w)
    PROVE  ResetInv'
<1> DEFINE k == req[w].code
<1>1. /\ At(w, "reset") /\ UNCHANGED <<code, faults>>
      /\ uses' = [uses EXCEPT ![k] = uses[k] + 1]
      /\ Goto(w, [req[w] EXCEPT !.pc = "forget"])
  BY DEF CommitReset
<1>2. req[w].pc = "reset" /\ k \in 1 .. Len(uses)
  BY <1>1 DEF At, ResetInv
<1>3. uses \in Seq(Nat) /\ Len(uses) \in Nat
  BY DEF TypeOK
<1>4. /\ Len(uses') = Len(uses)
      /\ \A c \in 1 .. Len(uses) : uses'[c] = IF c = k THEN uses[k] + 1 ELSE uses[c]
  BY <1>1, <1>2, <1>3
<1>5. /\ \A x \in Workers \ {w} : req'[x] = req[x]
      /\ req'[w].pc = "forget" /\ req'[w].code = k /\ req'[w].phone = req[w].phone
  <2>1. req' = [req EXCEPT ![w] = [req[w] EXCEPT !.pc = "forget"]]
    BY <1>1 DEF Goto
  <2>2. /\ [req[w] EXCEPT !.pc = "forget"].pc = "forget"
        /\ [req[w] EXCEPT !.pc = "forget"].code = req[w].code
        /\ [req[w] EXCEPT !.pc = "forget"].phone = req[w].phone
    BY <1>2, Carried
  <2> QED
    BY <2>1, <2>2 DEF TypeOK
<1>6. \A x \in Workers : req'[x].pc \in {"reset", "forget"} =>
         /\ req'[x].code \in 1 .. Len(uses')
         /\ \A q \in Phones : code'[q] = req'[x].code => q = req'[x].phone
  <2> SUFFICES ASSUME NEW x \in Workers, req'[x].pc \in {"reset", "forget"}
               PROVE  /\ req'[x].code \in 1 .. Len(uses')
                      /\ \A q \in Phones : code'[q] = req'[x].code => q = req'[x].phone
    OBVIOUS
  <2>1. req[x].pc \in {"reset", "forget"} /\ req'[x].code = req[x].code /\ req'[x].phone = req[x].phone
    BY <1>2, <1>5
  <2> QED
    BY <1>1, <1>4, <2>1 DEF ResetInv
<1>7. ASSUME NEW c \in 1 .. Len(uses')
      PROVE  /\ Stored(c)' => uses'[c] <= Cardinality(Forgetting(c)') + Excused'
             /\ ~Stored(c)' => uses'[c] + Cardinality(Resetting(c)') <= Cardinality(Workers) + Excused'
  <2>1. c \in 1 .. Len(uses) /\ Stored(c)' = Stored(c) /\ Excused' = Excused
    BY <1>1, <1>4, <1>7 DEF Stored, Excused
  <2>2. CASE c = k
    <3>1. uses'[c] = uses[c] + 1 /\ uses[c] \in Nat
      BY <1>3, <1>4, <2>1, <2>2
    <3>2. /\ w \notin Forgetting(c) /\ Forgetting(c)' = Forgetting(c) \cup {w}
          /\ w \in Resetting(c) /\ Resetting(c)' = Resetting(c) \ {w}
      BY <1>2, <1>5, <2>2 DEF Forgetting, Resetting, At
    <3>3. Cardinality(Forgetting(c)') = Cardinality(Forgetting(c)) + 1
      BY <3>2, ResetFinite, FS_AddElement
    <3>4. Cardinality(Resetting(c)') = Cardinality(Resetting(c)) - 1
      BY <3>2, ResetFinite, FS_RemoveElement
    <3>5. /\ Stored(c) => uses[c] <= Cardinality(Forgetting(c)) + Excused
          /\ ~Stored(c) => uses[c] + Cardinality(Resetting(c)) <= Cardinality(Workers) + Excused
      BY <2>1 DEF ResetInv
    <3>6. CASE Stored(c)
      BY <2>1, <3>1, <3>3, <3>5, <3>6, ResetFinite, ExcusedType
    <3>7. CASE ~Stored(c)
      BY <2>1, <3>1, <3>4, <3>5, <3>7, ResetFinite, ExcusedType
    <3> QED
      BY <3>6, <3>7
  <2>3. CASE c # k
    <3>1. Forgetting(c)' = Forgetting(c) /\ Resetting(c)' = Resetting(c) /\ uses'[c] = uses[c]
      BY <1>4, <1>5, <2>1, <2>3 DEF Forgetting, Resetting, At
    <3> QED
      BY <1>1, <2>1, <3>1, ResetBound
  <2> QED
    BY <2>2, <2>3
<1> QED
  BY <1>1, <1>4, <1>6, <1>7 DEF ResetInv

\* A key is deleted: its code is gone, and if the key held a newer one, that is.
LEMMA ResetForgotten ==
    ASSUME TypeOK, ResetInv, NEW w \in Workers, ForgetCode(w)
    PROVE  ResetInv'
<1> DEFINE k == req[w].code
           p == req[w].phone
<1>1. /\ At(w, "forget") /\ UNCHANGED <<uses, faults>>
      /\ code' = [code EXCEPT ![p] = 0]
  BY DEF ForgetCode
<1>2. /\ req[w].pc = "forget" /\ k \in 1 .. Len(uses) /\ p \in Phones
      /\ \A q \in Phones : code[q] = k => q = p
  BY <1>1, Carried DEF At, ResetInv
<1>3. (\A x \in Workers \ {w} : req'[x] = req[x]) /\ req'[w].pc = "idle"
  BY DEF ForgetCode, Done, Goto, TypeOK
<1>4. \A q \in Phones : code'[q] = IF q = p THEN 0 ELSE code[q]
  BY <1>1 DEF TypeOK
<1>5. \A q \in Phones : code'[q] <= Len(uses')
  BY <1>1, <1>4 DEF ResetInv, TypeOK
<1>6. \A q, r \in Phones : code'[q] = code'[r] /\ code'[q] # 0 => q = r
  BY <1>4 DEF ResetInv
<1>7. \A x \in Workers : req'[x].pc \in {"reset", "forget"} =>
         /\ req'[x].code \in 1 .. Len(uses')
         /\ \A q \in Phones : code'[q] = req'[x].code => q = req'[x].phone
  <2> SUFFICES ASSUME NEW x \in Workers, req'[x].pc \in {"reset", "forget"}
               PROVE  /\ req'[x].code \in 1 .. Len(uses')
                      /\ \A q \in Phones : code'[q] = req'[x].code => q = req'[x].phone
    OBVIOUS
  <2>1. req'[x] = req[x]
    BY <1>3
  <2>2. req[x].code \in 1 .. Len(uses) /\ \A q \in Phones : code[q] = req[x].code => q = req[x].phone
    BY <2>1 DEF ResetInv
  <2>3. req[x].code # 0
    BY <2>2
  <2> QED
    BY <1>1, <1>4, <2>1, <2>2, <2>3
<1>8. ASSUME NEW c \in 1 .. Len(uses')
      PROVE  /\ Stored(c)' => uses'[c] <= Cardinality(Forgetting(c)') + Excused'
             /\ ~Stored(c)' => uses'[c] + Cardinality(Resetting(c)') <= Cardinality(Workers) + Excused'
  <2>1. c \in 1 .. Len(uses) /\ c # 0 /\ uses'[c] = uses[c]
    BY <1>1, <1>8
  <2>2. Stored(c)' => Stored(c) /\ c # k
    BY <1>2, <1>4, <2>1 DEF Stored
  <2>3. c # k => Forgetting(c)' = Forgetting(c)
    BY <1>2, <1>3 DEF Forgetting, At
  <2>4. Resetting(c)' \subseteq Resetting(c)
    BY <1>3 DEF Resetting, At
  <2> QED
    BY <1>1, <2>1, <2>2, <2>3, <2>4, ResetBound
<1> QED
  BY <1>5, <1>6, <1>7, <1>8 DEF ResetInv

\* A failure excuses as many uses as handlers can have been about to delete.
LEMMA ResetFault ==
    ASSUME TypeOK, ResetInv, Fault
    PROVE  ResetInv'
<1>1. UNCHANGED <<code, uses>> /\ faults' = faults + 1
  BY DEF Fault
<1>2. \A x \in Workers : req'[x] \in {req[x], [pc |-> "idle"]}
  BY DEF Fault, Done, Goto, TypeOK
<1>3. Excused' = Excused + Cardinality(Workers) /\ Excused \in Nat
  <2>1. faults \in Nat /\ Cardinality(Workers) \in Nat
    BY TokensFinite, SessionsAssumption DEF TypeOK
  <2>2. \A a, b \in Nat : a * (b + 1) = a * b + a
    OBVIOUS
  <2> QED
    BY <1>1, <2>1, <2>2, ExcusedType DEF Excused
<1>4. \A x \in Workers : req'[x].pc \in {"reset", "forget"} =>
         /\ req'[x].code \in 1 .. Len(uses')
         /\ \A q \in Phones : code'[q] = req'[x].code => q = req'[x].phone
  BY <1>1, <1>2 DEF ResetInv
<1>5. ASSUME NEW c \in 1 .. Len(uses')
      PROVE  /\ Stored(c)' => uses'[c] <= Cardinality(Forgetting(c)') + Excused'
             /\ ~Stored(c)' => uses'[c] + Cardinality(Resetting(c)') <= Cardinality(Workers) + Excused'
  <2>1. c \in 1 .. Len(uses) /\ Stored(c)' = Stored(c) /\ uses'[c] = uses[c] /\ uses[c] \in Nat
    BY <1>1, <1>5 DEF Stored, TypeOK
  <2>2. Resetting(c)' \subseteq Resetting(c) /\ Forgetting(c)' \subseteq Forgetting(c)
    BY <1>2 DEF Resetting, Forgetting, At
  <2>3. /\ Cardinality(Resetting(c)') <= Cardinality(Resetting(c))
        /\ Cardinality(Resetting(c)') \in Nat /\ Cardinality(Forgetting(c)') \in Nat
    BY <2>2, ResetFinite, Smaller
  <2>4. /\ Stored(c) => uses[c] <= Cardinality(Forgetting(c)) + Excused
        /\ ~Stored(c) => uses[c] + Cardinality(Resetting(c)) <= Cardinality(Workers) + Excused
    BY <2>1 DEF ResetInv
  <2>5. CASE Stored(c)
    BY <1>3, <2>1, <2>3, <2>4, <2>5, ResetFinite, TokensFinite
  <2>6. CASE ~Stored(c)
    BY <1>3, <2>1, <2>3, <2>4, <2>6, ResetFinite, TokensFinite
  <2> QED
    BY <2>5, <2>6
<1> QED
  BY <1>1, <1>4, <1>5 DEF ResetInv

LEMMA ResetNext == ASSUME TypeOK, ResetInv, Next PROVE ResetInv'
\* A handler moves on, and not to a reset.
<1>1. ASSUME NEW w \in Workers, Goto(w, req'[w]), req'[w].pc \notin {"reset", "forget"}, req[w].pc # "forget",
             UNCHANGED <<code, uses, faults>>
      PROVE  ResetInv'
  <2>1. \A x \in Workers : req'[x] = IF x = w THEN req'[w] ELSE req[x]
    BY <1>1 DEF Goto, TypeOK
  <2> QED
    BY <1>1, <2>1, ResetQuiet
<1>2. ASSUME UNCHANGED <<req, uses, faults>>, \A p \in Phones : code'[p] \in {0, code[p]}
      PROVE  ResetInv'
  BY <1>2, ResetQuiet
<1>3. ASSUME NEW w \in Workers, Arrive(w) PROVE ResetInv'
  <2>1. ASSUME NEW p \in Phones, ResetStart(w, p) PROVE ResetInv'
    BY <2>1, ResetRead
  <2>2. ASSUME ~ \E p \in Phones : ResetStart(w, p) PROVE ResetInv'
    <3>1. /\ UNCHANGED <<code, uses, faults>> /\ Goto(w, req'[w])
          /\ req'[w].pc \notin {"reset", "forget"} /\ req[w].pc # "forget"
      BY <1>3, <2>2
      DEF Arrive, RequestOtp, VerifyStart, RegisterStart, LoginStart, ChangeStart, RefreshStart, Goto, At, TypeOK
    <3> QED
      BY <1>1, <3>1
  <2> QED
    BY <2>1, <2>2
<1>4. ASSUME NEW w \in Workers, Continue(w) PROVE ResetInv'
  <2>1. CASE CommitReset(w)
    BY <2>1, ResetUsed
  <2>2. CASE ForgetCode(w)
    BY <2>2, ResetForgotten
  <2>3. CASE Increment(w) \/ SetExpiry(w) \/ ClearAttempts(w)
    <3>1. /\ req[w].pc \in {"increment", "expire", "clear"}
          /\ \E pc \in {"expire", "account", "open"} : Goto(w, [req[w] EXCEPT !.pc = pc])
          /\ UNCHANGED <<code, uses, faults>>
      BY <2>3 DEF Increment, SetExpiry, ClearAttempts, At
    <3>2. PICK pc \in {"expire", "account", "open"} : Goto(w, [req[w] EXCEPT !.pc = pc])
      BY <3>1
    <3>3. [req[w] EXCEPT !.pc = pc].pc = pc
      BY <3>1 DEF TypeOK, Request
    <3>4. Goto(w, req'[w]) /\ req'[w].pc = pc
      BY <3>2, <3>3 DEF Goto, TypeOK
    <3> QED
      BY <1>1, <3>1, <3>4
  <2>4. CASE FindAccount(w)
    <3>1. Goto(w, req'[w]) /\ req'[w].pc \in {"idle", "code"}
      BY <2>4 DEF FindAccount, Done, Goto, TypeOK
    <3> QED
      BY <1>1, <2>4, <3>1 DEF FindAccount, At
  <2>5. CASE \/ CommitOtp(w) \/ NotUnique(w) \/ CommitVerify(w) \/ CommitRegister(w) \/ CommitLogin(w)
             \/ CommitChange(w) \/ CommitRefresh(w)
    <3>1. Done(w) /\ UNCHANGED <<code, uses, faults>> /\ req[w].pc # "forget"
      BY <2>5 DEF CommitOtp, NotUnique, CommitVerify, CommitRegister, CommitLogin, CommitChange, CommitRefresh, At
    <3>2. Goto(w, req'[w]) /\ req'[w].pc = "idle"
      BY <3>1 DEF Done, Goto, TypeOK
    <3> QED
      BY <1>1, <3>1, <3>2
  <2> QED
    BY <1>4, <2>1, <2>2, <2>3, <2>4, <2>5 DEF Continue
<1>5. ASSUME NEW p \in Phones, ForgotPassword(p) PROVE ResetInv'
  BY <1>5, ResetIssued
<1>6. ASSUME NEW p \in Phones, Onboard(p) \/ SetActive(p) \/ WindowEnds(p) PROVE ResetInv'
  BY <1>6, <1>2 DEF Onboard, SetActive, WindowEnds
<1>7. ASSUME NEW p \in Phones, CodeExpires(p) PROVE ResetInv'
  <2>1. \A q \in Phones : code'[q] \in {0, code[q]}
    BY <1>7 DEF CodeExpires, TypeOK
  <2> QED
    BY <1>7, <2>1, <1>2 DEF CodeExpires
<1>8. ASSUME NEW n \in Token, Logout(n) \/ TokenExpires(n) PROVE ResetInv'
  BY <1>8, <1>2 DEF Logout, TokenExpires
<1>9. ASSUME NEW o \in Otp, OtpExpires(o) PROVE ResetInv'
  BY <1>9, <1>2 DEF OtpExpires
<1>10. CASE Fault
  BY <1>10, ResetFault
<1> QED
  BY <1>3, <1>4, <1>5, <1>6, <1>7, <1>8, <1>9, <1>10 DEF Next

\* reset_password: a code changes the password once for each handler that read
\* it together with the first, and again only after a failure.
THEOREM ResetCodeUsedUpAlways == Spec => []ResetCodeUsedUp
<1>1. Init => TypeOK /\ ResetInv
  BY TypeInit, ResetInit
<1>2. TypeOK /\ ResetInv /\ [Next]_vars => TypeOK' /\ ResetInv'
  <2>1. ASSUME TypeOK, ResetInv, UNCHANGED vars PROVE TypeOK' /\ ResetInv'
    <3>1. TypeOK'
      BY <2>1 DEF TypeOK, vars
    <3>2. ResetInv'
      BY <2>1, ResetQuiet DEF vars
    <3> QED
      BY <3>1, <3>2
  <2> QED
    BY <2>1, TypeNext, ResetNext
<1>3. TypeOK /\ ResetInv => ResetCodeUsedUp
  <2> SUFFICES ASSUME TypeOK, ResetInv, NEW c \in 1 .. Len(uses)
               PROVE  uses[c] <= Cardinality(Workers) * (1 + faults)
    BY DEF ResetCodeUsedUp
  <2>1. uses[c] \in Nat /\ faults \in Nat /\ Cardinality(Workers) \in Nat
    BY TokensFinite, SessionsAssumption DEF TypeOK
  <2>2. Cardinality(Workers) * (1 + faults) = Cardinality(Workers) + Excused
    <3>1. \A a, b \in Nat : a * (1 + b) = a + a * b
      OBVIOUS
    <3> QED
      BY <2>1, <3>1 DEF Excused
  <2>3. /\ Stored(c) => uses[c] <= Cardinality(Forgetting(c)) + Excused
        /\ ~Stored(c) => uses[c] + Cardinality(Resetting(c)) <= Cardinality(Workers) + Excused
    BY DEF ResetInv
  <2>4. CASE Stored(c)
    BY <2>1, <2>2, <2>3, <2>4, ResetFinite, ExcusedType
  <2>5. CASE ~Stored(c)
    BY <2>1, <2>2, <2>3, <2>5, ResetFinite, ExcusedType
  <2> QED
    BY <2>4, <2>5
<1> QED
  BY <1>1, <1>2, <1>3, PTL DEF Spec

-----------------------------------------------------------------------------
(* The windows of the limiter *)

\* The phone numbers whose counter will not end.
Stuck == {p \in Phones : attempts[p].count > 0 /\ ~attempts[p].expires
            /\ \A w \in Workers : At(w, "expire") => req[w].phone # p}

LEMMA StuckFinite == IsFiniteSet(Stuck) /\ Cardinality(Stuck) \in Nat
<1>1. Stuck \subseteq Phones /\ IsFiniteSet(Phones)
  BY SessionsAssumption DEF Stuck
<1> QED
  BY <1>1, Smaller

LEMMA StuckInit == Init => Cardinality(Stuck) <= Excused
<1> SUFFICES ASSUME Init PROVE Cardinality(Stuck) <= Excused
  OBVIOUS
<1>1. Stuck = {}
  BY DEF Init, NoCounter, Stuck
<1>2. Excused \in Nat
  BY TypeInit, ExcusedType
<1> QED
  BY <1>1, <1>2, FS_EmptySet

LEMMA StuckQuiet ==
    ASSUME TypeOK, UNCHANGED faults, Cardinality(Stuck) <= Excused, Stuck' \subseteq Stuck
    PROVE  Cardinality(Stuck') <= Excused'
<1>1. Cardinality(Stuck') <= Cardinality(Stuck) /\ Cardinality(Stuck') \in Nat
  BY StuckFinite, Smaller
<1>2. Excused' = Excused /\ Excused \in Nat
  BY ExcusedType DEF Excused
<1> QED
  BY <1>1, <1>2, StuckFinite

\* A handler that sets no expiry moves on.
LEMMA StuckMove ==
    ASSUME TypeOK, NEW w \in Workers, Goto(w, req'[w]), ~At(w, "expire"),
           \A p \in Phones : attempts'[p].count = 0 \/ attempts'[p] = attempts[p]
    PROVE  Stuck' \subseteq Stuck
<1>1. \A x \in Workers : At(x, "expire") => At(x, "expire")' /\ req'[x] = req[x]
  BY DEF At, Goto, TypeOK
<1>2. \A p \in Phones : attempts'[p].count > 0 /\ ~attempts'[p].expires => attempts'[p] = attempts[p]
  OBVIOUS
<1> QED
  BY <1>1, <1>2 DEF Stuck

\* The first of a window is about to set its expiry, the others need not.
LEMMA StuckIncrement ==
    ASSUME TypeOK, NEW w \in Workers, Increment(w)
    PROVE  Stuck' \subseteq Stuck
<1> DEFINE q == req[w].phone
           pc == IF attempts[q].count = 0 THEN "expire" ELSE "account"
<1>1. /\ At(w, "increment") /\ Goto(w, [req[w] EXCEPT !.pc = pc])
      /\ attempts' = [attempts EXCEPT ![q].count = @ + 1, ![q].passed = @ + 1]
  BY DEF Increment
<1>2. req[w].pc = "increment" /\ q \in Phones
  BY <1>1, Carried DEF At
<1>3. req'[w].pc = pc /\ req'[w].phone = q
  <2>1. [req[w] EXCEPT !.pc = pc].pc = pc /\ [req[w] EXCEPT !.pc = pc].phone = q
    BY <1>2, Carried
  <2>2. req'[w] = [req[w] EXCEPT !.pc = pc]
    BY <1>1 DEF Goto, TypeOK
  <2> QED
    BY <2>1, <2>2
<1>4. \A x \in Workers : At(x, "expire") => At(x, "expire")' /\ req'[x] = req[x]
  BY <1>1, <1>2 DEF At, Goto, TypeOK
<1>5. \A p \in Phones \ {q} : attempts'[p] = attempts[p]
  BY <1>1 DEF TypeOK
<1>6. /\ attempts[q] \in Counter
      /\ attempts'[q] = [attempts[q] EXCEPT !.count = attempts[q].count + 1, !.passed = attempts[q].passed + 1]
  BY <1>1, <1>2 DEF TypeOK
<1>7. attempts'[q].expires = attempts[q].expires
  BY <1>6 DEF Counter
<1> SUFFICES ASSUME NEW p \in Stuck' PROVE p \in Stuck
  OBVIOUS
<1>8. /\ p \in Phones /\ attempts'[p].count > 0 /\ ~attempts'[p].expires
      /\ \A x \in Workers : At(x, "expire")' => req'[x].phone # p
  BY DEF Stuck
<1>9. \A x \in Workers : At(x, "expire") => req[x].phone # p
  BY <1>4, <1>8
<1>10. CASE p # q
  BY <1>5, <1>8, <1>9, <1>10 DEF Stuck
<1>11. CASE p = q
  <2>1. attempts[q].count # 0
    BY <1>3, <1>8, <1>11 DEF At
  <2>2. attempts[q].count > 0
    BY <1>6, <2>1 DEF Counter
  <2> QED
    BY <1>7, <1>8, <1>9, <1>11, <2>2 DEF Stuck
<1> QED
  BY <1>10, <1>11

\* The counter of the handler that leaves has its expiry.
LEMMA StuckSetExpiry ==
    ASSUME TypeOK, NEW w \in Workers, SetExpiry(w)
    PROVE  Stuck' \subseteq Stuck
<1> DEFINE q == req[w].phone
<1>1. /\ At(w, "expire") /\ Goto(w, [req[w] EXCEPT !.pc = "account"])
      /\ attempts' = [attempts EXCEPT ![q].expires = attempts[q].count > 0]
  BY DEF SetExpiry
<1>2. q \in Phones
  BY <1>1, Carried DEF At
<1>3. \A x \in Workers \ {w} : req'[x] = req[x]
  BY <1>1 DEF Goto, TypeOK
<1>4. \A p \in Phones \ {q} : attempts'[p] = attempts[p]
  BY <1>1 DEF TypeOK
<1>5. /\ attempts[q] \in Counter
      /\ attempts'[q] = [attempts[q] EXCEPT !.expires = attempts[q].count > 0]
  BY <1>1, <1>2 DEF TypeOK
<1>6. attempts'[q].count = attempts[q].count /\ (attempts'[q].count > 0 => attempts'[q].expires)
  <2>1. \A b : /\ [attempts[q] EXCEPT !.expires = b].count = attempts[q].count
               /\ [attempts[q] EXCEPT !.expires = b].expires = b
    BY <1>5 DEF Counter
  <2> QED
    BY <1>5, <2>1
<1> SUFFICES ASSUME NEW p \in Stuck' PROVE p \in Stuck
  OBVIOUS
<1>7. /\ p \in Phones /\ attempts'[p].count > 0 /\ ~attempts'[p].expires
      /\ \A x \in Workers : At(x, "expire")' => req'[x].phone # p
  BY DEF Stuck
<1>8. p # q
  BY <1>6, <1>7
<1>9. \A x \in Workers : At(x, "expire") => req[x].phone # p
  BY <1>3, <1>7, <1>8 DEF At
<1> QED
  BY <1>4, <1>7, <1>8, <1>9 DEF Stuck

\* A failure leaves at most the counters of the handlers it ended.
LEMMA StuckFault ==
    ASSUME TypeOK, Cardinality(Stuck) <= Excused, Fault
    PROVE  Cardinality(Stuck') <= Excused'
<1> DEFINE S == {w \in Workers : At(w, "expire")}
           f == [w \in S |-> req[w].phone]
           T == {f[w] : w \in S}
<1>1. attempts' = attempts /\ faults' = faults + 1
  BY DEF Fault
<1>2. S \subseteq Workers
  OBVIOUS
<1>3. IsFiniteSet(S) /\ Cardinality(S) <= Cardinality(Workers) /\ Cardinality(S) \in Nat
  BY <1>2, TokensFinite, Smaller
<1>4. f \in Surjection(S, T)
  BY DEF Surjection
<1>5. IsFiniteSet(T) /\ Cardinality(T) <= Cardinality(S)
  BY <1>3, <1>4, FS_Surjection
<1>6. Cardinality(T) \in Nat
  BY <1>5, FS_CardinalityType
<1>7. Stuck' \subseteq Stuck \cup T
  <2> SUFFICES ASSUME NEW p \in Stuck', p \notin T PROVE p \in Stuck
    OBVIOUS
  <2>1. p \in Phones /\ attempts[p].count > 0 /\ ~attempts[p].expires
    BY <1>1 DEF Stuck
  <2>2. \A w \in Workers : At(w, "expire") => req[w].phone # p
    OBVIOUS
  <2> QED
    BY <2>1, <2>2 DEF Stuck
<1>8. /\ IsFiniteSet(Stuck \cup T)
      /\ Cardinality(Stuck \cup T) = Cardinality(Stuck) + Cardinality(T) - Cardinality(Stuck \cap T)
  BY <1>5, StuckFinite, FS_Union
<1>9. Cardinality(Stuck \cap T) \in Nat
  BY <1>5, Smaller, Stuck \cap T \subseteq T
<1>10. Cardinality(Stuck') <= Cardinality(Stuck \cup T)
  BY <1>7, <1>8, Smaller
<1>11. Excused' = Excused + Cardinality(Workers) /\ Excused \in Nat
  <2>1. faults \in Nat /\ Cardinality(Workers) \in Nat
    BY TokensFinite, SessionsAssumption DEF TypeOK
  <2>2. \A a, b \in Nat : a * (b + 1) = a * b + a
    OBVIOUS
  <2> QED
    BY <1>1, <2>1, <2>2, ExcusedType DEF Excused
<1>12. Cardinality(Stuck') \in Nat
  BY <1>7, <1>8, Smaller
<1> HIDE DEF S, f, T
<1> QED
  BY <1>3, <1>5, <1>6, <1>8, <1>9, <1>10, <1>11, <1>12, StuckFinite, TokensFinite

LEMMA StuckNext ==
    ASSUME TypeOK, Cardinality(Stuck) <= Excused, Next
    PROVE  Cardinality(Stuck') <= Excused'
<1>1. ASSUME NEW w \in Workers, Goto(w, req'[w]), ~At(w, "expire"), UNCHANGED <<attempts, faults>>
      PROVE  Cardinality(Stuck') <= Excused'
  BY <1>1, StuckMove, StuckQuiet
<1>2. ASSUME UNCHANGED <<req, attempts, faults>>
      PROVE  Cardinality(Stuck') <= Excused'
  <2>1. Stuck' = Stuck
    BY <1>2 DEF Stuck, At
  <2> QED
    BY <1>2, <2>1, StuckQuiet
<1>3. ASSUME NEW w \in Workers, Arrive(w) PROVE Cardinality(Stuck') <= Excused'
  <2>1. At(w, "idle") /\ UNCHANGED <<attempts, faults>> /\ Goto(w, req'[w])
    BY <1>3
    DEF Arrive, RequestOtp, VerifyStart, RegisterStart, LoginStart, ChangeStart, ResetStart, RefreshStart, Goto, TypeOK
  <2> QED
    BY <1>1, <2>1 DEF At
<1>4. ASSUME NEW w \in Workers, Continue(w) PROVE Cardinality(Stuck') <= Excused'
  <2>1. CASE Increment(w)
    BY <2>1, StuckIncrement, StuckQuiet DEF Increment
  <2>2. CASE SetExpiry(w)
    BY <2>2, StuckSetExpiry, StuckQuiet DEF SetExpiry
  <2>3. CASE ClearAttempts(w)
    <3>1. ~At(w, "expire") /\ Goto(w, req'[w]) /\ UNCHANGED faults
      BY <2>3 DEF ClearAttempts, Goto, At, TypeOK
    <3>2. \A p \in Phones : attempts'[p].count = 0 \/ attempts'[p] = attempts[p]
      BY <2>3 DEF ClearAttempts, TypeOK, Counter
    <3> QED
      BY <3>1, <3>2, StuckMove, StuckQuiet
  <2>4. CASE FindAccount(w) \/ CommitReset(w)
    <3>1. ~At(w, "expire") /\ Goto(w, req'[w]) /\ UNCHANGED <<attempts, faults>>
      BY <2>4 DEF FindAccount, CommitReset, Done, Goto, At, TypeOK
    <3> QED
      BY <3>1, <1>1
  <2>5. CASE \/ CommitOtp(w) \/ NotUnique(w) \/ CommitVerify(w) \/ CommitRegister(w) \/ CommitLogin(w)
             \/ CommitChange(w) \/ ForgetCode(w) \/ CommitRefresh(w)
    <3>1. ~At(w, "expire") /\ Done(w) /\ UNCHANGED <<attempts, faults>>
      BY <2>5
      DEF CommitOtp, NotUnique, CommitVerify, CommitRegister, CommitLogin, CommitChange, ForgetCode, CommitRefresh, At
    <3>2. Goto(w, req'[w])
      BY <3>1 DEF Done, Goto, TypeOK
    <3> QED
      BY <3>1, <3>2, <1>1
  <2> QED
    BY <1>4, <2>1, <2>2, <2>3, <2>4, <2>5 DEF Continue
<1>5. ASSUME NEW p \in Phones, Onboard(p) \/ ForgotPassword(p) \/ SetActive(p) \/ CodeExpires(p)
      PROVE  Cardinality(Stuck') <= Excused'
  BY <1>5, <1>2 DEF Onboard, ForgotPassword, SetActive, CodeExpires
<1>6. ASSUME NEW p \in Phones, WindowEnds(p) PROVE Cardinality(Stuck') <= Excused'
  <2>1. \A q \in Phones : attempts'[q] \in {NoCounter, attempts[q]}
    BY <1>6 DEF WindowEnds, TypeOK
  <2>2. UNCHANGED <<req, faults>>
    BY <1>6 DEF WindowEnds
  <2>3. \A q \in Phones : attempts'[q].count > 0 /\ ~attempts'[q].expires => attempts'[q] = attempts[q]
    BY <2>1 DEF NoCounter
  <2>4. Stuck' \subseteq Stuck
    BY <2>2, <2>3 DEF Stuck, At
  <2> QED
    BY <2>2, <2>4, StuckQuiet
<1>7. ASSUME NEW n \in Token, Logout(n) \/ TokenExpires(n) PROVE Cardinality(Stuck') <= Excused'
  BY <1>7, <1>2 DEF Logout, TokenExpires
<1>8. ASSUME NEW o \in Otp, OtpExpires(o) PROVE Cardinality(Stuck') <= Excused'
  BY <1>8, <1>2 DEF OtpExpires
<1>9. CASE Fault
  BY <1>9, StuckFault
<1> QED
  BY <1>3, <1>4, <1>5, <1>6, <1>7, <1>8, <1>9 DEF Next

\* OTPRateLimiter sets the expiry after the first INCR of a window: only a
\* failure between the two leaves a phone number that stays blocked.
THEOREM CountersExpireAlways == Spec => []CountersExpire
<1> DEFINE Inv == TypeOK /\ Cardinality(Stuck) <= Excused
<1>1. Init => Inv
  BY TypeInit, StuckInit
<1>2. Inv /\ [Next]_vars => Inv'
  <2>1. ASSUME Inv, UNCHANGED vars PROVE Inv'
    <3>1. TypeOK'
      BY <2>1 DEF TypeOK, vars
    <3>2. Stuck' = Stuck /\ Excused' = Excused
      BY <2>1 DEF Stuck, Excused, At, vars
    <3> QED
      BY <2>1, <3>1, <3>2
  <2>2. ASSUME Inv, Next PROVE Inv'
    BY <2>2, TypeNext, StuckNext
  <2> QED
    BY <2>1, <2>2
<1>3. Inv => CountersExpire
  <2> SUFFICES ASSUME Inv PROVE Cardinality(Stuck) <= faults * Cardinality(Workers)
    BY DEF CountersExpire, Stuck
  <2>1. faults \in Nat /\ Cardinality(Workers) \in Nat
    BY TokensFinite, SessionsAssumption DEF TypeOK
  <2>2. \A a, b \in Nat : a * b = b * a
    OBVIOUS
  <2> QED
    BY <2>1, <2>2 DEF Excused
<1> QED
  BY <1>1, <1>2, <1>3, PTL DEF Spec

=============================================================================
