---------------------------- MODULE Accounts_proofs ----------------------------
(***************************************************************************)
(* Proofs about signing in and the founding campaign, for any telephones,  *)
(* accounts, calls and limits: first about each part alone (SignIn,        *)
(* Founding), then that it holds of the whole, and that the founders are   *)
(* verified customers.                                                     *)
(***************************************************************************)
EXTENDS Accounts, TLAPS

-----------------------------------------------------------------------------
(* Signing in *)

\* How far a call is when its code was accepted, or its account recognised.
Accepted == {"proved", "unknown", "unverified", "verified", "linked"}

\* A call names codes that were sent.
CodesExist == \A c \in Calls :
    call[c].pc \in {"comparing"} \cup Accepted => call[c].code \in 0..Len(codes)

\* An accepted code is in the hands of one call, and has opened nothing yet.
CodeIsHeldOnce ==
    /\ \A c \in Calls : call[c].pc \in Accepted /\ call[c].code # 0 =>
           codes[call[c].code].used /\ codes[call[c].code].signIns = 0
    /\ \A c, d \in Calls :
           /\ call[c].pc \in Accepted /\ call[d].pc \in Accepted
           /\ call[c].code = call[d].code /\ call[c].code # 0
           => c = d
    /\ \A i \in DOMAIN codes : ~codes[i].used => codes[i].signIns = 0

\* A call that is about to open a session has made sure of the customer.
CallerIsSure == \A c \in Calls :
    /\ call[c].pc = "verified" => customer[Caller(c)].verified
    /\ call[c].pc = "linked" => link[call[c].by] = Caller(c) /\ Caller(c) # NoOne

IInv ==
    /\ SignInTypeOK /\ AttemptsBounded /\ CodeSignsInOnce
    /\ AccountSignsInOne /\ VerifiedBeforeSession
    /\ CodesExist /\ CodeIsHeldOnce /\ CallerIsSure

USE SignInAssumptions DEF New, Valid, Expired, Deleted, NoOne

LEMMA InitInv == Init => IInv
  BY DEF Init, NoCustomer, IInv, SignInTypeOK, AttemptsBounded, CodeSignsInOnce, AccountSignsInOne,
         VerifiedBeforeSession, CodesExist, CodeIsHeldOnce, CallerIsSure, Accepted, CallState

\* What a call knows of its code and its customer.
LEMMA CallFacts ==
  ASSUME IInv, NEW c \in Calls, call[c].pc \in {"comparing"} \cup Accepted
  PROVE  /\ call[c] = [pc |-> call[c].pc, code |-> call[c].code, by |-> call[c].by]
         /\ call[c].code \in 0..MaxCodes /\ call[c].code \in 0..Len(codes)
         /\ call[c].pc # "linked" => call[c].code \in 1..MaxCodes
         /\ call[c].code # 0 => codes[call[c].code] \in Code
         /\ call[c].by \in Subjects \cup {Phone}
         /\ call[c].pc = "linked" => call[c].by \in Subjects
         /\ Caller(c) \in Phones
<1>1. \/ call[c] \in [pc : {"comparing", "proved", "unknown", "unverified", "verified"},
                        code : 1..MaxCodes, by : Subjects \cup {Phone}]
      \/ call[c] \in [pc : {"linked"}, code : 0..MaxCodes, by : Subjects]
  BY DEF IInv, SignInTypeOK, CallState, Accepted
<1>2. call[c].code \in 0..Len(codes)
  BY DEF IInv, CodesExist
<1>3. /\ call[c] = [pc |-> call[c].pc, code |-> call[c].code, by |-> call[c].by]
      /\ call[c].code \in 0..MaxCodes
      /\ call[c].pc # "linked" => call[c].code \in 1..MaxCodes
      /\ call[c].by \in Subjects \cup {Phone}
      /\ call[c].pc = "linked" => call[c].by \in Subjects
  BY <1>1
<1>4. codes \in Seq(Code)
  BY DEF IInv, SignInTypeOK
<1>5. call[c].code # 0 => codes[call[c].code] \in Code
  BY <1>2, <1>4
<1>6. Caller(c) \in Phones
  <2>1. CASE call[c].code # 0
    BY <1>5, <2>1 DEF Caller, Code
  <2>2. CASE call[c].code = 0
    <3>1. call[c].pc = "linked" /\ call[c].by \in Subjects
      BY <1>1, <2>2
    <3>2. link[call[c].by] \in Phones \cup {NoOne}
      BY <3>1 DEF IInv, SignInTypeOK
    <3>3. link[call[c].by] # NoOne
      BY <3>1 DEF IInv, CallerIsSure
    <3> QED BY <2>2, <3>2, <3>3 DEF Caller
  <2> QED BY <2>1, <2>2
<1> QED BY <1>2, <1>3, <1>5, <1>6

\* A call that begins, or ends, or only reads.
LEMMA AskForCodeInv ==
  ASSUME IInv, NEW c \in Calls, NEW p \in Phones, AskForCode(c, p)
  PROVE  IInv'
  BY SMTT(30) DEF AskForCode, Go, IInv, SignInTypeOK, AttemptsBounded, CodeSignsInOnce,
             AccountSignsInOne, VerifiedBeforeSession, CodesExist, CodeIsHeldOnce,
             CallerIsSure, Accepted, Caller, CallState

LEMMA FindCodeInv ==
  ASSUME IInv, NEW c \in Calls, NEW p \in Phones, NEW s \in Subjects \cup {Phone},
         FindCode(c, p, s)
  PROVE  IInv'
  BY SMTT(30) DEF FindCode, CodesOf, Go, IInv, SignInTypeOK, AttemptsBounded, CodeSignsInOnce,
             AccountSignsInOne, VerifiedBeforeSession, CodesExist, CodeIsHeldOnce,
             CallerIsSure, Accepted, Caller, CallState

LEMMA FailInv ==
  ASSUME IInv, NEW c \in Calls, Fail(c)
  PROVE  IInv'
  BY SMTT(30) DEF Fail, Done, Go, IInv, SignInTypeOK, AttemptsBounded, CodeSignsInOnce,
             AccountSignsInOne, VerifiedBeforeSession, CodesExist, CodeIsHeldOnce,
             CallerIsSure, Accepted, Caller, CallState

LEMMA GoogleSignInInv ==
  ASSUME IInv, NEW c \in Calls, NEW s \in Subjects, GoogleSignIn(c, s)
  PROVE  IInv'
  BY SMTT(30) DEF GoogleSignIn, Go, IInv, SignInTypeOK, AttemptsBounded, CodeSignsInOnce,
             AccountSignsInOne, VerifiedBeforeSession, CodesExist, CodeIsHeldOnce,
             CallerIsSure, Accepted, Caller, CallState

\* What changes when a call ends, or goes on with the same code and account.
LEMMA DoneFacts ==
  ASSUME IInv, NEW c \in Calls, Done(c)
  PROVE  /\ call' \in [Calls -> CallState]
         /\ call'[c].pc = "idle"
         /\ \A d \in Calls : d # c => call'[d] = call[d]
  BY DEF IInv, SignInTypeOK, CallState, Done, Go

LEMMA ProceedFacts ==
  ASSUME IInv, NEW c \in Calls, call[c].pc \in {"comparing"} \cup Accepted,
         NEW pc, Proceed(c, pc),
         \/ pc \in {"proved", "unknown", "unverified", "verified"} /\ call[c].pc # "linked"
         \/ pc = "linked" /\ call[c].by \in Subjects
  PROVE  /\ call' \in [Calls -> CallState]
         /\ call'[c].pc = pc /\ call'[c].code = call[c].code /\ call'[c].by = call[c].by
         /\ \A d \in Calls : d # c => call'[d] = call[d]
<1>1. [pc |-> pc, code |-> call[c].code, by |-> call[c].by] \in CallState
  <2>1. /\ call[c].code \in 0..MaxCodes
        /\ call[c].pc # "linked" => call[c].code \in 1..MaxCodes
        /\ call[c].by \in Subjects \cup {Phone}
    BY CallFacts
  <2> QED BY <2>1 DEF CallState
<1> QED BY <1>1 DEF IInv, SignInTypeOK, Proceed, Go

LEMMA IdentifyInv ==
  ASSUME IInv, NEW c \in Calls, Identify(c)
  PROVE  IInv'
<1>1. PICK pc \in {"unknown", "unverified", "verified"} :
          Proceed(c, pc) /\ (pc = "verified" => customer[Caller(c)].verified)
  BY DEF Identify
<1>2. call[c].pc = "proved" /\ UNCHANGED <<codes, customer, link, sessions>>
  BY DEF Identify
<1>3. /\ call' \in [Calls -> CallState]
      /\ call'[c].pc = pc /\ call'[c].code = call[c].code /\ call'[c].by = call[c].by
      /\ \A d \in Calls : d # c => call'[d] = call[d]
  BY <1>1, <1>2, ProceedFacts DEF Accepted
<1>4. SignInTypeOK'
  BY <1>2, <1>3 DEF IInv, SignInTypeOK
<1>5. CallerIsSure'
  <2>1. \A d \in Calls : Caller(d)' = Caller(d)
    BY <1>2, <1>3 DEF Caller
  <2> QED BY <1>1, <1>2, <1>3, <2>1 DEF IInv, CallerIsSure
<1>6. CodeIsHeldOnce' /\ CodesExist'
  BY <1>1, <1>2, <1>3 DEF IInv, CodeIsHeldOnce, CodesExist, Accepted
<1> QED BY <1>2, <1>4, <1>5, <1>6 DEF IInv, AttemptsBounded, CodeSignsInOnce,
           AccountSignsInOne, VerifiedBeforeSession

LEMMA SendCodeInv ==
  ASSUME IInv, NEW c \in Calls, SendCode(c)
  PROVE  IInv'
<1>1. PICK refused \in BOOLEAN :
          codes' = Append(codes, [phone |-> call[c].phone, age |-> 0, attempts |-> 0,
                                  used |-> refused, signIns |-> 0])
  BY DEF SendCode
<1>2. Len(codes) < MaxCodes /\ UNCHANGED <<customer, link, sessions>>
  BY DEF SendCode
<1>3. /\ call' \in [Calls -> CallState]
      /\ call'[c].pc = "idle"
      /\ \A d \in Calls : d # c => call'[d] = call[d]
  BY DoneFacts DEF SendCode
<1>4. call[c].phone \in Phones
  BY DEF SendCode, IInv, SignInTypeOK, CallState
<1>5. /\ codes \in Seq(Code) /\ codes' \in Seq(Code) /\ Len(codes') = Len(codes) + 1
      /\ \A i \in 1..Len(codes) : codes'[i] = codes[i]
      /\ codes'[Len(codes) + 1].signIns = 0 /\ codes'[Len(codes) + 1].attempts = 0
  BY <1>1, <1>4 DEF IInv, SignInTypeOK, Code
<1>6. SignInTypeOK'
  BY <1>2, <1>3, <1>5 DEF IInv, SignInTypeOK
<1>7. AttemptsBounded' /\ CodeSignsInOnce'
  BY <1>5 DEF IInv, AttemptsBounded, CodeSignsInOnce
<1>8. CodesExist'
  BY <1>3, <1>5 DEF IInv, CodesExist, Accepted
<1>9. \A d \in Calls : d # c /\ call[d].pc \in Accepted => Caller(d)' = Caller(d)
  BY <1>2, <1>3, <1>5 DEF IInv, CodesExist, Caller
<1>10. CallerIsSure'
  BY <1>2, <1>3, <1>9 DEF IInv, CallerIsSure, Accepted
<1>11. CodeIsHeldOnce'
  <2>1. \A d \in Calls : call'[d].pc \in Accepted /\ call'[d].code # 0 =>
            codes'[call'[d].code].used /\ codes'[call'[d].code].signIns = 0
    BY <1>3, <1>5 DEF IInv, CodeIsHeldOnce, CodesExist, Accepted
  <2> QED BY <1>3, <1>5, <2>1 DEF IInv, CodeIsHeldOnce, Accepted
<1> QED BY <1>2, <1>6, <1>7, <1>8, <1>10, <1>11 DEF IInv, AccountSignsInOne,
           VerifiedBeforeSession

\* What becomes of a row of codes, and of the others, when one is updated.
LEMMA RowUpdated ==
  ASSUME NEW r \in Code, NEW a, NEW u
  PROVE  [r EXCEPT !.attempts = a, !.used = u] =
             [phone |-> r.phone, age |-> r.age, attempts |-> a, used |-> u,
              signIns |-> r.signIns]
<1>1. [r EXCEPT !.attempts = a, !.used = u] = [[r EXCEPT !.attempts = a] EXCEPT !.used = u]
  OBVIOUS
<1>2. [r EXCEPT !.attempts = a] = [phone |-> r.phone, age |-> r.age, attempts |-> a,
                                   used |-> r.used, signIns |-> r.signIns]
  BY DEF Code
<1>3. [[phone |-> r.phone, age |-> r.age, attempts |-> a, used |-> r.used,
        signIns |-> r.signIns] EXCEPT !.used = u]
          = [phone |-> r.phone, age |-> r.age, attempts |-> a, used |-> u,
             signIns |-> r.signIns]
  OBVIOUS
<1> QED BY <1>1, <1>2, <1>3

LEMMA OneUpdated ==
  ASSUME codes \in Seq(Code), NEW i \in 1..Len(codes), NEW r \in Code,
         codes' = [codes EXCEPT ![i] = r]
  PROVE  /\ codes' \in Seq(Code) /\ Len(codes') = Len(codes) /\ codes'[i] = r
         /\ \A j \in 1..Len(codes) : j # i => codes'[j] = codes[j]
  OBVIOUS

\* A wrong answer, and the right one, on a code that is not used yet.
LEMMA AnsweredRow ==
  ASSUME IInv, NEW i \in 1..Len(codes), ~codes[i].used
  PROVE  /\ Missed(codes[i]) \in Code
         /\ Missed(codes[i]).phone = codes[i].phone
         /\ Missed(codes[i]).signIns = codes[i].signIns
         /\ Missed(codes[i]).attempts = MaxAttempts => Missed(codes[i]).used
         /\ Taken(codes[i]) \in Code
         /\ Taken(codes[i]).phone = codes[i].phone
         /\ Taken(codes[i]).signIns = codes[i].signIns
         /\ Taken(codes[i]).used
<1> DEFINE a == codes[i].attempts + 1
           r(u) == [phone |-> codes[i].phone, age |-> codes[i].age, attempts |-> a,
                    used |-> u, signIns |-> codes[i].signIns]
<1>1. codes[i] \in Code
  BY DEF IInv, SignInTypeOK
<1>2. codes[i].attempts \in 0..MaxAttempts /\ codes[i].attempts # MaxAttempts
  BY <1>1 DEF IInv, AttemptsBounded, Code
<1>3. a \in 0..MaxAttempts
  BY <1>2
<1>4. Missed(codes[i]) = r(a >= MaxAttempts) /\ Taken(codes[i]) = r(TRUE)
  BY <1>1, RowUpdated DEF Missed, Taken
<1>5. r(a >= MaxAttempts) \in Code /\ r(TRUE) \in Code
  BY <1>1, <1>3 DEF Code
<1>6. r(a >= MaxAttempts).attempts = MaxAttempts => r(a >= MaxAttempts).used
  <2>1. r(a >= MaxAttempts).attempts = a /\ r(a >= MaxAttempts).used = (a >= MaxAttempts)
    OBVIOUS
  <2>2. a = MaxAttempts => a >= MaxAttempts
    BY <1>3
  <2> HIDE DEF r
  <2> QED BY <2>1, <2>2
<1> QED BY <1>4, <1>5, <1>6

LEMMA WrongCodeInv ==
  ASSUME IInv, NEW c \in Calls, WrongCode(c)
  PROVE  IInv'
<1> DEFINE i == call[c].code
<1>1. /\ call[c].pc = "comparing" /\ UNCHANGED <<customer, link, sessions>>
      /\ i \in 1..Len(codes) /\ codes \in Seq(Code) /\ codes[i] \in Code
  BY CallFacts DEF WrongCode, IInv, SignInTypeOK
<1>2. /\ call' \in [Calls -> CallState]
      /\ call'[c].pc = "idle"
      /\ \A d \in Calls : d # c => call'[d] = call[d]
  BY DoneFacts DEF WrongCode
<1>3. /\ codes' \in Seq(Code) /\ Len(codes') = Len(codes)
      /\ \A j \in 1..Len(codes) :
             /\ codes'[j].phone = codes[j].phone /\ codes'[j].signIns = codes[j].signIns
             /\ codes[j].used => codes'[j].used
             /\ codes'[j].attempts = MaxAttempts => codes'[j].used
  <2>1. CASE codes[i].used \/ codes[i].age = Deleted
    BY <1>1, <2>1 DEF WrongCode, IInv, AttemptsBounded
  <2>2. CASE ~(codes[i].used \/ codes[i].age = Deleted)
    <3>1. codes' = [codes EXCEPT ![i] = Missed(codes[i])]
      BY <1>1, <2>2 DEF WrongCode
    <3>2. /\ Missed(codes[i]) \in Code
          /\ Missed(codes[i]).phone = codes[i].phone
          /\ Missed(codes[i]).signIns = codes[i].signIns
          /\ Missed(codes[i]).attempts = MaxAttempts => Missed(codes[i]).used
      BY <1>1, <2>2, AnsweredRow
    <3>3. /\ codes' \in Seq(Code) /\ Len(codes') = Len(codes) /\ codes'[i] = Missed(codes[i])
          /\ \A j \in 1..Len(codes) : j # i => codes'[j] = codes[j]
      BY <1>1, <3>1, <3>2, OneUpdated
    <3> QED BY <2>2, <3>2, <3>3 DEF IInv, AttemptsBounded
  <2> QED BY <2>1, <2>2
<1>4. SignInTypeOK'
  BY <1>1, <1>2, <1>3 DEF IInv, SignInTypeOK
<1>5. AttemptsBounded' /\ CodeSignsInOnce'
  <2>1. \A j \in 1..Len(codes) : codes'[j].attempts \in 0..MaxAttempts
    <3>1. \A j \in 1..Len(codes) : codes'[j] \in Code
      BY <1>3
    <3> QED BY <3>1 DEF Code
  <2>2. DOMAIN codes' = 1..Len(codes) /\ DOMAIN codes = 1..Len(codes)
    BY <1>1, <1>3
  <2>3. AttemptsBounded'
    BY <1>3, <2>1, <2>2 DEF AttemptsBounded
  <2>4. CodeSignsInOnce'
    BY <1>3, <2>2 DEF IInv, CodeSignsInOnce
  <2> QED BY <2>3, <2>4
<1>6. CodesExist'
  BY <1>2, <1>3 DEF IInv, CodesExist, Accepted
<1>7. \A d \in Calls : d # c /\ call[d].pc \in Accepted => Caller(d)' = Caller(d)
  BY <1>1, <1>2, <1>3 DEF IInv, CodesExist, Caller
<1>8. CallerIsSure'
  BY <1>1, <1>2, <1>7 DEF IInv, CallerIsSure, Accepted
<1>9. CodeIsHeldOnce'
  <2>1. \A d \in Calls : call[d].pc \in Accepted => call[d].code \in 0..Len(codes)
    BY DEF IInv, CodesExist
  <2>2. \A d \in Calls : call'[d].pc \in Accepted /\ call'[d].code # 0 =>
            codes'[call'[d].code].used /\ codes'[call'[d].code].signIns = 0
    BY <1>2, <1>3, <2>1 DEF IInv, CodeIsHeldOnce, Accepted
  <2>3. \A j \in DOMAIN codes' : ~codes'[j].used => codes'[j].signIns = 0
    BY <1>1, <1>3 DEF IInv, CodeIsHeldOnce
  <2> QED BY <1>2, <2>2, <2>3 DEF IInv, CodeIsHeldOnce, Accepted
<1> QED BY <1>1, <1>4, <1>5, <1>6, <1>8, <1>9 DEF IInv, AccountSignsInOne,
           VerifiedBeforeSession

\* The right code: it passes into the hands of the call that used it.
LEMMA ConsumeInv ==
  ASSUME IInv, NEW c \in Calls, Consume(c)
  PROVE  IInv'
<1> DEFINE i == call[c].code
<1>1. /\ call[c].pc = "comparing" /\ UNCHANGED <<customer, link, sessions>>
      /\ i \in 1..Len(codes) /\ codes \in Seq(Code) /\ codes[i] \in Code
  BY CallFacts DEF Consume, IInv, SignInTypeOK
<1>2. CASE ~(Usable(i) /\ codes[i].attempts < MaxAttempts)
  <2>1. UNCHANGED codes /\ Done(c)
    BY <1>2 DEF Consume
  <2>2. /\ call' \in [Calls -> CallState]
        /\ call'[c].pc = "idle"
        /\ \A d \in Calls : d # c => call'[d] = call[d]
    BY <2>1, DoneFacts
  <2>3. \A d \in Calls : d # c => Caller(d)' = Caller(d)
    BY <1>1, <2>1, <2>2 DEF Caller
  <2>4. SignInTypeOK' /\ AttemptsBounded' /\ CodeSignsInOnce'
    BY <1>1, <2>1, <2>2 DEF IInv, SignInTypeOK, AttemptsBounded, CodeSignsInOnce
  <2>5. AccountSignsInOne' /\ VerifiedBeforeSession'
    BY <1>1 DEF IInv, AccountSignsInOne, VerifiedBeforeSession
  <2>6. CodesExist' /\ CodeIsHeldOnce'
    BY <1>1, <2>1, <2>2 DEF IInv, CodesExist, CodeIsHeldOnce, Accepted
  <2>7. CallerIsSure'
    BY <1>1, <2>2, <2>3 DEF IInv, CallerIsSure
  <2> QED BY <2>4, <2>5, <2>6, <2>7 DEF IInv
<1>3. CASE Usable(i) /\ codes[i].attempts < MaxAttempts
  <2>1. ~codes[i].used
    BY <1>3 DEF Usable
  <2>2. codes' = [codes EXCEPT ![i] = Taken(codes[i])] /\ Proceed(c, "proved")
    BY <1>1, <1>3 DEF Consume, Proceed
  <2>3. /\ Taken(codes[i]) \in Code /\ Taken(codes[i]).used
        /\ Taken(codes[i]).phone = codes[i].phone
        /\ Taken(codes[i]).signIns = codes[i].signIns
    BY <1>1, <2>1, AnsweredRow
  <2>4. /\ codes' \in Seq(Code) /\ Len(codes') = Len(codes) /\ codes'[i] = Taken(codes[i])
        /\ \A j \in 1..Len(codes) : j # i => codes'[j] = codes[j]
    BY <1>1, <2>2, <2>3, OneUpdated
  <2>5. /\ call' \in [Calls -> CallState]
        /\ call'[c].pc = "proved" /\ call'[c].code = i /\ call'[c].by = call[c].by
        /\ \A d \in Calls : d # c => call'[d] = call[d]
    BY <1>1, <2>2, ProceedFacts
  <2>6. \A d \in Calls : call[d].pc \in Accepted =>
            call[d].code # i /\ call[d].code \in 0..Len(codes)
    BY <1>1, <2>1 DEF IInv, CodeIsHeldOnce, CodesExist
  <2>7. codes[i].signIns = 0
    BY <1>1, <2>1 DEF IInv, CodeIsHeldOnce
  <2>8. SignInTypeOK'
    BY <1>1, <2>4, <2>5 DEF IInv, SignInTypeOK
  <2>9. AttemptsBounded' /\ CodeSignsInOnce'
    <3>1. \A j \in 1..Len(codes) : codes'[j].attempts \in 0..MaxAttempts
      <4>1. \A j \in 1..Len(codes) : codes'[j] \in Code
        BY <2>4
      <4> QED BY <4>1 DEF Code
    <3>2. DOMAIN codes' = 1..Len(codes) /\ DOMAIN codes = 1..Len(codes)
      BY <1>1, <2>4
    <3> QED BY <2>3, <2>4, <2>7, <3>1, <3>2 DEF IInv, AttemptsBounded, CodeSignsInOnce
  <2>10. CodesExist'
    BY <1>1, <2>4, <2>5 DEF IInv, CodesExist, Accepted
  <2>11. CodeIsHeldOnce'
    <3>1. \A d \in Calls : call'[d].pc \in Accepted /\ call'[d].code # 0 =>
              codes'[call'[d].code].used /\ codes'[call'[d].code].signIns = 0
      BY <1>1, <2>3, <2>4, <2>5, <2>6, <2>7 DEF IInv, CodeIsHeldOnce
    <3>2. \A j \in DOMAIN codes' : ~codes'[j].used => codes'[j].signIns = 0
      BY <1>1, <2>3, <2>4 DEF IInv, CodeIsHeldOnce
    <3>3. \A d, e \in Calls : /\ call'[d].pc \in Accepted /\ call'[e].pc \in Accepted
                             /\ call'[d].code = call'[e].code /\ call'[d].code # 0
                             => d = e
      BY <2>5, <2>6 DEF IInv, CodeIsHeldOnce
    <3> QED BY <3>1, <3>2, <3>3 DEF CodeIsHeldOnce
  <2>12. \A d \in Calls : d # c /\ call[d].pc \in Accepted => Caller(d)' = Caller(d)
    BY <1>1, <2>4, <2>5, <2>6 DEF Caller
  <2>13. CallerIsSure'
    BY <1>1, <2>5, <2>12 DEF IInv, CallerIsSure, Accepted
  <2> QED BY <1>1, <2>8, <2>9, <2>10, <2>11, <2>13 DEF IInv, AccountSignsInOne,
             VerifiedBeforeSession
<1> QED BY <1>2, <1>3

\* A call that goes on, or ends, and leaves the codes and sessions alone.
LEMMA CodesKept ==
  ASSUME IInv, NEW c \in Calls, call[c].pc \in Accepted, UNCHANGED <<codes, sessions>>,
         call' \in [Calls -> CallState],
         \A d \in Calls : d # c => call'[d] = call[d],
         \/ call'[c].pc = "idle"
         \/ call'[c].pc \in Accepted /\ call'[c].code = call[c].code
  PROVE  CodesExist' /\ CodeIsHeldOnce' /\ AttemptsBounded' /\ CodeSignsInOnce'
<1>1. AttemptsBounded' /\ CodeSignsInOnce'
  BY DEF IInv, AttemptsBounded, CodeSignsInOnce
<1>2. CodesExist'
  BY DEF IInv, CodesExist, Accepted
<1>3. CodeIsHeldOnce'
  BY DEF IInv, CodeIsHeldOnce, Accepted
<1> QED BY <1>1, <1>2, <1>3

LEMMA RegisterInv ==
  ASSUME IInv, NEW c \in Calls, Register(c)
  PROVE  IInv'
<1> DEFINE p == Caller(c)
<1>1. /\ call[c].pc = "unknown" /\ UNCHANGED <<codes, link, sessions>> /\ p \in Phones
  BY CallFacts DEF Register, Accepted
<1>2. /\ call' \in [Calls -> CallState]
      /\ \/ call'[c].pc = "idle"
         \/ call'[c].pc = "unverified" /\ call'[c].code = call[c].code
      /\ \A d \in Calls : d # c => call'[d] = call[d]
  BY <1>1, DoneFacts, ProceedFacts DEF Register, Accepted
<1>3. customer' \in [Phones -> [status : {"NONE", "ACTIVE", "DELETED"}, verified : BOOLEAN]]
      /\ \A q \in Phones : customer'[q].verified = customer[q].verified
  <2>1. customer \in [Phones -> [status : {"NONE", "ACTIVE", "DELETED"}, verified : BOOLEAN]]
    BY DEF IInv, SignInTypeOK
  <2> QED BY <1>1, <2>1 DEF Register
<1>4. CodesExist' /\ CodeIsHeldOnce' /\ AttemptsBounded' /\ CodeSignsInOnce'
  BY <1>1, <1>2, CodesKept DEF Accepted
<1>5. SignInTypeOK' /\ VerifiedBeforeSession' /\ AccountSignsInOne'
  <2>1. /\ codes \in Seq(Code) /\ Len(codes) <= MaxCodes
        /\ link \in [Subjects -> Phones \cup {NoOne}] /\ sessions \subseteq Session
    BY DEF IInv, SignInTypeOK
  <2>2. SignInTypeOK'
    BY <1>1, <1>2, <1>3, <2>1 DEF SignInTypeOK
  <2>3. \A r \in sessions : r.customer \in Phones
    BY <2>1 DEF Session
  <2>4. VerifiedBeforeSession'
    BY <1>1, <1>3, <2>1, <2>3 DEF IInv, VerifiedBeforeSession
  <2>5. AccountSignsInOne'
    BY <1>1 DEF IInv, AccountSignsInOne
  <2> QED BY <2>2, <2>4, <2>5
<1>6. CallerIsSure'
  <2>1. \A d \in Calls : d # c => Caller(d)' = Caller(d)
    BY <1>1, <1>2 DEF Caller
  <2>2. \A d \in Calls : call[d].pc \in Accepted => Caller(d) \in Phones
    BY CallFacts
  <2> QED BY <1>1, <1>2, <1>3, <2>1, <2>2 DEF IInv, CallerIsSure, Accepted
<1> QED BY <1>4, <1>5, <1>6 DEF IInv

LEMMA ConfirmInv ==
  ASSUME IInv, NEW c \in Calls, Confirm(c)
  PROVE  IInv'
<1> DEFINE p == Caller(c)
<1>1. /\ call[c].pc = "unverified" /\ UNCHANGED <<codes, link, sessions>> /\ p \in Phones
  BY CallFacts DEF Confirm, Accepted
<1>2. /\ call' \in [Calls -> CallState]
      /\ call'[c].pc = "verified" /\ call'[c].code = call[c].code /\ call'[c].by = call[c].by
      /\ \A d \in Calls : d # c => call'[d] = call[d]
  BY <1>1, ProceedFacts DEF Confirm, Accepted
<1>3. customer' \in [Phones -> [status : {"NONE", "ACTIVE", "DELETED"}, verified : BOOLEAN]]
      /\ customer'[p].verified
      /\ \A q \in Phones : customer[q].verified => customer'[q].verified
  <2>1. customer \in [Phones -> [status : {"NONE", "ACTIVE", "DELETED"}, verified : BOOLEAN]]
    BY DEF IInv, SignInTypeOK
  <2> QED BY <1>1, <2>1 DEF Confirm
<1>4. CodesExist' /\ CodeIsHeldOnce' /\ AttemptsBounded' /\ CodeSignsInOnce'
  BY <1>1, <1>2, CodesKept DEF Accepted
<1>5. SignInTypeOK' /\ VerifiedBeforeSession' /\ AccountSignsInOne'
  <2>1. /\ codes \in Seq(Code) /\ Len(codes) <= MaxCodes
        /\ link \in [Subjects -> Phones \cup {NoOne}] /\ sessions \subseteq Session
    BY DEF IInv, SignInTypeOK
  <2>2. SignInTypeOK'
    BY <1>1, <1>2, <1>3, <2>1 DEF SignInTypeOK
  <2>3. \A r \in sessions : r.customer \in Phones
    BY <2>1 DEF Session
  <2>4. VerifiedBeforeSession'
    BY <1>1, <1>3, <2>1, <2>3 DEF IInv, VerifiedBeforeSession
  <2>5. AccountSignsInOne'
    BY <1>1 DEF IInv, AccountSignsInOne
  <2> QED BY <2>2, <2>4, <2>5
<1>6. CallerIsSure'
  <2>1. \A d \in Calls : Caller(d)' = Caller(d)
    BY <1>1, <1>2 DEF Caller
  <2>2. \A d \in Calls : call[d].pc \in Accepted => Caller(d) \in Phones
    BY CallFacts
  <2> QED BY <1>1, <1>2, <1>3, <2>1, <2>2 DEF IInv, CallerIsSure, Accepted
<1> QED BY <1>4, <1>5, <1>6 DEF IInv

LEMMA LinkAccountInv ==
  ASSUME IInv, NEW c \in Calls, LinkAccount(c)
  PROVE  IInv'
<1> DEFINE s == call[c].by
           p == Caller(c)
<1>1. /\ call[c].pc = "verified" /\ UNCHANGED <<codes, customer, sessions>>
      /\ p \in Phones /\ s \in Subjects /\ call[c].code # 0 /\ customer[p].verified
  <2>1. call[c].pc = "verified" /\ s # Phone /\ UNCHANGED <<codes, customer, sessions>>
    BY DEF LinkAccount
  <2>2. p \in Phones /\ s \in Subjects \cup {Phone} /\ call[c].code \in 1..MaxCodes
    BY <2>1, CallFacts DEF Accepted
  <2>3. customer[p].verified
    BY <2>1 DEF IInv, CallerIsSure
  <2> QED BY <2>1, <2>2, <2>3
<1>2. /\ call' \in [Calls -> CallState]
      /\ \/ call'[c].pc = "idle"
         \/ /\ call'[c].pc = "linked" /\ call'[c].code = call[c].code /\ call'[c].by = s
            /\ link'[s] = p
      /\ \A d \in Calls : d # c => call'[d] = call[d]
  BY <1>1, DoneFacts, ProceedFacts DEF LinkAccount, Accepted, IInv, SignInTypeOK
<1>3. /\ link' \in [Subjects -> Phones \cup {NoOne}]
      /\ link'[s] \in {link[s], p} /\ (link[s] # NoOne => link'[s] = link[s])
      /\ \A t \in Subjects : t # s => link'[t] = link[t]
  <2>1. link \in [Subjects -> Phones \cup {NoOne}]
    BY DEF IInv, SignInTypeOK
  <2> QED BY <1>1, <2>1 DEF LinkAccount
<1>4. CodesExist' /\ CodeIsHeldOnce' /\ AttemptsBounded' /\ CodeSignsInOnce'
  BY <1>1, <1>2, CodesKept DEF Accepted
<1>5. SignInTypeOK'
  <2>1. /\ codes \in Seq(Code) /\ Len(codes) <= MaxCodes
        /\ customer \in [Phones -> [status : {"NONE", "ACTIVE", "DELETED"}, verified : BOOLEAN]]
        /\ sessions \subseteq Session
    BY DEF IInv, SignInTypeOK
  <2> QED BY <1>1, <1>2, <1>3, <2>1 DEF SignInTypeOK
<1>6. VerifiedBeforeSession' /\ AccountSignsInOne'
  <2>1. \A r \in sessions : r.by \in Subjects \cup {Phone}
    BY DEF IInv, SignInTypeOK, Session
  <2>2. \A t \in Subjects : link[t] # NoOne => link'[t] = link[t]
    BY <1>3
  <2>3. VerifiedBeforeSession'
    BY <1>1, <1>3 DEF IInv, VerifiedBeforeSession
  <2>4. AccountSignsInOne'
    <3>1. SUFFICES ASSUME NEW r \in sessions, r.by # Phone
                   PROVE  link'[r.by] = r.customer
      BY <1>1 DEF AccountSignsInOne
    <3>2. r.by \in Subjects /\ link[r.by] = r.customer
      BY <3>1, <2>1 DEF IInv, AccountSignsInOne
    <3>3. r.customer # NoOne
      BY SignInAssumptions DEF IInv, SignInTypeOK, Session
    <3> QED BY <2>2, <3>2, <3>3
  <2> QED BY <2>3, <2>4
<1>7. CallerIsSure'
  <2>1. \A d \in Calls : call'[d].code = call[d].code /\ call'[d].code # 0 => Caller(d)' = Caller(d)
    BY <1>1 DEF Caller
  <2>2. \A d \in Calls : d # c /\ call[d].pc = "linked" =>
            link'[call[d].by] = link[call[d].by] /\ call[d].by \in Subjects
    <3>1. \A d \in Calls : call[d].pc = "linked" => call[d].by \in Subjects
      BY CallFacts DEF Accepted
    <3>2. \A d \in Calls : call[d].pc = "linked" => link[call[d].by] # NoOne
      BY DEF IInv, CallerIsSure
    <3> QED BY <1>3, <3>1, <3>2
  <2>3. \A d \in Calls : d # c /\ call[d].pc \in {"verified", "linked"} => Caller(d)' = Caller(d)
    <3>1. \A d \in Calls : call[d].pc = "verified" => call[d].code \in 1..MaxCodes
      BY CallFacts DEF Accepted
    <3> QED BY <1>1, <1>2, <2>2, <3>1 DEF Caller
  <2> QED BY <1>1, <1>2, <2>1, <2>2, <2>3 DEF IInv, CallerIsSure
<1> QED BY <1>4, <1>5, <1>6, <1>7 DEF IInv

LEMMA OpenSessionInv ==
  ASSUME IInv, NEW c \in Calls, OpenSession(c)
  PROVE  IInv'
<1> DEFINE i == call[c].code
           p == Caller(c)
           new == [customer |-> p, by |-> call[c].by]
<1>1. /\ call[c].pc \in {"verified", "linked"} /\ UNCHANGED <<customer, link>>
      /\ call[c].pc = "verified" => call[c].by = Phone
      /\ sessions' = sessions \cup {new} /\ Done(c)
  BY DEF OpenSession
<1>2. /\ p \in Phones /\ call[c].by \in Subjects \cup {Phone} /\ i \in 0..Len(codes)
      /\ call[c].pc = "linked" => call[c].by \in Subjects
  BY <1>1, CallFacts DEF Accepted
<1>3. customer[p].verified /\ (call[c].by # Phone => link[call[c].by] = p)
  BY <1>1, <1>2 DEF IInv, CallerIsSure, VerifiedBeforeSession
<1>4. /\ call' \in [Calls -> CallState]
      /\ call'[c].pc = "idle"
      /\ \A d \in Calls : d # c => call'[d] = call[d]
  BY <1>1, DoneFacts
<1>5. /\ codes \in Seq(Code) /\ codes' \in Seq(Code) /\ Len(codes') = Len(codes)
      /\ \A j \in 1..Len(codes) :
             /\ codes'[j].phone = codes[j].phone /\ codes'[j].used = codes[j].used
             /\ codes'[j].attempts = codes[j].attempts
             /\ codes'[j].signIns = IF j = i THEN codes[j].signIns + 1 ELSE codes[j].signIns
  <2>1. codes \in Seq(Code) /\ \A j \in 1..Len(codes) : codes[j] \in Code
    BY DEF IInv, SignInTypeOK
  <2> DEFINE count(j) == IF j = i THEN codes[j].signIns + 1 ELSE codes[j].signIns
             row(j) == [codes[j] EXCEPT !.signIns = count(j)]
  <2>2. ASSUME NEW j \in 1..Len(codes)
        PROVE  /\ row(j) \in Code
               /\ row(j).phone = codes[j].phone /\ row(j).used = codes[j].used
               /\ row(j).attempts = codes[j].attempts
               /\ row(j).signIns = count(j)
    <3>1. codes[j] \in Code /\ count(j) \in Nat
      BY <2>1 DEF Code
    <3> HIDE DEF count
    <3> QED BY <3>1 DEF Code
  <2>3. codes' = [j \in 1..Len(codes) |-> row(j)]
    BY <2>1 DEF OpenSession
  <2> HIDE DEF row
  <2>4. codes' \in [1..Len(codes) -> Code] /\ \A j \in 1..Len(codes) : codes'[j] = row(j)
    BY <2>2, <2>3
  <2>5. codes' \in Seq(Code) /\ Len(codes') = Len(codes)
    BY <2>1, <2>4
  <2> QED BY <2>1, <2>2, <2>4, <2>5
<1>6. SignInTypeOK'
  <2>1. new \in Session
    BY <1>2 DEF Session
  <2> QED BY <1>1, <1>4, <1>5, <2>1 DEF IInv, SignInTypeOK
<1>7. i # 0 => codes[i].used /\ codes[i].signIns = 0
               /\ \A d \in Calls : d # c /\ call[d].pc \in Accepted => call[d].code # i
  BY <1>1 DEF IInv, CodeIsHeldOnce, Accepted
<1>8. AttemptsBounded' /\ CodeSignsInOnce'
  <2>1. DOMAIN codes' = 1..Len(codes) /\ DOMAIN codes = 1..Len(codes)
    BY <1>5
  <2>2. AttemptsBounded'
    BY <1>5, <2>1 DEF IInv, AttemptsBounded
  <2>3. CodeSignsInOnce'
    BY <1>5, <1>7, <2>1 DEF IInv, CodeSignsInOnce
  <2> QED BY <2>2, <2>3
<1>9. AccountSignsInOne' /\ VerifiedBeforeSession'
  BY <1>1, <1>3 DEF IInv, AccountSignsInOne, VerifiedBeforeSession
<1>10. CodesExist'
  BY <1>4, <1>5 DEF IInv, CodesExist, Accepted
<1>11. CodeIsHeldOnce'
  <2>1. \A d \in Calls : call'[d].pc \in Accepted /\ call'[d].code # 0 =>
            codes'[call'[d].code].used /\ codes'[call'[d].code].signIns = 0
    <3>1. \A d \in Calls : call[d].pc \in Accepted => call[d].code \in 0..Len(codes)
      BY DEF IInv, CodesExist
    <3> QED BY <1>4, <1>5, <1>7, <3>1 DEF IInv, CodeIsHeldOnce, Accepted
  <2>2. \A j \in DOMAIN codes' : ~codes'[j].used => codes'[j].signIns = 0
    BY <1>5, <1>7 DEF IInv, CodeIsHeldOnce
  <2>3. \A d, e \in Calls : /\ call'[d].pc \in Accepted /\ call'[e].pc \in Accepted
                           /\ call'[d].code = call'[e].code /\ call'[d].code # 0
                           => d = e
    BY <1>4 DEF IInv, CodeIsHeldOnce, Accepted
  <2> QED BY <2>1, <2>2, <2>3 DEF CodeIsHeldOnce
<1>12. CallerIsSure'
  <2>1. \A d \in Calls : d # c /\ call[d].pc \in Accepted => Caller(d)' = Caller(d)
    BY <1>1, <1>4, <1>5 DEF IInv, CodesExist, Caller
  <2> QED BY <1>1, <1>4, <2>1 DEF IInv, CallerIsSure, Accepted
<1> QED BY <1>6, <1>8, <1>9, <1>10, <1>11, <1>12 DEF IInv

\* Staff change customers, and never take a verification back.
LEMMA StaffInv ==
  ASSUME IInv, NEW p \in Phones, Enroll(p) \/ StaffVerify(p) \/ MergeAway(p)
  PROVE  IInv'
<1>1. UNCHANGED <<codes, link, sessions, call>>
  BY DEF Enroll, StaffVerify, MergeAway
<1>2. /\ customer' \in [Phones -> [status : {"NONE", "ACTIVE", "DELETED"}, verified : BOOLEAN]]
      /\ \A q \in Phones : customer[q].verified => customer'[q].verified
  <2>1. customer \in [Phones -> [status : {"NONE", "ACTIVE", "DELETED"}, verified : BOOLEAN]]
    BY DEF IInv, SignInTypeOK
  <2>2. CASE Enroll(p)  BY <2>1, <2>2 DEF Enroll
  <2>3. CASE StaffVerify(p)  BY <2>1, <2>3 DEF StaffVerify
  <2>4. CASE MergeAway(p)  BY <2>1, <2>4 DEF MergeAway
  <2> QED BY <2>2, <2>3, <2>4
<1>3. SignInTypeOK' /\ AttemptsBounded' /\ CodeSignsInOnce' /\ AccountSignsInOne'
      /\ CodesExist' /\ CodeIsHeldOnce'
  BY <1>1, <1>2 DEF IInv, SignInTypeOK, AttemptsBounded, CodeSignsInOnce, AccountSignsInOne,
                    CodesExist, CodeIsHeldOnce
<1>4. VerifiedBeforeSession'
  BY <1>1, <1>2 DEF IInv, SignInTypeOK, VerifiedBeforeSession, Session
<1>5. CallerIsSure'
  <2>1. \A d \in Calls : Caller(d)' = Caller(d)
    BY <1>1 DEF Caller
  <2>2. \A d \in Calls : call[d].pc \in Accepted => Caller(d) \in Phones
    BY CallFacts
  <2> QED BY <1>1, <1>2, <2>1, <2>2 DEF IInv, CallerIsSure, Accepted
<1> QED BY <1>3, <1>4, <1>5 DEF IInv

\* Sessions end.
LEMMA EndInv ==
  ASSUME IInv, sessions' \subseteq sessions, UNCHANGED <<codes, customer, link, call>>
  PROVE  IInv'
<1>1. SignInTypeOK' /\ AttemptsBounded' /\ CodeSignsInOnce' /\ CodesExist' /\ CodeIsHeldOnce'
  BY DEF IInv, SignInTypeOK, AttemptsBounded, CodeSignsInOnce, CodesExist, CodeIsHeldOnce
<1>2. AccountSignsInOne' /\ VerifiedBeforeSession' /\ CallerIsSure'
  BY DEF IInv, AccountSignsInOne, VerifiedBeforeSession, CallerIsSure, Caller
<1> QED BY <1>1, <1>2 DEF IInv

\* Codes grow older and are deleted; nothing else of them changes.
LEMMA TimeInv ==
  ASSUME IInv, CleanUp \/ \E i \in DOMAIN codes : GrowOlder(i)
  PROVE  IInv'
<1>1. UNCHANGED <<customer, link, sessions, call>>
  BY DEF CleanUp, GrowOlder
<1>2. codes \in Seq(Code) /\ \A j \in 1..Len(codes) : codes[j] \in Code
  BY DEF IInv, SignInTypeOK
<1>3. \A r \in Code, a \in 0..3 :
          LET n == [r EXCEPT !.age = a] IN
          n \in Code /\ n.phone = r.phone /\ n.used = r.used
          /\ n.attempts = r.attempts /\ n.signIns = r.signIns
  BY DEF Code
<1>4. /\ codes' \in Seq(Code) /\ Len(codes') = Len(codes)
      /\ \A j \in 1..Len(codes) :
             /\ codes'[j].phone = codes[j].phone /\ codes'[j].used = codes[j].used
             /\ codes'[j].attempts = codes[j].attempts /\ codes'[j].signIns = codes[j].signIns
  <2>1. CASE CleanUp
    <3> DEFINE age(j) == IF codes[j].age < 2 THEN codes[j].age ELSE 3
               row(j) == [codes[j] EXCEPT !.age = age(j)]
    <3>1. ASSUME NEW j \in 1..Len(codes)
          PROVE  /\ row(j) \in Code
                 /\ row(j).phone = codes[j].phone /\ row(j).used = codes[j].used
                 /\ row(j).attempts = codes[j].attempts /\ row(j).signIns = codes[j].signIns
      <4>1. codes[j] \in Code /\ age(j) \in 0..3
        BY <1>2 DEF Code
      <4> HIDE DEF age
      <4> QED BY <1>3, <4>1
    <3>2. codes' = [j \in 1..Len(codes) |-> row(j)]
      BY <1>2, <2>1 DEF CleanUp
    <3> HIDE DEF row
    <3>3. codes' \in [1..Len(codes) -> Code] /\ \A j \in 1..Len(codes) : codes'[j] = row(j)
      BY <3>1, <3>2
    <3>4. codes' \in Seq(Code) /\ Len(codes') = Len(codes)
      BY <1>2, <3>3
    <3> QED BY <3>1, <3>3, <3>4
  <2>2. CASE \E i \in DOMAIN codes : GrowOlder(i)
    <3>1. PICK i \in 1..Len(codes) : GrowOlder(i)
      BY <1>2, <2>2
    <3> DEFINE new == [codes[i] EXCEPT !.age = codes[i].age + 1]
    <3>2. codes[i].age + 1 \in 0..3
      <4>1. codes[i].age \in 0..3
        BY <1>2 DEF Code
      <4> QED BY <3>1, <4>1 DEF GrowOlder
    <3>3. /\ new \in Code /\ new.phone = codes[i].phone /\ new.used = codes[i].used
          /\ new.attempts = codes[i].attempts /\ new.signIns = codes[i].signIns
      BY <1>2, <1>3, <3>2
    <3>4. codes' = [codes EXCEPT ![i] = new]
      BY <3>1 DEF GrowOlder
    <3> HIDE DEF new
    <3>5. /\ codes' \in Seq(Code) /\ Len(codes') = Len(codes) /\ codes'[i] = new
          /\ \A j \in 1..Len(codes) : j # i => codes'[j] = codes[j]
      BY <1>2, <3>3, <3>4, OneUpdated
    <3> QED BY <3>3, <3>5
  <2> QED BY <2>1, <2>2
<1>5. SignInTypeOK' /\ AttemptsBounded' /\ CodeSignsInOnce'
  <2>1. DOMAIN codes' = 1..Len(codes) /\ DOMAIN codes = 1..Len(codes)
    BY <1>2, <1>4
  <2>2. SignInTypeOK'
    BY <1>1, <1>4 DEF IInv, SignInTypeOK
  <2> QED BY <1>4, <2>1, <2>2 DEF IInv, AttemptsBounded, CodeSignsInOnce
<1>6. AccountSignsInOne' /\ VerifiedBeforeSession'
  BY <1>1 DEF IInv, AccountSignsInOne, VerifiedBeforeSession
<1>7. CodesExist'
  BY <1>1, <1>4 DEF IInv, CodesExist
<1>8. CodeIsHeldOnce'
  <2>1. \A d \in Calls : call[d].pc \in Accepted => call[d].code \in 0..Len(codes)
    BY DEF IInv, CodesExist
  <2> QED BY <1>1, <1>2, <1>4, <2>1 DEF IInv, CodeIsHeldOnce
<1>9. CallerIsSure'
  <2>1. \A d \in Calls : call[d].pc \in Accepted => Caller(d)' = Caller(d)
    BY <1>1, <1>4 DEF IInv, CodesExist, Caller
  <2> QED BY <1>1, <2>1 DEF IInv, CallerIsSure, Accepted
<1> QED BY <1>5, <1>6, <1>7, <1>8, <1>9 DEF IInv

LEMMA NextInv == IInv /\ [SignInNext]_signInVars => IInv'
<1> SUFFICES ASSUME IInv, [SignInNext]_signInVars PROVE IInv'
  OBVIOUS
<1>1. ASSUME NEW c \in Calls, Serve(c) PROVE IInv'
  BY <1>1, AskForCodeInv, SendCodeInv, FindCodeInv, WrongCodeInv, ConsumeInv, IdentifyInv,
     RegisterInv, ConfirmInv, LinkAccountInv, OpenSessionInv, FailInv, GoogleSignInInv DEF Serve
<1>2. ASSUME NEW p \in Phones, Enroll(p) \/ StaffVerify(p) \/ MergeAway(p) PROVE IInv'
  BY <1>2, StaffInv
<1>3. ASSUME NEW p \in Phones, LogOutAll(p) PROVE IInv'
  BY <1>3, EndInv DEF LogOutAll
<1>4. ASSUME NEW r \in sessions, LogOut(r) PROVE IInv'
  BY <1>4, EndInv DEF LogOut
<1>5. CASE CleanUp \/ \E i \in DOMAIN codes : GrowOlder(i)
  BY <1>5, TimeInv
<1>6. CASE UNCHANGED signInVars
  BY <1>6, EndInv DEF signInVars
<1> QED BY <1>1, <1>2, <1>3, <1>4, <1>5, <1>6 DEF SignInNext

\* A code signs in once, for any number of calls at any time.
THEOREM CodeSignsInOnceAlways == SignInSpec => []CodeSignsInOnce
<1>1. IInv => CodeSignsInOnce
  BY DEF IInv
<1> QED BY InitInv, NextInv, <1>1, PTL DEF SignInSpec

\* Wrong answers are counted, and the limit is kept, though calls compare
\* one code at the same time.
THEOREM AttemptsBoundedAlways == SignInSpec => []AttemptsBounded
<1>1. IInv => AttemptsBounded
  BY DEF IInv
<1> QED BY InitInv, NextInv, <1>1, PTL DEF SignInSpec

\* An account signs in the customer it is linked to, and no other.
THEOREM AccountSignsInOneAlways == SignInSpec => []AccountSignsInOne
<1>1. IInv => AccountSignsInOne
  BY DEF IInv
<1> QED BY InitInv, NextInv, <1>1, PTL DEF SignInSpec

\* Whoever has a session or a linked account is verified.
THEOREM VerifiedBeforeSessionAlways == SignInSpec => []VerifiedBeforeSession
<1>1. IInv => VerifiedBeforeSession
  BY DEF IInv
<1> QED BY InitInv, NextInv, <1>1, PTL DEF SignInSpec

-----------------------------------------------------------------------------
(* The founding campaign, as Accounts instantiates it *)

foundingPart == <<allocated, members, rowLock, join>>

USE AccountsAssumptions DEF F!FoundingAssumptions

\* Whoever has read the count under the lock still has the lock, and the count
\* is still what was read.
LockHeld == \A j \in Joins : join[j].pc = "locked" =>
                rowLock = j /\ join[j].number = allocated + 1

FInv == F!FTypeOK /\ F!FoundersNumbered /\ F!NoPlaceLost /\ LockHeld

LEMMA FInitInv == F!FInit => FInv
  BY DEF F!FInit, FInv, F!FTypeOK, F!FoundersNumbered, F!NoPlaceLost, LockHeld,
         F!Numbers, F!IsMember

\* A call of a customer who is a member already.
LEMMA CheckInv ==
  ASSUME FInv, NEW j \in Joins, NEW c \in Phones, F!Check(j, c)
  PROVE  FInv'
<1> USE DEF FInv
<1>1. CASE F!IsMember(c)
  <2>1. PICK m \in members : m.customer = c /\ F!Answered(j, c, "member", m.number)
    BY <1>1 DEF F!Check
  <2>2. m \in F!Member /\ m = [customer |-> c, number |-> m.number]
    BY <2>1 DEF F!FTypeOK, F!Member
  <2>3. F!FTypeOK'
    BY <2>1, <2>2 DEF F!Check, F!Answered, F!FTypeOK, F!Answers, F!Member
  <2>4. F!FoundersNumbered'
    BY <2>1, <2>2 DEF F!Check, F!Answered, F!FTypeOK, F!FoundersNumbered, F!Numbers
  <2>5. F!NoPlaceLost' /\ LockHeld'
    BY <2>1 DEF F!Check, F!Answered, F!FTypeOK, F!NoPlaceLost, LockHeld, F!IsMember
  <2> QED BY <2>3, <2>4, <2>5
<1>2. CASE ~F!IsMember(c)
  BY <1>2 DEF F!Check, F!FTypeOK, F!FoundersNumbered, F!NoPlaceLost, LockHeld, F!Numbers, F!IsMember
<1> QED BY <1>1, <1>2

LEMMA EnterInv ==
  ASSUME FInv, NEW j \in Joins, F!Enter(j)
  PROVE  FInv'
<1> USE DEF FInv
<1> DEFINE c == join[j].customer
           n == join[j].number
           new == [customer |-> c, number |-> n]
<1>1. c \in Phones /\ n \in 1..Capacity /\ n = allocated + 1 /\ rowLock = j
  BY DEF F!Enter, F!FTypeOK, LockHeld
<1>2. members' = members \cup {new} /\ new \in F!Member /\ allocated' = n
  BY <1>1 DEF F!Enter, F!Member
<1>3. \A k \in Joins : k # j => join'[k] = join[k] /\ join[k].pc # "locked"
  BY <1>1 DEF F!Enter, F!Answered, F!FTypeOK, LockHeld
<1>4. join'[j] = [pc |-> "answered", customer |-> c, answer |-> "member", number |-> n]
  BY DEF F!Enter, F!Answered, F!FTypeOK
<1>5. F!FTypeOK'
  BY <1>1, <1>2 DEF F!Enter, F!Answered, F!FTypeOK, F!Answers
<1>6. F!FoundersNumbered'
  <2>1. F!Numbers' = 1..allocated'
    <3>1. F!Numbers' = F!Numbers \cup {n}
      BY <1>2 DEF F!Numbers
    <3> QED BY <1>1, <1>2, <3>1 DEF F!FoundersNumbered, F!FTypeOK
  <2>2. \A m \in members : m.customer # c /\ m.number # n
    BY DEF F!Enter, F!IsMember, F!Numbers
  <2>3. \A m1, m2 \in members' :
            m1.customer = m2.customer \/ m1.number = m2.number => m1 = m2
    BY <1>2, <2>2 DEF F!FoundersNumbered
  <2>4. \A k \in Joins : join'[k].pc = "answered" /\ join'[k].answer = "member" =>
            [customer |-> join'[k].customer, number |-> join'[k].number] \in members'
    BY <1>2, <1>3, <1>4 DEF F!FoundersNumbered
  <2> QED BY <2>1, <2>3, <2>4 DEF F!FoundersNumbered
<1>7. F!NoPlaceLost'
  <2>1. \A k \in Joins : F!IsMember(join[k].customer) => F!IsMember(join[k].customer)'
    BY <1>2, <1>3, <1>4 DEF F!IsMember
  <2>2. ASSUME NEW k \in Joins, (join[k].pc = "answered")'
        PROVE  ((join[k].answer = "conflict" => F!IsMember(join[k].customer))
                /\ (join[k].answer = "full" => allocated = Capacity))'
    <3>1. CASE k = j  BY <3>1, <1>4
    <3>2. CASE k # j
      <4>1. allocated # Capacity
        BY <1>1 DEF F!FTypeOK
      <4> QED BY <2>2, <3>2, <1>2, <1>3, <4>1 DEF F!NoPlaceLost, F!IsMember
    <3> QED BY <3>1, <3>2
  <2> QED BY <2>2 DEF F!NoPlaceLost
<1>8. LockHeld'
  BY <1>3, <1>4 DEF LockHeld
<1> QED BY <1>5, <1>6, <1>7, <1>8

LEMMA FNextInv ==
  ASSUME FInv, [F!FNext]_foundingPart
  PROVE  FInv'
<1> USE DEF FInv
<1>1. ASSUME NEW j \in Joins, NEW c \in Phones, F!Check(j, c) PROVE FInv'
  BY <1>1, CheckInv
<1>2. ASSUME NEW j \in Joins, F!Lock(j) PROVE FInv'
  BY <1>2 DEF F!Lock, F!FTypeOK, F!FoundersNumbered, F!NoPlaceLost, LockHeld, F!Numbers, F!IsMember
<1>3. ASSUME NEW j \in Joins, F!TurnAway(j) PROVE FInv'
  BY <1>3 DEF F!TurnAway, F!Answered, F!Answers, F!FTypeOK, F!FoundersNumbered, F!NoPlaceLost,
              LockHeld, F!Numbers, F!IsMember
<1>4. ASSUME NEW j \in Joins, F!Enter(j) PROVE FInv'
  BY <1>4, EnterInv
<1>5. ASSUME NEW j \in Joins, F!Collide(j) PROVE FInv'
  <2>1. F!IsMember(join[j].customer) /\ rowLock = j
    BY <1>5 DEF F!Collide, LockHeld, F!FoundersNumbered, F!FTypeOK
  <2> QED BY <1>5, <2>1 DEF F!Collide, F!Answered, F!Answers, F!FTypeOK, F!FoundersNumbered,
                            F!NoPlaceLost, LockHeld, F!Numbers, F!IsMember
<1>6. ASSUME NEW j \in Joins, F!Break(j) PROVE FInv'
  BY <1>6 DEF F!Break, F!Answered, F!Answers, F!FTypeOK, F!FoundersNumbered, F!NoPlaceLost,
              LockHeld, F!Numbers, F!IsMember
<1>7. CASE UNCHANGED foundingPart
  BY <1>7 DEF foundingPart, F!FTypeOK, F!FoundersNumbered, F!NoPlaceLost, LockHeld,
              F!Numbers, F!IsMember
<1> QED BY <1>1, <1>2, <1>3, <1>4, <1>5, <1>6, <1>7 DEF F!FNext, F!FStep

\* The invariants hold in every state that the campaign can be in.
THEOREM FoundingInvariants == F!FSpec => []FInv
<1>1. F!FInit => FInv
  BY FInitInv
<1>2. FInv /\ [F!FNext]_foundingPart => FInv'
  BY FNextInv
<1> QED BY <1>1, <1>2, PTL DEF F!FSpec, F!foundingVars, foundingPart

\* The places are numbered without a gap and without a double, for any number
\* of customers, requests and places.
THEOREM FoundersNumberedAlways == F!FSpec => []F!FoundersNumbered
<1>1. FInv => F!FoundersNumbered
  BY DEF FInv
<1> QED BY FoundingInvariants, <1>1, PTL

\* Only members meet a constraint, and only a full campaign turns others away.
THEOREM NoPlaceLostAlways == F!FSpec => []F!NoPlaceLost
<1>1. FInv => F!NoPlaceLost
  BY DEF FInv
<1> QED BY FoundingInvariants, <1>1, PTL

-----------------------------------------------------------------------------
(* Both together *)

\* Whoever waits for a place was signed in when the request began, and has
\* been verified since.
JoinersAreVerified == \A j \in Joins :
    join[j].pc \in {"waiting", "locked"} => customer[join[j].customer].verified

AInv == IInv /\ FInv /\ FoundersAreVerified /\ JoinersAreVerified

LEMMA AInitInv == AInit => AInv
<1>1. AInit => IInv /\ FInv
  BY InitInv, FInitInv DEF AInit
<1>2. AInit => FoundersAreVerified /\ JoinersAreVerified
  BY DEF AInit, F!FInit, FoundersAreVerified, JoinersAreVerified
<1> QED BY <1>1, <1>2 DEF AInv

\* A verification is never taken back.
LEMMA VerifiedStays ==
  ASSUME IInv, [SignInNext]_signInVars
  PROVE  \A p \in Phones : customer[p].verified => customer'[p].verified
<1>1. customer \in [Phones -> [status : {"NONE", "ACTIVE", "DELETED"}, verified : BOOLEAN]]
  BY DEF IInv, SignInTypeOK
<1>2. ASSUME NEW c \in Calls, Serve(c)
      PROVE  \A p \in Phones : customer[p].verified => customer'[p].verified
  <2>1. CASE Register(c)
    <3>1. Caller(c) \in Phones
      BY <2>1, CallFacts DEF Register, Accepted
    <3> QED BY <1>1, <2>1, <3>1 DEF Register
  <2>2. CASE Confirm(c)
    <3>1. Caller(c) \in Phones
      BY <2>2, CallFacts DEF Confirm, Accepted
    <3> QED BY <1>1, <2>2, <3>1 DEF Confirm
  <2>3. CASE UNCHANGED customer
    BY <2>3
  <2> QED BY <1>2, <2>1, <2>2, <2>3 DEF Serve, AskForCode, SendCode, FindCode, WrongCode,
             Consume, Identify, LinkAccount, GoogleSignIn, OpenSession, Fail
<1>3. ASSUME NEW p \in Phones, Enroll(p) \/ StaffVerify(p) \/ MergeAway(p)
      PROVE  \A q \in Phones : customer[q].verified => customer'[q].verified
  BY <1>1, <1>3 DEF Enroll, StaffVerify, MergeAway
<1> QED BY <1>2, <1>3 DEF SignInNext, signInVars, LogOut, LogOutAll, GrowOlder, CleanUp

\* Each step is one of the campaign or none, and one of signing in or none.
LEMMA StepsOfParts ==
  ASSUME [ANext]_vars
  PROVE  [SignInNext]_signInVars /\ [F!FNext]_foundingPart
<1>1. CASE SignInNext /\ UNCHANGED <<allocated, members, rowLock, join>>
  BY <1>1 DEF foundingPart
<1>2. ASSUME NEW j \in Joins, NEW p \in Phones, Join(j, p)
      PROVE  [SignInNext]_signInVars /\ [F!FNext]_foundingPart
  BY <1>2 DEF Join, F!FNext
<1>3. ASSUME NEW j \in Joins, F!FStep(j) /\ UNCHANGED signInVars
      PROVE  [SignInNext]_signInVars /\ [F!FNext]_foundingPart
  BY <1>3 DEF F!FNext
<1>4. CASE UNCHANGED vars
  BY <1>4 DEF vars, foundingPart
<1> QED BY <1>1, <1>2, <1>3, <1>4 DEF ANext

LEMMA ANextInv == AInv /\ [ANext]_vars => AInv'
<1> SUFFICES ASSUME AInv, [ANext]_vars PROVE AInv'
  OBVIOUS
<1>1. [SignInNext]_signInVars /\ [F!FNext]_foundingPart
  BY StepsOfParts
<1>2. IInv'
  BY <1>1, NextInv DEF AInv
<1>3. FInv'
  BY <1>1, FNextInv DEF AInv
<1>4. \A p \in Phones : customer[p].verified => customer'[p].verified
  BY <1>1, VerifiedStays DEF AInv
<1>5. /\ members \subseteq [customer : Phones, number : 1..Capacity]
      /\ \A j \in Joins : join[j].pc \in {"waiting", "locked"} => join[j].customer \in Phones
      /\ \E D : join \in [Joins -> D]
  BY DEF AInv, FInv, F!FTypeOK, F!Member
<1>6. ASSUME NEW j \in Joins, NEW p \in Phones, Join(j, p)
      PROVE  FoundersAreVerified' /\ JoinersAreVerified'
  <2>1. customer[p].verified
    BY <1>6 DEF Join, Authenticated, AInv, IInv, VerifiedBeforeSession
  <2>2. UNCHANGED members /\ UNCHANGED customer
    BY <1>6 DEF Join, F!Check, signInVars
  <2>3. \A k \in Joins : join'[k].pc \in {"waiting", "locked"} =>
            join'[k] = join[k] \/ join'[k].customer = p
    BY <1>5, <1>6 DEF Join, F!Check, F!Answered
  <2> QED BY <2>1, <2>2, <2>3 DEF AInv, FoundersAreVerified, JoinersAreVerified
<1>7. ASSUME NEW j \in Joins, F!FStep(j), UNCHANGED signInVars
      PROVE  FoundersAreVerified' /\ JoinersAreVerified'
  <2>1. \A k \in Joins : join'[k].pc \in {"waiting", "locked"} =>
            join[k].pc \in {"waiting", "locked"} /\ join'[k].customer = join[k].customer
    BY <1>5, <1>7 DEF F!FStep, F!Lock, F!TurnAway, F!Enter, F!Collide, F!Break, F!Answered
  <2>2. \A m \in members' : m \in members \/ (m.customer = join[j].customer /\ join[j].pc = "locked")
    BY <1>7 DEF F!FStep, F!Lock, F!TurnAway, F!Enter, F!Collide, F!Break
  <2> QED BY <1>7, <2>1, <2>2 DEF AInv, signInVars, FoundersAreVerified, JoinersAreVerified
<1>8. ASSUME UNCHANGED <<allocated, members, rowLock, join>>
      PROVE  FoundersAreVerified' /\ JoinersAreVerified'
  <2>1. members' = members /\ join' = join
    BY <1>8
  <2>2. \A m \in members : m.customer \in Phones
    BY <1>5
  <2>3. FoundersAreVerified'
    BY <1>4, <2>1, <2>2 DEF AInv, FoundersAreVerified
  <2>4. JoinersAreVerified'
    BY <1>4, <1>5, <2>1 DEF AInv, JoinersAreVerified
  <2> QED BY <2>3, <2>4
<1>9. FoundersAreVerified' /\ JoinersAreVerified'
  <2>1. CASE ANext
    <3>1. CASE \E j \in Joins, p \in Phones : Join(j, p)
      BY <1>6, <3>1
    <3>2. CASE \E j \in Joins : F!FStep(j) /\ UNCHANGED signInVars
      BY <1>7, <3>2
    <3> QED BY <1>8, <2>1, <3>1, <3>2 DEF ANext
  <2>2. CASE UNCHANGED vars
    BY <1>8, <2>2 DEF vars
  <2> QED BY <2>1, <2>2
<1> QED BY <1>2, <1>3, <1>9 DEF AInv

LEMMA AccountsInvariants == Spec => []AInv
  BY AInitInv, ANextInv, PTL DEF Spec

\* Every founding customer is verified, though joining asks for nothing but a
\* live session, which may end, or lose its customer to a merge, meanwhile.
THEOREM FoundersAreVerifiedAlways == Spec => []FoundersAreVerified
<1>1. AInv => FoundersAreVerified
  BY DEF AInv
<1> QED BY AccountsInvariants, <1>1, PTL

\* The founding numbers have no gap and no double, whatever signing in does.
THEOREM AccountsFoundersNumbered == Spec => []FoundersNumbered
<1>1. AInv => FoundersNumbered
  BY DEF AInv, FInv, FoundersNumbered
<1> QED BY AccountsInvariants, <1>1, PTL

\* Nobody loses a founding place to a race, whatever signing in does.
THEOREM AccountsNoPlaceLost == Spec => []NoPlaceLost
<1>1. AInv => NoPlaceLost
  BY DEF AInv, FInv, NoPlaceLost
<1> QED BY AccountsInvariants, <1>1, PTL

\* What is proved of signing in alone holds next to the campaign, too.
THEOREM AccountsSignIn ==
    Spec => [](CodeSignsInOnce /\ AttemptsBounded /\ AccountSignsInOne /\ VerifiedBeforeSession)
<1>1. AInv => CodeSignsInOnce /\ AttemptsBounded /\ AccountSignsInOne /\ VerifiedBeforeSession
  BY DEF AInv, IInv
<1> QED BY AccountsInvariants, <1>1, PTL

\* Every variable keeps its type, whatever the calls and the requests do.
THEOREM AccountsTypeCorrect == Spec => []TypeOK
<1>1. AInv => TypeOK
  BY DEF AInv, IInv, FInv, TypeOK
<1> QED BY AccountsInvariants, <1>1, PTL

\* Together the parts do nothing that one of them could not do alone: signing in
\* goes on as SignIn says, and the places are given out as Founding says.
THEOREM AccountsImplementParts == Spec => SignInSpec /\ F!FInit /\ [][F!FNext]_foundingPart
<1>1. AInit => Init /\ F!FInit
  BY DEF AInit
<1>2. [ANext]_vars => [SignInNext]_signInVars /\ [F!FNext]_foundingPart
  BY StepsOfParts
<1> QED BY <1>1, <1>2, PTL DEF Spec, SignInSpec
=============================================================================
