-------------------------------- MODULE SignIn --------------------------------
(***************************************************************************)
(* How customers sign in: a code is sent to a telephone and brought back,  *)
(* alone or with a Google account to link, and opens a session; afterwards *)
(* the linked account opens sessions by itself.  Every statement is a      *)
(* transaction of its own, so the calls below interleave between any two   *)
(* of them, with the customers that staff create, verify and merge.        *)
(*                                                                         *)
(* A customer is known by the telephone (phone_hash is unique, also among  *)
(* the merged ones).  Whether a code brought back is the right one is left *)
(* open, and so is whether the Google account is genuine: only genuine     *)
(* ones get this far.                                                      *)
(***************************************************************************)
EXTENDS Naturals, Sequences, FiniteSets

CONSTANTS Phones,
          Subjects,      \* Google accounts
          Phone,         \* what stands for a sign-in without Google account
          Calls,         \* requests that the server works on at a time
          MaxAttempts,   \* MAX_ATTEMPTS
          MaxResends,    \* MAX_RESENDS_PER_HOUR
          MaxCodes       \* bound: codes ever sent

NoOne == "none"

ASSUME SignInAssumptions ==
    /\ Phone \notin Subjects /\ NoOne \notin Phones
    /\ MaxAttempts \in Nat \ {0} /\ MaxResends \in Nat \ {0}
    /\ MaxCodes \in Nat

VARIABLES codes,         \* customer_otp, by creation
          customer,      \* customers, by telephone
          link,          \* customer_external_identities: account -> customer
          sessions,      \* customer_sessions: the kinds of live ones
          call           \* per call: how far it is, and what it has read

signInVars == <<codes, customer, link, sessions, call>>

NoCustomer == [status |-> "NONE", verified |-> FALSE]

\* The age of a code: under a minute, valid, expired, deleted.
New     == 0
Valid   == 1
Expired == 2
Deleted == 3

\* signIns counts the sessions that the code has opened; no column holds it.
Code    == [phone : Phones, age : New..Deleted, attempts : 0..MaxAttempts,
            used : BOOLEAN, signIns : Nat]
Session == [customer : Phones, by : Subjects \cup {Phone}]

\* How far a call is, with the telephone, or the code and the account, it is for.
CallState ==
    [pc : {"idle"}]
    \cup [pc : {"asked"}, phone : Phones]
    \cup [pc : {"comparing", "proved", "unknown", "unverified", "verified"},
          code : 1..MaxCodes, by : Subjects \cup {Phone}]
    \cup [pc : {"linked"}, code : 0..MaxCodes, by : Subjects]

CodesOf(p) == {i \in DOMAIN codes : codes[i].phone = p}

Init ==
    /\ codes = <<>>
    /\ customer = [p \in Phones |-> NoCustomer]
    /\ link = [s \in Subjects |-> NoOne]
    /\ sessions = {}
    /\ call = [c \in Calls |-> [pc |-> "idle"]]

Go(c, state) == call' = [call EXCEPT ![c] = state]
Done(c)      == Go(c, [pc |-> "idle"])

-----------------------------------------------------------------------------
(* A code is asked for *)

\* The limits are looked up before the code is inserted: at least a minute
\* since the last one, and fewer than MaxResends in the last hour.  A code that
\* has expired may be of the last hour or not.
AskForCode(c, p) ==
    /\ call[c].pc = "idle"
    /\ \A i \in CodesOf(p) : codes[i].age # New
    /\ Cardinality({i \in CodesOf(p) : codes[i].age < Expired}) < MaxResends
    /\ Go(c, [pc |-> "asked", phone |-> p])
    /\ UNCHANGED <<codes, customer, link, sessions>>

\* The code is inserted and the provider takes the message, or refuses it and
\* the code is made void; a code used before that counts as taken.
SendCode(c) ==
    /\ call[c].pc = "asked"
    /\ Len(codes) < MaxCodes
    /\ \E refused \in BOOLEAN :
           codes' = Append(codes, [phone |-> call[c].phone, age |-> New, attempts |-> 0,
                                   used |-> refused, signIns |-> 0])
    /\ Done(c)
    /\ UNCHANGED <<customer, link, sessions>>

-----------------------------------------------------------------------------
(* A code is brought back: POST /otp/verify, and /google/link with account s *)

Usable(i) == ~codes[i].used /\ codes[i].age < Expired

\* The latest usable code of the telephone.  The code's attempts are compared
\* with the limit here, too, but a code at the limit is used already.
FindCode(c, p, s) ==
    /\ call[c].pc = "idle"
    /\ s # Phone => link[s] = NoOne
    /\ \E i \in CodesOf(p) :
           /\ Usable(i)
           /\ \A j \in CodesOf(p) : Usable(j) => j <= i
           /\ Go(c, [pc |-> "comparing", code |-> i, by |-> s])
    /\ UNCHANGED <<codes, customer, link, sessions>>

\* A code after one more wrong answer, void at the limit; and after the right one.
Missed(k) == [k EXCEPT !.attempts = @ + 1, !.used = k.attempts + 1 >= MaxAttempts]
Taken(k)  == [k EXCEPT !.attempts = @ + 1, !.used = TRUE]

\* Definitions named Bug.. vary the one they precede, as a mistake in the code
\* would; each breaks a property below, and nothing else refers to them.

BugCountsUsedCode(c) ==
    LET i == call[c].code IN
    /\ call[c].pc = "comparing"
    /\ codes' = IF codes[i].age = Deleted THEN codes
                ELSE [codes EXCEPT ![i] = Missed(@)]
    /\ Done(c)
    /\ UNCHANGED <<customer, link, sessions>>

\* A wrong code: one UPDATE counts it, and voids the code at the limit.
WrongCode(c) ==
    LET i == call[c].code IN
    /\ call[c].pc = "comparing"
    /\ codes' = IF codes[i].used \/ codes[i].age = Deleted THEN codes
                ELSE [codes EXCEPT ![i] = Missed(@)]
    /\ Done(c)
    /\ UNCHANGED <<customer, link, sessions>>

BugConsume(c) ==
    LET i == call[c].code IN
    /\ call[c].pc = "comparing"
    /\ codes' = [codes EXCEPT ![i].used = TRUE]
    /\ Go(c, [pc |-> "proved", code |-> i, by |-> call[c].by])
    /\ UNCHANGED <<customer, link, sessions>>

\* The right code: one UPDATE uses it, unless it was used or expired meanwhile.
Consume(c) ==
    LET i == call[c].code IN
    /\ call[c].pc = "comparing"
    /\ IF Usable(i) /\ codes[i].attempts < MaxAttempts
       THEN /\ codes' = [codes EXCEPT ![i] = Taken(@)]
            /\ Go(c, [pc |-> "proved", code |-> i, by |-> call[c].by])
       ELSE UNCHANGED codes /\ Done(c)
    /\ UNCHANGED <<customer, link, sessions>>

\* The customer that a call is for: by its code, or by its account alone.
Caller(c) == IF call[c].code = 0 THEN link[call[c].by] ELSE codes[call[c].code].phone

Proceed(c, pc) == Go(c, [pc |-> pc, code |-> call[c].code, by |-> call[c].by])

\* The customer is looked up among the active ones.
Identify(c) ==
    LET p == Caller(c) IN
    /\ call[c].pc = "proved"
    /\ Proceed(c, IF customer[p].status # "ACTIVE" THEN "unknown"
                  ELSE IF customer[p].verified THEN "verified" ELSE "unverified")
    /\ UNCHANGED <<codes, customer, link, sessions>>

BugRegisteredAsVerified(c) ==
    LET p == Caller(c) IN
    /\ call[c].pc = "unknown"
    /\ IF customer[p].status = "NONE"
       THEN /\ customer' = [customer EXCEPT ![p].status = "ACTIVE"]
            /\ Proceed(c, "verified")
       ELSE UNCHANGED customer /\ Done(c)
    /\ UNCHANGED <<codes, link, sessions>>

\* An unknown customer is created, unless the telephone has a row by now, or
\* had one all along that was merged: then the call fails.
Register(c) ==
    LET p == Caller(c) IN
    /\ call[c].pc = "unknown"
    /\ IF customer[p].status = "NONE"
       THEN /\ customer' = [customer EXCEPT ![p].status = "ACTIVE"]
            /\ Proceed(c, "unverified")
       ELSE UNCHANGED customer /\ Done(c)
    /\ UNCHANGED <<codes, link, sessions>>

Confirm(c) ==
    /\ call[c].pc = "unverified"
    /\ customer' = [customer EXCEPT ![Caller(c)].verified = TRUE]
    /\ Proceed(c, "verified")
    /\ UNCHANGED <<codes, link, sessions>>

BugLinkTakenIsIgnored(c) ==
    LET s == call[c].by IN
    /\ call[c].pc = "verified" /\ s # Phone
    /\ link' = IF link[s] = NoOne THEN [link EXCEPT ![s] = Caller(c)] ELSE link
    /\ Proceed(c, "linked")
    /\ UNCHANGED <<codes, customer, sessions>>

\* INSERT .. ON CONFLICT DO NOTHING: a conflict is no harm if the account is
\* linked to this customer, and ends the call with a 409 if to another.
LinkAccount(c) ==
    LET s == call[c].by IN
    /\ call[c].pc = "verified" /\ s # Phone
    /\ IF link[s] \in {NoOne, Caller(c)}
       THEN link' = [link EXCEPT ![s] = Caller(c)] /\ Proceed(c, "linked")
       ELSE UNCHANGED link /\ Done(c)
    /\ UNCHANGED <<codes, customer, sessions>>

\* POST /auth/google: an account that is linked signs an active customer in.
GoogleSignIn(c, s) ==
    /\ call[c].pc = "idle"
    /\ link[s] # NoOne
    /\ customer[link[s]].status = "ACTIVE"
    /\ Go(c, [pc |-> "linked", code |-> 0, by |-> s])
    /\ UNCHANGED <<codes, customer, link, sessions>>

OpenSession(c) ==
    /\ \/ call[c].pc = "verified" /\ call[c].by = Phone
       \/ call[c].pc = "linked"
    /\ sessions' = sessions \cup {[customer |-> Caller(c), by |-> call[c].by]}
    /\ codes' = [i \in DOMAIN codes |-> [codes[i] EXCEPT
                     !.signIns = IF i = call[c].code THEN @ + 1 ELSE @]]
    /\ Done(c)
    /\ UNCHANGED <<customer, link>>

\* A statement fails, the process ends, or the provider cannot be reached:
\* the call is answered with an error, and what it wrote stays.
Fail(c) ==
    /\ call[c].pc # "idle"
    /\ Done(c)
    /\ UNCHANGED <<codes, customer, link, sessions>>

-----------------------------------------------------------------------------
(* Staff, time, and the end of sessions *)

\* At the till, or by an administrator.
Enroll(p) ==
    /\ customer[p].status = "NONE"
    /\ customer' = [customer EXCEPT ![p].status = "ACTIVE"]
    /\ UNCHANGED <<codes, link, sessions, call>>

StaffVerify(p) ==
    /\ customer[p].status # "NONE"
    /\ customer' = [customer EXCEPT ![p].verified = TRUE]
    /\ UNCHANGED <<codes, link, sessions, call>>

\* Into any customer, itself included; sessions and links stay as they are.
MergeAway(p) ==
    /\ customer[p].status = "ACTIVE"
    /\ customer' = [customer EXCEPT ![p].status = "DELETED"]
    /\ UNCHANGED <<codes, link, sessions, call>>

\* The last session of its kind is revoked, or its day is over.
LogOut(r) ==
    /\ r \in sessions
    /\ sessions' = sessions \ {r}
    /\ UNCHANGED <<codes, customer, link, call>>

LogOutAll(p) ==
    /\ \E r \in sessions : r.customer = p
    /\ sessions' = {r \in sessions : r.customer # p}
    /\ UNCHANGED <<codes, customer, link, call>>

\* Codes grow older in the order they were sent.
GrowOlder(i) ==
    /\ codes[i].age < Expired
    /\ \A j \in 1..(i - 1) : codes[j].age > codes[i].age
    /\ codes' = [codes EXCEPT ![i].age = @ + 1]
    /\ UNCHANGED <<customer, link, sessions, call>>

CleanUp ==
    /\ \E i \in DOMAIN codes : codes[i].age = Expired
    /\ codes' = [i \in DOMAIN codes |->
                    [codes[i] EXCEPT !.age = IF @ < Expired THEN @ ELSE Deleted]]
    /\ UNCHANGED <<customer, link, sessions, call>>

Serve(c) ==
    \/ \E p \in Phones : AskForCode(c, p)
    \/ SendCode(c)
    \/ \E p \in Phones, s \in Subjects \cup {Phone} : FindCode(c, p, s)
    \/ WrongCode(c) \/ Consume(c) \/ Identify(c) \/ Register(c) \/ Confirm(c)
    \/ LinkAccount(c) \/ OpenSession(c) \/ Fail(c)
    \/ \E s \in Subjects : GoogleSignIn(c, s)

SignInNext ==
    \/ \E c \in Calls : Serve(c)
    \/ \E p \in Phones : Enroll(p) \/ StaffVerify(p) \/ MergeAway(p) \/ LogOutAll(p)
    \/ \E r \in sessions : LogOut(r)
    \/ \E i \in DOMAIN codes : GrowOlder(i)
    \/ CleanUp

SignInSpec == Init /\ [][SignInNext]_signInVars

-----------------------------------------------------------------------------

SignInTypeOK ==
    /\ codes \in Seq(Code) /\ Len(codes) <= MaxCodes
    /\ customer \in [Phones -> [status : {"NONE", "ACTIVE", "DELETED"}, verified : BOOLEAN]]
    /\ link \in [Subjects -> Phones \cup {NoOne}]
    /\ sessions \subseteq Session
    /\ call \in [Calls -> CallState]

\* A code signs in once, however many calls bring it back together:
\* "Concurrent verification requests cannot both cross the one-time credential
\* boundary" (verifyOTP).
CodeSignsInOnce == \A i \in DOMAIN codes : codes[i].signIns <= 1

\* A code is void after MaxAttempts wrong answers, and an answer that comes when
\* it is void already is not counted, even if it was compared before.
AttemptsBounded == \A i \in DOMAIN codes :
    codes[i].attempts <= MaxAttempts /\ (codes[i].attempts = MaxAttempts => codes[i].used)

\* A Google account signs in one customer only, the one it is linked to, also
\* when two calls link it to two customers at once.
AccountSignsInOne == \A r \in sessions :
    r.by # Phone => link[r.by] = r.customer

\* Nobody has a session, or a linked account, before the telephone is verified.
VerifiedBeforeSession ==
    /\ \A r \in sessions : customer[r.customer].verified
    /\ \A s \in Subjects : link[s] # NoOne => customer[link[s]].verified
=============================================================================
