--------------------------------- MODULE Account --------------------------------
(***************************************************************************)
(* Who is signed in: AuthService's one-time codes, logins and refresh      *)
(* tokens, AccountService's sign-outs, deactivation, deletion and change   *)
(* of the phone number, and Admin's suspension of a customer.              *)
(*                                                                         *)
(* A request reads, is suspended at an await, and acts on what it read; it *)
(* may be lost at any await (a crash or a database error).  Of a typed     *)
(* code it matters only whether it is right.  A refresh token is named by  *)
(* the login it descends from and by how often it was exchanged; access    *)
(* tokens are not stored and appear as the guard Authenticated.            *)
(***************************************************************************)
EXTENDS Integers, FiniteSets

CONSTANTS Phones, Customers, Requests,
          Allowlist,   \* OTP_TEST_ALLOWED_PHONES of a test build
          First,       \* the customer who is signed in at the start
          FirstPhone,
          MaxAttempts, \* OTP_MAX_ATTEMPTS
          MaxCodes, MaxLogins, MaxExchanges,  \* bounds
          None

ASSUME FirstAssumption == First \in Customers /\ FirstPhone \in Phones
ASSUME AllowlistAssumption == Allowlist \subseteq Phones
ASSUME NoneAssumption == None \notin Phones \cup Customers
ASSUME RequestsAssumption == IsFiniteSet(Requests)
ASSUME BoundsAssumption ==
  /\ MaxAttempts \in Nat \ {0} /\ MaxCodes \in Nat
  /\ MaxLogins \in Nat \ {0} /\ MaxExchanges \in Nat

Codes == 1..MaxCodes     \* rows of customer_otps, in the order of createdAt
Logins == 1..MaxLogins
Tokens == Logins \X (0..MaxExchanges)

VARIABLES
  code,     \* customer_otps; None where there is no row
  customer, \* customers; None where there is no row
  wallet,   \* customers with a wallet
  setting,  \* customers with settings
  token,    \* customer_refresh_tokens
  req,      \* requests in flight
  issued,   \* codes created so far
  logins,   \* logins that came to their token so far
  owner,    \* history: whose login it is
  entered,  \* history: how many logins each code opened
  revoked   \* history: logins whose token was signed out, suspended or deleted

rows == <<code, customer, wallet, setting, token>>
past == <<issued, logins, owner, entered, revoked>>
vars == <<rows, req, past>>

AccountStatus == {"active", "suspended", "deactivated"}
CodeRow == [phone : Phones, attempts : Nat, expired : BOOLEAN]
CustomerRow == [phone : Phones, status : AccountStatus]
Request ==
  [at : {"idle", "clear", "clearBoth", "add", "addBoth", "guess", "use", "find", "create",
         "wallet", "setting", "token", "rotate", "rotated", "drop", "codes", "change",
         "guessBoth", "addSetting"},
   phone : Phones \cup {None}, new : Phones \cup {None},
   code : Codes \cup {0}, newCode : Codes \cup {0},
   customer : Customers \cup {None}, token : Tokens \cup {<<0, 0>>}]
\* Requests for codes and logins, exchanges of a token, changes of the phone.
Entering(a, p, k, c) == [at |-> a, phone |-> p, new |-> None, code |-> k, newCode |-> 0,
                         customer |-> c, token |-> <<0, 0>>]
Holding(a, t) == [at |-> a, phone |-> None, new |-> None, code |-> 0, newCode |-> 0,
                  customer |-> None, token |-> t]
Moving(a, c, p, n, k, j) == [at |-> a, phone |-> p, new |-> n, code |-> k, newCode |-> j,
                             customer |-> c, token |-> <<0, 0>>]
Idle == Entering("idle", None, 0, None)

Init ==
  /\ code = [k \in Codes |-> None]
  /\ customer = [c \in Customers |->
       IF c = First THEN [phone |-> FirstPhone, status |-> "active"] ELSE None]
  /\ wallet = {First} /\ setting = {First}
  /\ token = {<<1, 0>>} /\ logins = 1 /\ owner = [l \in Logins |-> First]
  /\ req = [r \in Requests |-> Idle]
  /\ issued = 0 /\ entered = [k \in Codes |-> 0] /\ revoked = {}
-------------------------------------------------------------------------------
(* Helpers *)

Becomes(r, state) == req' = [req EXCEPT ![r] = state]
Starts(r, state) == req[r] = Idle /\ Becomes(r, state)
Goes(r, here, next) == req[r].at = here /\ req' = [req EXCEPT ![r].at = next]
Ends(r, here) == req[r].at = here /\ Becomes(r, Idle)

\* isTestPhoneAllowlisted: nothing is delivered to any other phone.
Allowlisted(p) == p \in Allowlist

Exists(c) == customer[c] # None
Active(c) == Exists(c) /\ customer[c].status = "active"
\* JwtStrategy.validate, at the start of a request with an access token.
Authenticated(c) == Active(c)
Free(p) == \A c \in Customers : Exists(c) => customer[c].phone # p

RowsOf(p) == {k \in Codes : code[k] # None /\ code[k].phone = p}
\* The newest code of a phone that can still be tried.
Newest(p, k) == k \in RowsOf(p) /\ \A j \in RowsOf(p) : j <= k
\* Mutant of Usable: the limit is one too high.
UsableOnceMore(k) == ~code[k].expired /\ code[k].attempts <= MaxAttempts
Usable(k) == ~code[k].expired /\ code[k].attempts < MaxAttempts

Without(phones) == [k \in Codes |-> IF code[k] # None /\ code[k].phone \in phones
                                    THEN None ELSE code[k]]
\* Mutant of Counted: attempts are counted down.
CountedDown(keys) ==
  [k \in Codes |-> IF k \in keys THEN [code[k] EXCEPT !.attempts = @ - 1] ELSE code[k]]
Counted(keys) ==
  [k \in Codes |-> IF k \in keys THEN [code[k] EXCEPT !.attempts = @ + 1] ELSE code[k]]

\* deleteMany of tokens; their logins end with them.
Dropped(tokens) ==
  /\ token' = token \ tokens
  /\ revoked' = revoked \cup {t[1] : t \in tokens \cap token}
TokensOf(c) == {t \in token : owner[t[1]] = c}

\* The request is lost at an await, or refused for what it read there.
Lost(r) ==
  /\ req[r].at # "idle"
  /\ Becomes(r, Idle)
  /\ UNCHANGED <<rows, past>>
-------------------------------------------------------------------------------
(* One-time codes *)

\* sendOtp and resendOtp: the old codes are deleted, then a new one is created.
SendOtp(r, p) ==
  /\ Allowlisted(p)
  /\ Starts(r, Entering("clear", p, 0, None))
  /\ UNCHANGED <<rows, past>>

ClearCodes(r) ==
  /\ Goes(r, "clear", "add")
  /\ code' = Without({req[r].phone})
  /\ UNCHANGED <<customer, wallet, setting, token, past>>

Fresh(p) == [phone |-> p, attempts |-> 0, expired |-> FALSE]

AddCode(r) ==
  /\ Ends(r, "add")
  /\ issued < MaxCodes
  /\ issued' = issued + 1
  /\ code' = [code EXCEPT ![issued + 1] = Fresh(req[r].phone)]
  /\ UNCHANGED <<customer, wallet, setting, token, logins, owner, entered, revoked>>

\* The clock.
Expire(k) ==
  /\ code[k] # None /\ ~code[k].expired
  /\ code' = [code EXCEPT ![k].expired = TRUE]
  /\ UNCHANGED <<customer, wallet, setting, token, req, past>>
-------------------------------------------------------------------------------
(* Logging in *)

\* verifyOtp reads the newest code, checks it, and compares.
VerifyOtp(r, p) ==
  \E k \in Codes :
    /\ Newest(p, k) /\ Usable(k)
    /\ \E right \in BOOLEAN :
         Starts(r, Entering(IF right THEN "use" ELSE "guess", p, k, None))
    /\ UNCHANGED <<rows, past>>

\* A code found expired is deleted by its id.
VerifyExpired(p) ==
  \E k \in Codes :
    /\ Newest(p, k) /\ code[k].expired
    /\ code' = [code EXCEPT ![k] = None]
    /\ UNCHANGED <<customer, wallet, setting, token, req, past>>

CountGuess(r) ==
  /\ Ends(r, "guess")
  /\ code[req[r].code] # None
  /\ code' = Counted({req[r].code})
  /\ UNCHANGED <<customer, wallet, setting, token, past>>

\* Mutant of Present: a code that is gone is taken for deleted.
PresentOrGone(k) == k \in Codes
Present(k) == code[k] # None

\* delete by id: it fails where the row is gone.
UseCode(r) ==
  LET k == req[r].code IN
  /\ Goes(r, "use", "find")
  /\ Present(k)
  /\ code' = [code EXCEPT ![k] = None]
  /\ entered' = [entered EXCEPT ![k] = @ + 1]
  /\ UNCHANGED <<customer, wallet, setting, token, issued, logins, owner, revoked>>

FindCustomer(r) ==
  LET p == req[r].phone IN
  /\ req[r].at = "find"
  /\ \/ Free(p) /\ Becomes(r, Entering("create", p, 0, None))
     \/ \E c \in Customers :
          /\ Exists(c) /\ customer[c].phone = p
          /\ Becomes(r, Entering("token", p, 0, c))
  /\ UNCHANGED <<rows, past>>

\* The phone is unique: the insert fails if it was taken meanwhile.  An id is new.
CreateCustomer(r, c) ==
  /\ req[r].at = "create" /\ Free(req[r].phone)
  /\ ~Exists(c) /\ \A l \in 1..logins : owner[l] # c
  /\ \A o \in Requests : req[o].customer # c
  /\ customer' = [customer EXCEPT ![c] = [phone |-> req[r].phone, status |-> "active"]]
  /\ Becomes(r, Entering("wallet", req[r].phone, 0, c))
  /\ UNCHANGED <<code, wallet, setting, token, past>>

CreateWallet(r) ==
  /\ Goes(r, "wallet", "setting")
  /\ Exists(req[r].customer)
  /\ wallet' = wallet \cup {req[r].customer}
  /\ UNCHANGED <<code, customer, setting, token, past>>

\* One row of settings for a customer: the insert fails where there is one.
InsertsSetting(c) ==
  /\ Exists(c) /\ c \notin setting
  /\ setting' = setting \cup {c}

CreateSetting(r) ==
  /\ Goes(r, "setting", "token")
  /\ InsertsSetting(req[r].customer)
  /\ UNCHANGED <<code, customer, wallet, token, past>>

\* The login's refresh token; the account's status is not looked at.
StoreToken(r) ==
  /\ Ends(r, "token")
  /\ Exists(req[r].customer)
  /\ logins < MaxLogins
  /\ logins' = logins + 1
  /\ owner' = [owner EXCEPT ![logins + 1] = req[r].customer]
  /\ token' = token \cup {<<logins + 1, 0>>}
  /\ UNCHANGED <<code, customer, wallet, setting, issued, entered, revoked>>
-------------------------------------------------------------------------------
(* Exchanging a refresh token *)

Refresh(r, t) ==
  /\ t \in token /\ t[2] < MaxExchanges
  /\ Active(owner[t[1]])
  /\ Starts(r, Holding("rotate", t))
  /\ UNCHANGED <<rows, past>>

\* Mutant of Consumed: the count of deleted rows is not looked at.
ConsumedAnyway(t) == t[2] < MaxExchanges
Consumed(t) == t \in token

\* deleteMany: who deletes the row goes on, the others are refused.
Rotate(r) ==
  LET t == req[r].token IN
  /\ Goes(r, "rotate", "rotated")
  /\ Consumed(t)
  /\ token' = token \ {t}
  /\ UNCHANGED <<code, customer, wallet, setting, past>>

StoreRotated(r) ==
  LET t == req[r].token IN
  /\ Ends(r, "rotated")
  /\ Exists(owner[t[1]])
  /\ token' = token \cup {<<t[1], t[2] + 1>>}
  /\ UNCHANGED <<code, customer, wallet, setting, past>>
-------------------------------------------------------------------------------
(* Ending sessions *)

\* logout and revokeSession with one token, logoutAll with all.
Logout(c) ==
  /\ Authenticated(c)
  /\ \/ \E t \in TokensOf(c) : Dropped({t})
     \/ Dropped(TokensOf(c))
  /\ UNCHANGED <<code, customer, wallet, setting, req, issued, logins, owner, entered>>

SetAccount(c, s) == customer' = [customer EXCEPT ![c].status = s]

\* updateCustomerBanStatus and deactivateAccount: the status, then the tokens.
Close(r, c, s) ==
  /\ IF s = "suspended" THEN Exists(c) ELSE Authenticated(c)
  /\ SetAccount(c, s)
  /\ Starts(r, Entering("drop", None, 0, c))
  /\ UNCHANGED <<code, wallet, setting, token, past>>

DropTokens(r) ==
  /\ Ends(r, "drop")
  /\ Dropped(TokensOf(req[r].customer))
  /\ UNCHANGED <<code, customer, wallet, setting, issued, logins, owner, entered>>

\* Admin lifts a suspension, or a deactivation.
Reopen(c) ==
  /\ Exists(c) /\ ~Active(c)
  /\ SetAccount(c, "active")
  /\ UNCHANGED <<code, wallet, setting, token, req, past>>

\* The row and all that refers to it; the codes go by phone and stay.
DeleteAccount(c) ==
  /\ Authenticated(c)
  /\ customer' = [customer EXCEPT ![c] = None]
  /\ wallet' = wallet \ {c} /\ setting' = setting \ {c}
  /\ Dropped(TokensOf(c))
  /\ UNCHANGED <<code, req, issued, logins, owner, entered>>
-------------------------------------------------------------------------------
(* Settings *)

\* getSettings, for the settings, the preferences and the languages: what is not
\* there is created, after the read.
GetSettings(r, c) ==
  /\ Authenticated(c) /\ c \notin setting
  /\ Starts(r, Entering("addSetting", None, 0, c))
  /\ UNCHANGED <<rows, past>>

AddSetting(r) ==
  /\ Ends(r, "addSetting")
  /\ InsertsSetting(req[r].customer)
  /\ UNCHANGED <<code, customer, wallet, token, past>>

\* updateSettings and the answer to the notification prompt: an upsert.
UpdateSettings(c) ==
  /\ Authenticated(c)
  /\ setting' = setting \cup {c}
  /\ UNCHANGED <<code, customer, wallet, token, req, past>>
-------------------------------------------------------------------------------
(* Changing the phone number *)

Changing(r, c, new, at) ==
  /\ Authenticated(c) /\ customer[c].phone # new /\ Free(new)
  /\ Starts(r, Moving(at, c, customer[c].phone, new, 0, 0))
  /\ UNCHANGED <<rows, past>>

RequestChange(r, c, new) ==
  /\ Changing(r, c, new, "clearBoth")
  /\ Allowlisted(new) /\ Allowlisted(customer[c].phone)

ClearBoth(r) ==
  /\ Goes(r, "clearBoth", "addBoth")
  /\ code' = Without({req[r].phone, req[r].new})
  /\ UNCHANGED <<customer, wallet, setting, token, past>>

\* One insert of two rows.
AddBoth(r) ==
  /\ Ends(r, "addBoth")
  /\ issued + 2 <= MaxCodes
  /\ issued' = issued + 2
  /\ code' = [code EXCEPT ![issued + 1] = Fresh(req[r].phone),
                          ![issued + 2] = Fresh(req[r].new)]
  /\ UNCHANGED <<customer, wallet, setting, token, logins, owner, entered, revoked>>

VerifyChange(r, c, new) == Changing(r, c, new, "codes")

\* Both codes are read and compared.
ReadCodes(r) ==
  /\ req[r].at = "codes"
  /\ \E k, j \in Codes :
       /\ Newest(req[r].phone, k) /\ Usable(k)
       /\ Newest(req[r].new, j) /\ Usable(j)
       /\ LET next(at, old, new) ==
                Becomes(r, Moving(at, req[r].customer, req[r].phone, req[r].new, old, new))
          IN \/ next("change", 0, 0)
             \/ \E old \in {0, k}, new \in {0, j} :
                  <<old, new>> # <<0, 0>> /\ next("guessBoth", old, new)
  /\ UNCHANGED <<rows, past>>

\* The wrong ones are counted.
CountBoth(r) ==
  LET wrong == {req[r].code, req[r].newCode} \ {0} IN
  /\ Ends(r, "guessBoth")
  /\ code' = Counted({k \in wrong : code[k] # None})
  /\ UNCHANGED <<customer, wallet, setting, token, past>>

\* One transaction: the phone, which is unique, and the codes of both phones.
Change(r) ==
  LET c == req[r].customer IN
  /\ Ends(r, "change")
  /\ Exists(c)
  /\ \A d \in Customers \ {c} : Exists(d) => customer[d].phone # req[r].new
  /\ customer' = [customer EXCEPT ![c].phone = req[r].new]
  /\ code' = Without({req[r].phone, req[r].new})
  /\ UNCHANGED <<wallet, setting, token, past>>
-------------------------------------------------------------------------------
Next ==
  \/ \E r \in Requests :
       \/ Lost(r)
       \/ \E p \in Phones : SendOtp(r, p) \/ VerifyOtp(r, p)
       \/ ClearCodes(r) \/ AddCode(r) \/ CountGuess(r) \/ UseCode(r)
       \/ FindCustomer(r) \/ CreateWallet(r) \/ CreateSetting(r) \/ StoreToken(r)
       \/ AddSetting(r)
       \/ \E c \in Customers :
            \/ CreateCustomer(r, c) \/ GetSettings(r, c)
            \/ \E s \in {"suspended", "deactivated"} : Close(r, c, s)
            \/ \E p \in Phones : RequestChange(r, c, p) \/ VerifyChange(r, c, p)
       \/ \E t \in Tokens : Refresh(r, t)
       \/ Rotate(r) \/ StoreRotated(r) \/ DropTokens(r)
       \/ ClearBoth(r) \/ AddBoth(r) \/ ReadCodes(r) \/ CountBoth(r) \/ Change(r)
  \/ \E p \in Phones : VerifyExpired(p)
  \/ \E k \in Codes : Expire(k)
  \/ \E c \in Customers : Logout(c) \/ Reopen(c) \/ DeleteAccount(c) \/ UpdateSettings(c)

Spec == Init /\ [][Next]_vars
-------------------------------------------------------------------------------
(* Properties *)

\* Every variable has its type.
TypeOK ==
  /\ code \in [Codes -> CodeRow \cup {None}]
  /\ customer \in [Customers -> CustomerRow \cup {None}]
  /\ wallet \subseteq Customers /\ setting \subseteq Customers
  /\ token \subseteq Tokens
  /\ req \in [Requests -> Request]
  /\ issued \in 0..MaxCodes /\ logins \in 1..MaxLogins
  /\ owner \in [Logins -> Customers]
  /\ entered \in [Codes -> Nat]
  /\ revoked \subseteq Logins

\* A code opens one login, however many verifications of it are in flight.
CodeEntersOnce == \A k \in Codes : entered[k] <= 1

\* What a login holds: its token, or the exchange that has consumed the last one.
Held(l) == {t \in token : t[1] = l} \cup
           {<<r>> : r \in {q \in Requests : req[q].at = "rotated" /\ req[q].token[1] = l}}

\* However refreshes, sign-outs, suspensions and crashes interleave, a login holds
\* at most one token, and none once its token was revoked: it never comes back.
LoginHoldsOneToken ==
  \A l \in Logins : Cardinality(Held(l)) <= (IF l \in revoked THEN 0 ELSE 1)

\* Comparisons in flight together pass the limit check together, but not more than
\* there are requests: the limit is overrun by less than their number.
GuessesBounded ==
  \A k \in Codes : code[k] # None =>
    code[k].attempts < MaxAttempts + Cardinality(Requests)
===============================================================================
