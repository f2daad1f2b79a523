------------------------------ MODULE AccountProofs -----------------------------
(***************************************************************************)
(* Proofs about Account: its types, the codes, the tokens and the guesses, *)
(* for any number of customers, phones, codes, logins and requests.        *)
(***************************************************************************)
EXTENDS Account, FiniteSetTheorems, TLAPS

\* TypeOK without the requests.
Tables ==
  /\ code \in [Codes -> CodeRow \cup {None}]
  /\ customer \in [Customers -> CustomerRow \cup {None}]
  /\ wallet \subseteq Customers /\ setting \subseteq Customers
  /\ token \subseteq Tokens
  /\ issued \in 0..MaxCodes /\ logins \in 1..MaxLogins
  /\ owner \in [Logins -> Customers]
  /\ entered \in [Codes -> Nat]
  /\ revoked \subseteq Logins

\* What a suspended request carries.
Carries(q) ==
  /\ q.at \in {"clear", "add", "guess", "use", "find", "create", "clearBoth", "addBoth",
               "codes", "change"} => q.phone \in Phones
  /\ q.at \in {"clearBoth", "addBoth", "codes", "change"} => q.new \in Phones
  /\ q.at \in {"guess", "use"} => q.code \in Codes
  /\ q.at \in {"wallet", "setting", "token", "drop", "codes", "change", "addSetting"}
       => q.customer \in Customers
  /\ q.at \in {"rotate", "rotated"} => q.token \in Tokens /\ q.token[2] < MaxExchanges
Reqs ==
  /\ req \in [Requests -> Request]
  /\ \A r \in Requests : Carries(req[r])

\* A code that is still there has opened nothing; nor has one that is yet to come.
CodeHistory ==
  \A k \in Codes :
    /\ entered[k] <= 1
    /\ code[k] # None => entered[k] = 0 /\ k <= issued
    /\ k > issued => entered[k] = 0

\* The logins with a consumed token, and the one token of the others.
Rotating(o) == req[o].at = "rotated"
OfLogin(o) == req[o].token[1]
Single ==
  /\ \A t, u \in token : t[1] = u[1] => t = u
  /\ \A t \in token, o \in Requests : Rotating(o) => OfLogin(o) # t[1]
  /\ \A o, p \in Requests : Rotating(o) /\ Rotating(p) /\ OfLogin(o) = OfLogin(p) => o = p
  /\ \A t \in token : t[1] \notin revoked /\ t[1] <= logins
  /\ \A o \in Requests : Rotating(o) => OfLogin(o) \notin revoked /\ OfLogin(o) <= logins
  /\ \A l \in revoked : l <= logins

\* The guesses counted and those under way.
Guessing(q, k) ==
  \/ q.at = "guess" /\ q.code = k
  \/ q.at = "guessBoth" /\ k \in {q.code, q.newCode}
Guessers(k) == {o \in Requests : Guessing(req[o], k)}
Guesses ==
  \A k \in Codes : code[k] # None =>
    code[k].attempts + Cardinality(Guessers(k)) < MaxAttempts + Cardinality(Requests)

IInv == Tables /\ Reqs /\ CodeHistory /\ Single /\ Guesses
-------------------------------------------------------------------------------
(* Requests *)

LEMMA ReqsKept ==
  ASSUME Reqs, NEW r \in Requests, NEW q \in Request, Carries(q), Becomes(r, q)
  PROVE  Reqs'
BY DEF Reqs, Becomes, Carries

LEMMA GoesBecomes ==
  ASSUME Reqs, NEW r \in Requests, NEW here, NEW next, Goes(r, here, next)
  PROVE  req[r].at = here /\ Becomes(r, [req[r] EXCEPT !.at = next])
BY DEF Reqs, Goes, Becomes, Request

LEMMA IdleCarries == Idle \in Request /\ Carries(Idle)
BY DEF Idle, Entering, Request, Carries

LEMMA EndsBecomes ==
  ASSUME NEW r \in Requests, NEW here, Ends(r, here)
  PROVE  req[r].at = here /\ Becomes(r, Idle)
BY DEF Ends

LEMMA IdleQuiet == Idle.at = "idle"
BY DEF Idle, Entering
-------------------------------------------------------------------------------
(* Codes, tokens and guesses that a step leaves alone *)

LEMMA CodesKept ==
  ASSUME CodeHistory, UNCHANGED <<issued, entered>>,
         \A k \in Codes : code'[k] # None => code[k] # None
  PROVE  CodeHistory'
BY DEF CodeHistory

LEMMA SingleKept ==
  ASSUME Reqs, Single, NEW r \in Requests, NEW q \in Request, Becomes(r, q),
         q.at # "rotated", UNCHANGED <<token, logins, revoked>>
  PROVE  Single'
<1>1. \A o \in Requests : req'[o].at = "rotated" => req[o].at = "rotated" /\ req'[o] = req[o]
  BY DEF Reqs, Becomes
<1> QED
  BY <1>1 DEF Single, Rotating, OfLogin

LEMMA SingleDropped ==
  ASSUME Tables, Reqs, Single, NEW T \in SUBSET token, Dropped(T), UNCHANGED logins,
         \A o \in Requests : req'[o].at = "rotated" => req[o].at = "rotated" /\ req'[o] = req[o]
  PROVE  Single' /\ token' \subseteq Tokens /\ revoked' \subseteq Logins
<1>1. token' = token \ T /\ revoked' = revoked \cup {t[1] : t \in T}
  BY DEF Dropped
<1>2. \A t \in T : t \in token /\ t[1] \in Logins
  BY DEF Tables, Tokens
<1> QED
  BY <1>1, <1>2 DEF Single, Rotating, OfLogin, Tables

LEMMA GuessersFinite ==
  ASSUME NEW k
  PROVE  /\ IsFiniteSet(Guessers(k)) /\ Cardinality(Guessers(k)) \in Nat
         /\ Cardinality(Guessers(k)) <= Cardinality(Requests)
         /\ Cardinality(Requests) \in Nat
BY RequestsAssumption, FS_Subset, FS_CardinalityType DEF Guessers

LEMMA GuessesKept ==
  ASSUME Tables, Reqs, Guesses, NEW r \in Requests, NEW q \in Request, Becomes(r, q),
         \A k \in Codes : Guessing(q, k) => Guessing(req[r], k),
         \A k \in Codes : code'[k] # None =>
           \/ code'[k].attempts = 0
           \/ code[k] # None /\ code'[k].attempts = code[k].attempts
  PROVE  Guesses'
<1> SUFFICES ASSUME NEW k \in Codes, code'[k] # None
             PROVE  code'[k].attempts + Cardinality(Guessers(k)')
                      < MaxAttempts + Cardinality(Requests)
  BY DEF Guesses
<1> DEFINE after == Guessers(k)'
<1>1. after \subseteq Guessers(k)
  BY DEF Guessers, Becomes, Reqs
<1>2. /\ Cardinality(after) \in Nat /\ Cardinality(after) <= Cardinality(Guessers(k))
      /\ Cardinality(Guessers(k)) \in Nat /\ Cardinality(Requests) \in Nat
      /\ Cardinality(Guessers(k)) <= Cardinality(Requests)
  BY <1>1, GuessersFinite, FS_Subset, FS_CardinalityType
<1>3. code[k] # None => code[k].attempts \in Nat
  BY DEF Tables, CodeRow
<1>4. MaxAttempts \in Nat /\ MaxAttempts > 0
  BY BoundsAssumption
<1> QED
  BY <1>2, <1>3, <1>4 DEF Guesses
-------------------------------------------------------------------------------
(* Init, and steps that only move a request *)

LEMMA InitIInv == Init => IInv
<1> SUFFICES ASSUME Init PROVE IInv
  OBVIOUS
<1> USE DEF Init
<1>1. Tables
  <2>1. 0 \in 0..MaxCodes /\ 1 \in 1..MaxLogins /\ <<1, 0>> \in Tokens
    BY BoundsAssumption DEF Tokens, Logins
  <2>2. customer \in [Customers -> CustomerRow \cup {None}]
    BY FirstAssumption DEF CustomerRow, AccountStatus
  <2> QED
    BY <2>1, <2>2, FirstAssumption DEF Tables
<1>2. Reqs
  BY IdleCarries DEF Reqs
<1>3. CodeHistory /\ Guesses
  BY DEF CodeHistory, Guesses, Codes
<1>4. Single
  BY IdleQuiet DEF Single, Rotating
<1> QED
  BY <1>1, <1>2, <1>3, <1>4 DEF IInv

\* A request that counts a guess from now on has found a code it can try.
LEMMA Moves ==
  ASSUME IInv, NEW r \in Requests, NEW q \in Request, Carries(q), Becomes(r, q),
         q.at # "rotated", UNCHANGED <<rows, past>>,
         \A k \in Codes : Guessing(q, k) =>
           Guessing(req[r], k) \/ (code[k] # None /\ code[k].attempts < MaxAttempts)
  PROVE  IInv'
<1> USE DEF IInv
<1>1. UNCHANGED <<code, customer, wallet, setting, token, issued, logins, owner, entered,
                  revoked>>
  BY DEF rows, past
<1>2. Tables'
  BY <1>1 DEF Tables
<1>3. Reqs' /\ CodeHistory' /\ Single'
  BY <1>1, ReqsKept, CodesKept, SingleKept
<1>4. Guesses'
  <2> SUFFICES ASSUME NEW k \in Codes, code'[k] # None
               PROVE  code'[k].attempts + Cardinality(Guessers(k)')
                        < MaxAttempts + Cardinality(Requests)
    BY DEF Guesses
  <2> DEFINE after == Guessers(k)'
  <2>1. code'[k] = code[k] /\ code[k].attempts \in Nat
    BY <1>1 DEF Tables, CodeRow
  <2>2. /\ after \subseteq Requests /\ Cardinality(after) \in Nat
        /\ Cardinality(after) <= Cardinality(Requests)
        /\ Cardinality(Guessers(k)) \in Nat /\ Cardinality(Requests) \in Nat
    BY GuessersFinite, RequestsAssumption, FS_Subset, FS_CardinalityType DEF Guessers
  <2>3. MaxAttempts \in Nat
    BY BoundsAssumption
  <2>4. CASE code[k].attempts < MaxAttempts
    BY <2>1, <2>2, <2>3, <2>4
  <2>5. CASE ~(code[k].attempts < MaxAttempts)
    <3>1. after \subseteq Guessers(k)
      BY <2>5 DEF Guessers, Becomes, Reqs
    <3>2. Cardinality(after) <= Cardinality(Guessers(k))
      BY <3>1, GuessersFinite, FS_Subset
    <3> QED
      BY <2>1, <2>2, <2>3, <3>2, <1>1 DEF Guesses
  <2> QED
    BY <2>4, <2>5
<1> QED
  BY <1>2, <1>3, <1>4

\* A request that neither guesses nor has consumed a token afterwards.
LEMMA MovesQuietly ==
  ASSUME IInv, NEW r \in Requests, NEW q \in Request, Carries(q), Becomes(r, q),
         q.at \notin {"rotated", "guess", "guessBoth"}, UNCHANGED <<rows, past>>
  PROVE  IInv'
<1>1. \A k \in Codes : ~Guessing(q, k)
  BY DEF Guessing
<1> QED
  BY <1>1, Moves

LEMMA LostStep ==
  ASSUME IInv, NEW r \in Requests, Lost(r)
  PROVE  IInv'
BY MovesQuietly, IdleCarries, IdleQuiet DEF Lost

LEMMA SendStep ==
  ASSUME IInv, NEW r \in Requests, NEW p \in Phones, SendOtp(r, p)
  PROVE  IInv'
<1> DEFINE q == Entering("clear", p, 0, None)
<1>1. q \in Request /\ Carries(q) /\ q.at = "clear"
  BY DEF Entering, Request, Carries
<1> QED
  BY <1>1, MovesQuietly DEF SendOtp, Starts

LEMMA VerifyStep ==
  ASSUME IInv, NEW r \in Requests, NEW p \in Phones, VerifyOtp(r, p)
  PROVE  IInv'
<1>1. PICK k \in Codes : /\ Newest(p, k) /\ Usable(k)
                         /\ \E right \in BOOLEAN :
                              Starts(r, Entering(IF right THEN "use" ELSE "guess", p, k, None))
                         /\ UNCHANGED <<rows, past>>
  BY DEF VerifyOtp
<1>2. PICK a \in {"use", "guess"} : Becomes(r, Entering(a, p, k, None))
  BY <1>1 DEF Starts
<1> DEFINE q == Entering(a, p, k, None)
<1>3. q \in Request /\ Carries(q) /\ q.at # "rotated"
  BY DEF Entering, Request, Carries
<1>4. \A j \in Codes : Guessing(q, j) => code[j] # None /\ code[j].attempts < MaxAttempts
  BY <1>1 DEF Guessing, Entering, Newest, RowsOf, Usable
<1> QED
  BY <1>1, <1>2, <1>3, <1>4, Moves

LEMMA FindStep ==
  ASSUME IInv, NEW r \in Requests, FindCustomer(r)
  PROVE  IInv'
<1> DEFINE p == req[r].phone
<1>1. p \in Phones /\ UNCHANGED <<rows, past>>
  BY DEF FindCustomer, IInv, Reqs, Carries
<1>2. CASE Becomes(r, Entering("create", p, 0, None))
  <2> DEFINE q == Entering("create", p, 0, None)
  <2>1. q \in Request /\ Carries(q) /\ q.at = "create"
    BY <1>1 DEF Entering, Request, Carries
  <2> QED
    BY <1>1, <1>2, <2>1, MovesQuietly
<1>3. CASE \E c \in Customers : Becomes(r, Entering("token", p, 0, c))
  <2>1. PICK c \in Customers : Becomes(r, Entering("token", p, 0, c))
    BY <1>3
  <2> DEFINE q == Entering("token", p, 0, c)
  <2>2. q \in Request /\ Carries(q) /\ q.at = "token"
    BY <1>1 DEF Entering, Request, Carries
  <2> QED
    BY <1>1, <2>1, <2>2, MovesQuietly
<1> QED
  BY <1>2, <1>3 DEF FindCustomer

LEMMA RefreshStep ==
  ASSUME IInv, NEW r \in Requests, NEW t \in Tokens, Refresh(r, t)
  PROVE  IInv'
<1> DEFINE q == Holding("rotate", t)
<1>1. q \in Request /\ Carries(q) /\ q.at = "rotate"
  BY DEF Holding, Request, Carries, Refresh
<1> QED
  BY <1>1, MovesQuietly DEF Refresh, Starts

LEMMA ChangingStep ==
  ASSUME IInv, NEW r \in Requests, NEW c \in Customers, NEW new \in Phones,
         NEW at \in {"clearBoth", "codes"}, Changing(r, c, new, at)
  PROVE  IInv'
<1> DEFINE q == Moving(at, c, customer[c].phone, new, 0, 0)
<1>1. customer[c].phone \in Phones
  BY DEF Changing, Authenticated, Active, Exists, IInv, Tables, CustomerRow
<1>2. q \in Request /\ Carries(q) /\ q.at \in {"clearBoth", "codes"}
  BY <1>1 DEF Moving, Request, Carries
<1> QED
  BY <1>2, MovesQuietly DEF Changing, Starts

LEMMA ReadCodesStep ==
  ASSUME IInv, NEW r \in Requests, ReadCodes(r)
  PROVE  IInv'
<1> DEFINE p == req[r].phone
           n == req[r].new
           c == req[r].customer
<1>1. p \in Phones /\ n \in Phones /\ c \in Customers /\ UNCHANGED <<rows, past>>
  BY DEF ReadCodes, IInv, Reqs, Carries
<1>2. PICK k, j \in Codes :
         /\ Newest(p, k) /\ Usable(k) /\ Newest(n, j) /\ Usable(j)
         /\ \/ Becomes(r, Moving("change", c, p, n, 0, 0))
            \/ \E old \in {0, k}, new \in {0, j} :
                 Becomes(r, Moving("guessBoth", c, p, n, old, new))
  BY DEF ReadCodes
<1>3. /\ code[k] # None /\ code[k].attempts < MaxAttempts
      /\ code[j] # None /\ code[j].attempts < MaxAttempts
  BY <1>2 DEF Newest, RowsOf, Usable
<1>4. CASE Becomes(r, Moving("change", c, p, n, 0, 0))
  <2> DEFINE q == Moving("change", c, p, n, 0, 0)
  <2>1. q \in Request /\ Carries(q) /\ q.at = "change"
    BY <1>1 DEF Moving, Request, Carries
  <2> QED
    BY <1>1, <1>4, <2>1, MovesQuietly
<1>5. CASE \E old \in {0, k}, new \in {0, j} : Becomes(r, Moving("guessBoth", c, p, n, old, new))
  <2>1. PICK old \in {0, k}, new \in {0, j} : Becomes(r, Moving("guessBoth", c, p, n, old, new))
    BY <1>5
  <2> DEFINE q == Moving("guessBoth", c, p, n, old, new)
  <2>2. q \in Request /\ Carries(q) /\ q.at = "guessBoth"
    BY <1>1 DEF Moving, Request, Carries
  <2>3. \A i \in Codes : Guessing(q, i) => code[i] # None /\ code[i].attempts < MaxAttempts
    BY <1>3 DEF Guessing, Moving, Codes
  <2> QED
    BY <1>1, <2>1, <2>2, <2>3, Moves
<1> QED
  BY <1>2, <1>4, <1>5
-------------------------------------------------------------------------------
(* Steps that rewrite codes, customers, wallets and settings *)

\* Rows of codes go or stay as they are tried; the other tables keep their types.
Rewrites ==
  /\ code' \in [Codes -> CodeRow \cup {None}]
  /\ \A k \in Codes : code'[k] # None =>
       code[k] # None /\ code'[k].attempts = code[k].attempts
  /\ customer' \in [Customers -> CustomerRow \cup {None}]
  /\ wallet' \subseteq Customers /\ setting' \subseteq Customers
  /\ UNCHANGED <<issued, entered, owner, logins>>

LEMMA Rewritten ==
  ASSUME IInv, Rewrites, UNCHANGED <<token, revoked>>,
         NEW r \in Requests, NEW q \in Request, Carries(q), Becomes(r, q),
         q.at \notin {"rotated", "guess", "guessBoth"}
  PROVE  IInv'
<1> USE DEF IInv, Rewrites
<1>1. Tables'
  BY DEF Tables
<1>2. Reqs' /\ CodeHistory' /\ Single'
  BY ReqsKept, CodesKept, SingleKept
<1>3. Guesses'
  <2>1. \A k \in Codes : ~Guessing(q, k)
    BY DEF Guessing
  <2> QED
    BY <2>1, GuessesKept
<1> QED
  BY <1>1, <1>2, <1>3

LEMMA RewrittenAside ==
  ASSUME IInv, Rewrites, UNCHANGED <<token, revoked, req>>
  PROVE  IInv'
<1> USE DEF IInv, Rewrites
<1>1. Tables'
  BY DEF Tables
<1>2. Reqs' /\ CodeHistory'
  BY CodesKept DEF Reqs
<1>3. Single'
  BY DEF Single, Rotating, OfLogin
<1>4. Guesses'
  BY DEF Guesses, Guessers
<1> QED
  BY <1>1, <1>2, <1>3, <1>4

\* deleteMany of the codes of some phones.
LEMMA WithoutRewrites ==
  ASSUME Tables, NEW phones, code' = Without(phones)
  PROVE  /\ code' \in [Codes -> CodeRow \cup {None}]
         /\ \A k \in Codes : code'[k] # None => code[k] # None /\ code'[k] = code[k]
BY DEF Without, Tables

LEMMA ClearStep ==
  ASSUME IInv, NEW r \in Requests, ClearCodes(r) \/ ClearBoth(r)
  PROVE  IInv'
<1> USE DEF IInv
<1>1. PICK next \in {"add", "addBoth"} :
        /\ Becomes(r, [req[r] EXCEPT !.at = next])
        /\ req[r].at = (IF next = "add" THEN "clear" ELSE "clearBoth")
  BY GoesBecomes DEF ClearCodes, ClearBoth
<1> DEFINE q == [req[r] EXCEPT !.at = next]
<1>2. q \in Request /\ Carries(q) /\ q.at = next
  BY <1>1 DEF Reqs, Request, Carries
<1>3. Rewrites /\ UNCHANGED <<token, revoked>>
  BY WithoutRewrites DEF ClearCodes, ClearBoth, Rewrites, past, Tables
<1> QED
  BY <1>1, <1>2, <1>3, Rewritten

LEMMA ExpireStep ==
  ASSUME IInv, NEW k \in Codes, Expire(k)
  PROVE  IInv'
<1>1. code'[k] = [code[k] EXCEPT !.expired = TRUE] /\ code[k] \in CodeRow
  BY DEF Expire, IInv, Tables
<1>2. code'[k] \in CodeRow /\ code'[k].attempts = code[k].attempts
  BY <1>1 DEF CodeRow
<1>3. Rewrites
  BY <1>1, <1>2 DEF Expire, Rewrites, IInv, Tables, past
<1> QED
  BY <1>3, RewrittenAside DEF Expire, past

LEMMA VerifyExpiredStep ==
  ASSUME IInv, NEW p \in Phones, VerifyExpired(p)
  PROVE  IInv'
<1>1. Rewrites
  BY DEF VerifyExpired, Rewrites, IInv, Tables, past
<1> QED
  BY <1>1, RewrittenAside DEF VerifyExpired, past

LEMMA CreateStep ==
  ASSUME IInv, NEW r \in Requests, NEW c \in Customers, CreateCustomer(r, c)
  PROVE  IInv'
<1> DEFINE p == req[r].phone
           q == Entering("wallet", p, 0, c)
<1>1. p \in Phones
  BY DEF CreateCustomer, IInv, Reqs, Carries
<1>2. q \in Request /\ Carries(q) /\ q.at = "wallet"
  BY <1>1 DEF Entering, Request, Carries
<1>3. Rewrites
  BY <1>1 DEF CreateCustomer, Rewrites, IInv, Tables, past, CustomerRow, AccountStatus
<1> QED
  BY <1>2, <1>3, Rewritten DEF CreateCustomer, past

LEMMA WalletStep ==
  ASSUME IInv, NEW r \in Requests, CreateWallet(r) \/ CreateSetting(r)
  PROVE  IInv'
<1> USE DEF IInv
<1>1. PICK next \in {"setting", "token"} :
        /\ Becomes(r, [req[r] EXCEPT !.at = next])
        /\ req[r].at = (IF next = "setting" THEN "wallet" ELSE "setting")
  BY GoesBecomes DEF CreateWallet, CreateSetting
<1> DEFINE q == [req[r] EXCEPT !.at = next]
<1>2. q \in Request /\ Carries(q) /\ q.at = next /\ req[r].customer \in Customers
  BY <1>1 DEF Reqs, Request, Carries
<1>3. Rewrites /\ UNCHANGED <<token, revoked>>
  BY <1>2 DEF CreateWallet, CreateSetting, InsertsSetting, Rewrites, past, Tables
<1> QED
  BY <1>1, <1>2, <1>3, Rewritten

LEMMA GetSettingsStep ==
  ASSUME IInv, NEW r \in Requests, NEW c \in Customers, GetSettings(r, c)
  PROVE  IInv'
<1> DEFINE q == Entering("addSetting", None, 0, c)
<1>1. q \in Request /\ Carries(q) /\ q.at = "addSetting"
  BY DEF Entering, Request, Carries
<1> QED
  BY <1>1, MovesQuietly DEF GetSettings, Starts

LEMMA AddSettingStep ==
  ASSUME IInv, NEW r \in Requests, AddSetting(r)
  PROVE  IInv'
<1>1. req[r].at = "addSetting" /\ Becomes(r, Idle)
  BY EndsBecomes DEF AddSetting
<1>2. req[r].customer \in Customers
  BY <1>1 DEF IInv, Reqs, Carries
<1>3. Rewrites /\ UNCHANGED <<token, revoked>>
  BY <1>2 DEF AddSetting, InsertsSetting, Rewrites, IInv, past, Tables
<1> QED
  BY <1>1, <1>3, Rewritten, IdleCarries, IdleQuiet

LEMMA UpdateSettingsStep ==
  ASSUME IInv, NEW c \in Customers, UpdateSettings(c)
  PROVE  IInv'
<1>1. Rewrites
  BY DEF UpdateSettings, Rewrites, IInv, Tables, past
<1> QED
  BY <1>1, RewrittenAside DEF UpdateSettings, past

\* A status is written over an existing customer's.
LEMMA SetRewrites ==
  ASSUME Tables, NEW c \in Customers, Exists(c), NEW s \in AccountStatus, SetAccount(c, s),
         UNCHANGED <<code, wallet, setting, issued, entered, owner, logins>>
  PROVE  Rewrites
<1>1. customer[c] \in CustomerRow
  BY DEF Exists, Tables
<1>2. [customer[c] EXCEPT !.status = s] \in CustomerRow
  BY <1>1 DEF CustomerRow
<1> QED
  BY <1>2 DEF SetAccount, Rewrites, Tables

LEMMA CloseStep ==
  ASSUME IInv, NEW r \in Requests, NEW c \in Customers,
         NEW s \in {"suspended", "deactivated"}, Close(r, c, s)
  PROVE  IInv'
<1> DEFINE q == Entering("drop", None, 0, c)
<1>1. q \in Request /\ Carries(q) /\ q.at = "drop"
  BY DEF Entering, Request, Carries
<1>2. Exists(c)
  BY DEF Close, Authenticated, Active
<1>3. Rewrites
  BY <1>2, SetRewrites DEF Close, IInv, past, AccountStatus
<1> QED
  BY <1>1, <1>3, Rewritten DEF Close, Starts, past

LEMMA ReopenStep ==
  ASSUME IInv, NEW c \in Customers, Reopen(c)
  PROVE  IInv'
<1>1. Rewrites
  BY SetRewrites DEF Reopen, IInv, past, AccountStatus
<1> QED
  BY <1>1, RewrittenAside DEF Reopen, past

LEMMA ChangeStep ==
  ASSUME IInv, NEW r \in Requests, Change(r)
  PROVE  IInv'
<1> USE DEF IInv
<1> DEFINE c == req[r].customer
<1>1. c \in Customers /\ req[r].new \in Phones /\ Becomes(r, Idle)
  BY EndsBecomes DEF Change, Reqs, Carries, Ends
<1>2. customer[c] \in CustomerRow
  BY <1>1 DEF Change, Exists, Tables
<1>3. [customer[c] EXCEPT !.phone = req[r].new] \in CustomerRow
  BY <1>1, <1>2 DEF CustomerRow
<1>4. Rewrites
  BY <1>1, <1>3, WithoutRewrites DEF Change, Rewrites, Tables, past
<1> QED
  BY <1>1, <1>4, Rewritten, IdleCarries, IdleQuiet DEF Change, past
-------------------------------------------------------------------------------
(* Steps that create, count and use codes *)

LEMMA AddStep ==
  ASSUME IInv, NEW r \in Requests, AddCode(r) \/ AddBoth(r)
  PROVE  IInv'
<1> USE DEF IInv
<1>1. /\ Becomes(r, Idle) /\ UNCHANGED <<customer, wallet, setting, token, logins, owner,
                                         entered, revoked>>
      /\ issued' \in 0..MaxCodes /\ issued' >= issued
      /\ req[r].phone \in Phones
  BY BoundsAssumption DEF AddCode, AddBoth, Ends, Reqs, Carries, Tables
<1>2. \A p \in Phones : Fresh(p) \in CodeRow /\ Fresh(p).attempts = 0
  BY DEF Fresh, CodeRow
<1>3. /\ code' \in [Codes -> CodeRow \cup {None}]
      /\ \A k \in Codes : \/ code'[k] = code[k]
                          \/ /\ k > issued /\ k <= issued' /\ code'[k].attempts = 0
  <2>1. CASE AddCode(r)
    BY <2>1, <1>1, <1>2 DEF AddCode, Tables, Codes
  <2>2. CASE AddBoth(r)
    <3>1. req[r].new \in Phones
      BY <2>2 DEF AddBoth, Ends, Reqs, Carries
    <3> QED
      BY <2>2, <3>1, <1>1, <1>2 DEF AddBoth, Tables, Codes
  <2> QED
    BY <2>1, <2>2
<1>4. Tables'
  BY <1>1, <1>3 DEF Tables
<1>5. CodeHistory'
  BY <1>1, <1>3 DEF CodeHistory, Tables, Codes
<1>6. Reqs' /\ Single'
  BY <1>1, ReqsKept, SingleKept, IdleCarries, IdleQuiet
<1>7. Guesses'
  <2>1. \A k \in Codes : ~Guessing(Idle, k)
    BY IdleQuiet DEF Guessing
  <2>2. \A k \in Codes : code'[k] # None =>
          \/ code'[k].attempts = 0
          \/ code[k] # None /\ code'[k].attempts = code[k].attempts
    BY <1>3
  <2> QED
    BY <1>1, <2>1, <2>2, GuessesKept, IdleCarries
<1> QED
  BY <1>4, <1>5, <1>6, <1>7

\* A guess that is counted was under way: what it adds it had taken.
LEMMA CountStep ==
  ASSUME IInv, NEW r \in Requests, CountGuess(r) \/ CountBoth(r)
  PROVE  IInv'
<1> USE DEF IInv
<1>1. PICK keys \in SUBSET Codes :
         /\ code' = Counted(keys)
         /\ \A k \in keys : code[k] # None /\ Guessing(req[r], k)
  <2>1. CASE CountGuess(r)
    <3> DEFINE keys == {req[r].code}
    <3>1. keys \subseteq Codes /\ \A k \in keys : code[k] # None /\ Guessing(req[r], k)
      BY <2>1 DEF CountGuess, Ends, Reqs, Carries, Guessing
    <3> QED
      BY <2>1, <3>1 DEF CountGuess
  <2>2. CASE CountBoth(r)
    <3> DEFINE wrong == {req[r].code, req[r].newCode} \ {0}
               keys == {k \in wrong : code[k] # None}
    <3>1. wrong \subseteq Codes
      BY DEF Reqs, Request
    <3>2. \A k \in keys : code[k] # None /\ Guessing(req[r], k)
      BY <2>2 DEF CountBoth, Ends, Guessing
    <3> QED
      BY <2>2, <3>1, <3>2 DEF CountBoth
  <2> QED
    BY <2>1, <2>2
<1>2. /\ Becomes(r, Idle) /\ UNCHANGED <<customer, wallet, setting, token, issued, logins,
                                         owner, entered, revoked>>
  BY DEF CountGuess, CountBoth, Ends, past
<1>3. \A k \in Codes :
        /\ k \notin keys => code'[k] = code[k]
        /\ k \in keys => /\ code[k] \in CodeRow /\ code'[k] \in CodeRow
                        /\ code'[k].attempts = code[k].attempts + 1
  BY <1>1 DEF Counted, Tables, CodeRow
<1>4. code' \in [Codes -> CodeRow \cup {None}]
  <2>1. code' = [k \in Codes |-> code'[k]]
    BY <1>1 DEF Counted
  <2> QED
    BY <2>1, <1>3 DEF Tables
<1>5. Tables'
  BY <1>2, <1>4 DEF Tables
<1>6. CodeHistory' /\ Reqs' /\ Single'
  <2>1. \A k \in Codes : code'[k] # None => code[k] # None
    BY <1>1, <1>3
  <2> QED
    BY <2>1, <1>2, CodesKept, ReqsKept, SingleKept, IdleCarries, IdleQuiet
<1>7. Guesses'
  <2> SUFFICES ASSUME NEW k \in Codes, code'[k] # None
               PROVE  code'[k].attempts + Cardinality(Guessers(k)')
                        < MaxAttempts + Cardinality(Requests)
    BY DEF Guesses
  <2> DEFINE after == Guessers(k)'
  <2>1. after \subseteq Guessers(k) \ {r}
    BY <1>2, IdleQuiet DEF Guessers, Becomes, Reqs, Guessing
  <2>2. /\ IsFiniteSet(Guessers(k)) /\ Cardinality(Guessers(k)) \in Nat
        /\ Cardinality(Requests) \in Nat
    BY GuessersFinite
  <2>3. MaxAttempts \in Nat
    BY BoundsAssumption
  <2>4. CASE k \in keys
    <3>1. r \in Guessers(k)
      BY <1>1, <2>4 DEF Guessers
    <3>2. /\ IsFiniteSet(Guessers(k) \ {r})
          /\ Cardinality(Guessers(k) \ {r}) = Cardinality(Guessers(k)) - 1
      BY <2>2, <3>1, FS_RemoveElement
    <3>3. Cardinality(after) \in Nat /\ Cardinality(after) <= Cardinality(Guessers(k)) - 1
      BY <2>1, <3>2, FS_Subset, FS_CardinalityType
    <3>4. code[k].attempts \in Nat /\ code[k] # None
      BY <1>1, <1>3, <2>4 DEF CodeRow
    <3> QED
      BY <1>3, <2>2, <2>3, <2>4, <3>3, <3>4 DEF Guesses
  <2>5. CASE k \notin keys
    <3>1. after \subseteq Guessers(k)
      BY <2>1
    <3>2. Cardinality(after) \in Nat /\ Cardinality(after) <= Cardinality(Guessers(k))
      BY <2>2, <3>1, FS_Subset, FS_CardinalityType
    <3>3. code'[k] = code[k] /\ code[k].attempts \in Nat
      BY <1>3, <2>5 DEF Tables, CodeRow
    <3> QED
      BY <2>2, <2>3, <3>2, <3>3 DEF Guesses
  <2> QED
    BY <2>4, <2>5
<1> QED
  BY <1>5, <1>6, <1>7

LEMMA UseStep ==
  ASSUME IInv, NEW r \in Requests, UseCode(r)
  PROVE  IInv'
<1> USE DEF IInv
<1> DEFINE k == req[r].code
           q == [req[r] EXCEPT !.at = "find"]
<1>1. req[r].at = "use" /\ Becomes(r, q)
  BY GoesBecomes DEF UseCode
<1>2. q \in Request /\ Carries(q) /\ q.at = "find" /\ k \in Codes
  BY <1>1 DEF Reqs, Request, Carries
<1>3. /\ code[k] # None /\ entered[k] = 0 /\ k <= issued
  BY <1>2 DEF UseCode, Present, CodeHistory
<1>4. /\ code' = [code EXCEPT ![k] = None] /\ entered' = [entered EXCEPT ![k] = 1]
      /\ UNCHANGED <<customer, wallet, setting, token, issued, logins, owner, revoked>>
  BY <1>2, <1>3 DEF UseCode, Tables
<1>5. Tables'
  BY <1>2, <1>4 DEF Tables
<1>6. CodeHistory'
  BY <1>2, <1>3, <1>4 DEF CodeHistory, Tables, Codes
<1>7. Reqs' /\ Single'
  BY <1>1, <1>2, <1>4, ReqsKept, SingleKept
<1>8. Guesses'
  <2>1. \A j \in Codes : ~Guessing(q, j)
    BY <1>2 DEF Guessing
  <2>2. \A j \in Codes : code'[j] # None => code[j] # None /\ code'[j] = code[j]
    BY <1>2, <1>4 DEF Tables
  <2> QED
    BY <1>1, <1>2, <2>1, <2>2, GuessesKept
<1> QED
  BY <1>5, <1>6, <1>7, <1>8
-------------------------------------------------------------------------------
(* Steps that store, exchange and drop tokens *)

\* The parts that do not look at tokens.
LEMMA OthersKept ==
  ASSUME IInv, NEW r \in Requests, NEW q \in Request, Carries(q), Becomes(r, q),
         q.at \notin {"guess", "guessBoth"},
         UNCHANGED <<code, issued, entered>>
  PROVE  Reqs' /\ CodeHistory' /\ Guesses'
<1> USE DEF IInv
<1>1. Reqs' /\ CodeHistory'
  BY ReqsKept, CodesKept
<1>2. \A k \in Codes : ~Guessing(q, k)
  BY DEF Guessing
<1>3. Guesses'
  BY <1>2, GuessesKept
<1> QED
  BY <1>1, <1>3

LEMMA StoreStep ==
  ASSUME IInv, NEW r \in Requests, StoreToken(r)
  PROVE  IInv'
<1> USE DEF IInv
<1>1. req[r].at = "token" /\ Becomes(r, Idle) /\ req[r].customer \in Customers
  BY EndsBecomes DEF StoreToken, Reqs, Carries
<1> DEFINE new == <<logins + 1, 0>>
<1>2. logins + 1 \in Logins /\ new \in Tokens /\ new[1] = logins + 1
  BY BoundsAssumption DEF StoreToken, Tables, Tokens, Logins
<1>3. Tables'
  BY <1>1, <1>2 DEF StoreToken, Tables, Logins
<1>4. Reqs' /\ CodeHistory' /\ Guesses'
  BY <1>1, OthersKept, IdleCarries, IdleQuiet DEF StoreToken
<1>5. Single'
  <2>1. token' = token \cup {new} /\ logins' = logins + 1 /\ revoked' = revoked
    BY DEF StoreToken
  <2>2. \A o \in Requests : Rotating(o)' => Rotating(o) /\ OfLogin(o)' = OfLogin(o)
    BY <1>1, IdleQuiet DEF Becomes, Reqs, Rotating, OfLogin
  <2>3. logins \in Nat /\ \A l \in revoked : l \in Nat
    BY DEF Tables, Logins
  <2>4. /\ \A t \in token : t[1] \in Nat
        /\ \A o \in Requests : Rotating(o) => OfLogin(o) \in Nat
    BY DEF Tables, Tokens, Logins, Rotating, OfLogin, Reqs, Carries
  <2>5. new[1] \notin revoked /\ \A t \in token : t[1] # new[1]
    BY <2>3, <2>4 DEF Single
  <2>6. \A o \in Requests : Rotating(o) => OfLogin(o) # new[1]
    BY <2>3, <2>4 DEF Single
  <2> QED
    BY <2>1, <2>2, <2>3, <2>4, <2>5, <2>6 DEF Single
<1> QED
  BY <1>3, <1>4, <1>5

LEMMA RotateStep ==
  ASSUME IInv, NEW r \in Requests, Rotate(r)
  PROVE  IInv'
<1> USE DEF IInv
<1> DEFINE t == req[r].token
           q == [req[r] EXCEPT !.at = "rotated"]
<1>1. req[r].at = "rotate" /\ Becomes(r, q) /\ t \in token /\ token' = token \ {t}
      /\ UNCHANGED <<code, customer, wallet, setting, issued, logins, owner, entered, revoked>>
  BY GoesBecomes DEF Rotate, Consumed, past
<1>2. q \in Request /\ Carries(q) /\ q.at = "rotated" /\ q.token = t
  BY <1>1 DEF Reqs, Request, Carries
<1>3. Tables'
  BY <1>1 DEF Tables
<1>4. Reqs' /\ CodeHistory' /\ Guesses'
  BY <1>1, <1>2, OthersKept
<1>5. Single'
  <2>1. \A o \in Requests : req'[o] = IF o = r THEN q ELSE req[o]
    BY <1>1 DEF Becomes, Reqs
  <2>2. \A o \in Requests : /\ o # r /\ Rotating(o)' => Rotating(o) /\ OfLogin(o)' = OfLogin(o)
                            /\ OfLogin(r)' = t[1]
    BY <1>2, <2>1 DEF Rotating, OfLogin
  <2> QED
    BY <1>1, <2>2 DEF Single
<1> QED
  BY <1>3, <1>4, <1>5

LEMMA StoreRotatedStep ==
  ASSUME IInv, NEW r \in Requests, StoreRotated(r)
  PROVE  IInv'
<1> USE DEF IInv
<1> DEFINE t == req[r].token
           new == <<t[1], t[2] + 1>>
<1>1. /\ Rotating(r) /\ Becomes(r, Idle) /\ token' = token \cup {new}
      /\ UNCHANGED <<code, customer, wallet, setting, issued, logins, owner, entered, revoked>>
  BY EndsBecomes DEF StoreRotated, Rotating, past
<1>2. t \in Tokens /\ t[2] < MaxExchanges
  BY <1>1 DEF Rotating, Reqs, Carries
<1>3. new \in Tokens /\ new[1] = OfLogin(r)
  BY <1>2, BoundsAssumption DEF Tokens, OfLogin
<1>4. Tables'
  BY <1>1, <1>3 DEF Tables
<1>5. Reqs' /\ CodeHistory' /\ Guesses'
  BY <1>1, OthersKept, IdleCarries, IdleQuiet
<1>6. Single'
  <2>1. \A o \in Requests : Rotating(o)' => o # r /\ Rotating(o) /\ OfLogin(o)' = OfLogin(o)
    BY <1>1, IdleQuiet DEF Becomes, Reqs, Rotating, OfLogin
  <2> QED
    BY <1>1, <1>3, <2>1 DEF Single
<1> QED
  BY <1>4, <1>5, <1>6

LEMMA DropStep ==
  ASSUME IInv, NEW r \in Requests, DropTokens(r)
  PROVE  IInv'
<1> USE DEF IInv
<1> DEFINE T == TokensOf(req[r].customer)
<1>1. /\ Becomes(r, Idle) /\ T \in SUBSET token /\ Dropped(T)
      /\ UNCHANGED <<code, customer, wallet, setting, issued, logins, owner, entered>>
  BY EndsBecomes DEF DropTokens, TokensOf
<1>2. \A o \in Requests : req'[o].at = "rotated" => req[o].at = "rotated" /\ req'[o] = req[o]
  BY <1>1, IdleQuiet DEF Becomes, Reqs
<1>3. Single' /\ token' \subseteq Tokens /\ revoked' \subseteq Logins
  BY <1>1, <1>2, SingleDropped
<1>4. Tables'
  BY <1>1, <1>3 DEF Tables
<1>5. Reqs' /\ CodeHistory' /\ Guesses'
  BY <1>1, OthersKept, IdleCarries, IdleQuiet
<1> QED
  BY <1>3, <1>4, <1>5

\* A sign-out or a deletion, with some of the customer's tokens.
LEMMA LeaveStep ==
  ASSUME IInv, NEW c \in Customers, Logout(c) \/ DeleteAccount(c)
  PROVE  IInv'
<1> USE DEF IInv
<1>1. PICK T \in SUBSET token : Dropped(T)
  <2>1. CASE DeleteAccount(c)
    BY <2>1 DEF DeleteAccount, TokensOf
  <2>2. CASE Logout(c) /\ Dropped(TokensOf(c))
    BY <2>2 DEF TokensOf
  <2>3. CASE \E t \in TokensOf(c) : Dropped({t})
    <3>1. PICK t \in TokensOf(c) : Dropped({t})
      BY <2>3
    <3>2. {t} \in SUBSET token
      BY DEF TokensOf
    <3> QED
      BY <3>1, <3>2
  <2> QED
    BY <2>1, <2>2, <2>3 DEF Logout
<1>2. UNCHANGED <<code, req, issued, logins, owner, entered>>
  BY DEF Logout, DeleteAccount
<1>3. Single' /\ token' \subseteq Tokens /\ revoked' \subseteq Logins
  BY <1>1, <1>2, SingleDropped
<1>4. /\ customer' \in [Customers -> CustomerRow \cup {None}]
      /\ wallet' \subseteq Customers /\ setting' \subseteq Customers
  BY DEF Logout, DeleteAccount, Tables
<1>5. Tables' /\ Reqs' /\ CodeHistory' /\ Guesses'
  BY <1>2, <1>3, <1>4 DEF Tables, Reqs, CodeHistory, Guesses, Guessers
<1> QED
  BY <1>3, <1>5
-------------------------------------------------------------------------------
LEMMA NextIInv == IInv /\ [Next]_vars => IInv'
<1> SUFFICES ASSUME IInv, [Next]_vars PROVE IInv'
  OBVIOUS
<1>1. ASSUME NEW r \in Requests,
             \/ Lost(r)
             \/ \E p \in Phones : SendOtp(r, p) \/ VerifyOtp(r, p)
             \/ FindCustomer(r) \/ ReadCodes(r)
             \/ \E t \in Tokens : Refresh(r, t)
             \/ \E c \in Customers, p \in Phones : RequestChange(r, c, p) \/ VerifyChange(r, c, p)
             \/ \E c \in Customers : GetSettings(r, c)
      PROVE  IInv'
  BY <1>1, LostStep, SendStep, VerifyStep, FindStep, ReadCodesStep, RefreshStep, ChangingStep,
     GetSettingsStep
     DEF RequestChange, VerifyChange
<1>2. ASSUME NEW r \in Requests,
             \/ ClearCodes(r) \/ ClearBoth(r) \/ CreateWallet(r) \/ CreateSetting(r)
             \/ AddSetting(r)
             \/ \E c \in Customers : CreateCustomer(r, c)
             \/ \E c \in Customers, s \in {"suspended", "deactivated"} : Close(r, c, s)
             \/ Change(r)
      PROVE  IInv'
  BY <1>2, ClearStep, WalletStep, AddSettingStep, CreateStep, CloseStep, ChangeStep
<1>3. ASSUME NEW r \in Requests,
             \/ AddCode(r) \/ AddBoth(r) \/ CountGuess(r) \/ CountBoth(r) \/ UseCode(r)
             \/ StoreToken(r) \/ Rotate(r) \/ StoreRotated(r) \/ DropTokens(r)
      PROVE  IInv'
  BY <1>3, AddStep, CountStep, UseStep, StoreStep, RotateStep, StoreRotatedStep, DropStep
<1>4. CASE \/ \E p \in Phones : VerifyExpired(p)
           \/ \E k \in Codes : Expire(k)
           \/ \E c \in Customers : Logout(c) \/ Reopen(c) \/ DeleteAccount(c) \/ UpdateSettings(c)
  BY <1>4, VerifyExpiredStep, ExpireStep, LeaveStep, ReopenStep, UpdateSettingsStep
<1>5. CASE UNCHANGED vars
  <2> USE <1>5 DEF vars, rows, past, IInv
  <2>1. Tables' /\ Reqs' /\ CodeHistory'
    BY DEF Tables, Reqs, CodeHistory
  <2>2. Single' /\ Guesses'
    BY DEF Single, Rotating, OfLogin, Guesses, Guessers
  <2> QED
    BY <2>1, <2>2
<1> QED
  BY <1>1, <1>2, <1>3, <1>4, <1>5 DEF Next
-------------------------------------------------------------------------------
\* The inductive invariant of codes, tokens and guesses holds in every reachable state.
THEOREM Invariance == Spec => []IInv
<1> QED
  BY InitIInv, NextIInv, PTL DEF Spec

\* Every variable of Account keeps its type.
THEOREM TypeCorrect == Spec => []TypeOK
<1>1. IInv => TypeOK
  BY DEF IInv, Tables, Reqs, TypeOK
<1> QED
  BY <1>1, Invariance, PTL

\* verifyOtp deletes the code it accepts by its id: a code opens one login.
THEOREM OneLoginPerCode == Spec => []CodeEntersOnce
<1>1. IInv => CodeEntersOnce
  BY DEF IInv, CodeHistory, CodeEntersOnce
<1> QED
  BY <1>1, Invariance, PTL

\* Concurrent verifications overrun OTP_MAX_ATTEMPTS by less than their number.
THEOREM GuessesCounted == Spec => []GuessesBounded
<1>1. ASSUME IInv PROVE GuessesBounded
  <2> SUFFICES ASSUME NEW k \in Codes, code[k] # None
               PROVE  code[k].attempts < MaxAttempts + Cardinality(Requests)
    BY DEF GuessesBounded
  <2>1. Cardinality(Guessers(k)) \in Nat /\ Cardinality(Requests) \in Nat
    BY GuessersFinite
  <2>2. code[k].attempts \in Nat /\ MaxAttempts \in Nat
    BY <1>1, BoundsAssumption DEF IInv, Tables, CodeRow
  <2> QED
    BY <1>1, <2>1, <2>2 DEF IInv, Guesses
<1> QED
  BY <1>1, Invariance, PTL

\* refreshToken consumes what it exchanges: a login holds one token, none once it ended.
THEOREM OneTokenPerLogin == Spec => []LoginHoldsOneToken
<1>1. ASSUME IInv PROVE LoginHoldsOneToken
  <2> SUFFICES ASSUME NEW l \in Logins
               PROVE  Cardinality(Held(l)) <= (IF l \in revoked THEN 0 ELSE 1)
    BY DEF LoginHoldsOneToken
  <2> USE <1>1 DEF IInv
  <2>1. \A t \in token : t[1] = l => l \notin revoked
    BY DEF Single
  <2>2. \A o \in Requests : Rotating(o) /\ OfLogin(o) = l => l \notin revoked
    BY DEF Single
  <2>3. CASE Held(l) = {}
    BY <2>3, FS_EmptySet
  <2>4. CASE \E t \in token : t[1] = l
    <3>1. PICK t \in token : t[1] = l
      BY <2>4
    <3>2. Held(l) = {t}
      BY <3>1 DEF Held, Single, Rotating, OfLogin
    <3>3. Cardinality({t}) = 1
      BY FS_Singleton
    <3> QED
      BY <2>1, <3>1, <3>2, <3>3
  <2>5. CASE ~(\E t \in token : t[1] = l) /\ Held(l) # {}
    <3>1. PICK o \in Requests : Rotating(o) /\ OfLogin(o) = l
      BY <2>5 DEF Held, Rotating, OfLogin
    <3>2. Held(l) = {<<o>>}
      BY <2>5, <3>1 DEF Held, Single, Rotating, OfLogin
    <3>3. Cardinality({<<o>>}) = 1
      BY FS_Singleton
    <3> QED
      BY <2>2, <3>1, <3>2, <3>3
  <2> QED
    BY <2>3, <2>4, <2>5
<1> QED
  BY <1>1, Invariance, PTL
===============================================================================
