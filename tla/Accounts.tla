------------------------------ MODULE Accounts ------------------------------
(***************************************************************************)
(* accounts/: one user's row under sign-ins and signed-in requests, the    *)
(* TOTP devices, sessions and tokens, and the trading accounts the         *)
(* MultiAccountManager reports on.  Every request works on the row it      *)
(* loaded and most save all of it.  The balance in the same row is         *)
(* PaymentLedger's.                                                        *)
(***************************************************************************)
EXTENDS Integers, Sequences, SequencesExt, FiniteSets, FiniteSetsExt

CONSTANTS
    Requests,           \* requests under way at once
    Passwords,          \* what the password can be; other passwords are wrong
    FailLimit,          \* failed logins that lock an account (5)
    LockClock,           \* BOUND: lock durations (30 minutes) that pass
    MaxDevices,         \* BOUND: TOTP devices
    MaxSessions,        \* BOUND: active sessions
    Logins,             \* MT5 accounts that can be registered
    Balances,           \* balances the bridge reports
    ScalingThreshold,   \* scaling_threshold of a primary account
    KeptBalance,        \* min_balance_after_scaling
    DistributionPct,    \* distribution_pct
    NoRow               \* a request that is not under way

ASSUME AccountsAssumption ==
    /\ FailLimit \in Nat \ {0} /\ LockClock \in Nat /\ MaxSessions \in Nat \ {0}
    /\ IsFiniteSet(Logins) /\ Balances \subseteq Int
    /\ ScalingThreshold \in Int /\ KeptBalance \in Int /\ DistributionPct \in Nat

VARIABLES
    acRow,        \* the user's row: password, failed_login_attempts, account_locked_until
                  \* (0 is none), mfa_enabled, whether mfa_secret is set
    acLoaded,     \* of each request: the row as it loaded it
    acAnonymous,  \* the requests that are sign-ins
    acClock,      \* the time, in lock durations
    acDevices,    \* the user's TOTP devices: whether each is confirmed
    acSessions,   \* active UserSession rows
    acRefresh,    \* refresh tokens that are not on the blacklist
    acAccess,     \* whether an access token is still valid
    acAccounts,   \* the user's TradingAccount rows, by login
    acReport      \* what check_and_scale last distributed to each account, 0 when nothing

userVars == <<acRow, acLoaded, acAnonymous, acClock, acDevices, acSessions, acRefresh, acAccess>>
scalingVars == <<acAccounts, acReport>>
acVars == <<userVars, scalingVars>>

UserRows == [password : Passwords, fails : 0 .. FailLimit, lock : 0 .. LockClock + 1,
         mfa : BOOLEAN, secret : BOOLEAN]

ASSUME NoRowAssumption == NoRow \notin UserRows

\* RegisterView creates the row and signs the user in.
AcInit ==
    /\ acRow \in [password : Passwords, fails : {0}, lock : {0}, mfa : {FALSE}, secret : {FALSE}]
    /\ acLoaded = [r \in Requests |-> NoRow] /\ acAnonymous = {} /\ acClock = 0
    /\ acDevices = <<>> /\ acSessions = 0 /\ acRefresh = 1 /\ acAccess = TRUE
    /\ acAccounts = [l \in {} |-> 0] /\ acReport = 0

-----------------------------------------------------------------------------
(* Signing in                                                              *)

IsLocked(row) == row.lock > acClock

\* The sign-in of a locked account ends here.
BeginLogin(r) ==
    /\ acLoaded[r] = NoRow /\ ~IsLocked(acRow)
    /\ acLoaded' = [acLoaded EXCEPT ![r] = acRow]
    /\ acAnonymous' = acAnonymous \union {r}
    /\ UNCHANGED <<acRow, acClock, acDevices, acSessions, acRefresh, acAccess, scalingVars>>

\* Any other request is authenticated by its token and loads the row.
BeginRequest(r) ==
    /\ acLoaded[r] = NoRow /\ acAccess
    /\ acLoaded' = [acLoaded EXCEPT ![r] = acRow]
    /\ UNCHANGED <<acRow, acAnonymous, acClock, acDevices, acSessions, acRefresh, acAccess, scalingVars>>

Ends(r) ==
    /\ acLoaded' = [acLoaded EXCEPT ![r] = NoRow]
    /\ acAnonymous' = acAnonymous \ {r}
    /\ UNCHANGED <<acClock, scalingVars>>

\* Variant: the account is locked at the attempt after the last one.
CountFailureLate(row) ==
    [row EXCEPT !.fails = Min({@ + 1, FailLimit}), !.lock = IF row.fails >= FailLimit THEN acClock + 1 ELSE @]

\* One more failure, and the lock at the limit; what is counted beyond it changes nothing.
CountFailure(row) ==
    [row EXCEPT !.fails = Min({@ + 1, FailLimit}), !.lock = IF row.fails + 1 >= FailLimit THEN acClock + 1 ELSE @]

WrongPassword(r) ==
    /\ r \in acAnonymous
    /\ acRow' = CountFailure(acLoaded[r])
    /\ Ends(r)
    /\ UNCHANGED <<acDevices, acSessions, acRefresh, acAccess>>

\* The position of the first confirmed device, 0 when there is none.
FirstWith(confirmed) == SelectInSeq(acDevices, LAMBDA d : d = confirmed)

\* The code is wrong or missing, or there is no confirmed device to check it with.
RefuseCode(r) ==
    /\ r \in acAnonymous /\ acLoaded[r].mfa
    /\ Ends(r)
    /\ UNCHANGED <<acRow, acDevices, acSessions, acRefresh, acAccess>>

\* The count is cleared, not the time of the lock; session, history and tokens follow.
SignIn(r) ==
    /\ r \in acAnonymous
    /\ acLoaded[r].mfa => FirstWith(TRUE) # 0
    /\ acRow' = [acLoaded[r] EXCEPT !.fails = 0]
    /\ acSessions' = Min({acSessions + 1, MaxSessions}) /\ acRefresh' = Min({acRefresh + 1, MaxSessions})
    /\ acAccess' = TRUE
    /\ Ends(r)
    /\ UNCHANGED acDevices

-----------------------------------------------------------------------------
(* Signed-in requests                                                      *)

SignedIn(r) == acLoaded[r] # NoRow /\ r \notin acAnonymous

\* ProfileView, ProfileUpdateView and MT5ConnectionView save the whole row; the profile's
\* serializer lets mfa_enabled be written.
SaveProfile(r, mfa) ==
    /\ SignedIn(r)
    /\ acRow' = [acLoaded[r] EXCEPT !.mfa = mfa]
    /\ Ends(r)
    /\ UNCHANGED <<acDevices, acSessions, acRefresh, acAccess>>

ChangePassword(r, p) ==
    /\ SignedIn(r)
    /\ acRow' = [acLoaded[r] EXCEPT !.password = p]
    /\ Ends(r)
    /\ UNCHANGED <<acDevices, acSessions, acRefresh, acAccess>>

\* GET of MFASetupView: a device, which the library creates confirmed.
CreateDevice(r) ==
    /\ SignedIn(r) /\ ~acLoaded[r].mfa /\ Len(acDevices) < MaxDevices
    /\ acDevices' = Append(acDevices, TRUE)
    /\ Ends(r)
    /\ UNCHANGED <<acRow, acSessions, acRefresh, acAccess>>

\* POST of MFASetupView looks for a device that is not confirmed yet.
ConfirmDevice(r) ==
    LET d == FirstWith(FALSE) IN
    /\ SignedIn(r)
    /\ IF d = 0 THEN UNCHANGED <<acDevices, acRow>>
       ELSE /\ acDevices' = [acDevices EXCEPT ![d] = TRUE]
            /\ acRow' = [acLoaded[r] EXCEPT !.mfa = TRUE, !.secret = TRUE]
    /\ Ends(r)
    /\ UNCHANGED <<acSessions, acRefresh, acAccess>>

DisableMfa(r) ==
    LET d == FirstWith(TRUE) IN
    /\ SignedIn(r) /\ d # 0
    /\ acDevices' = SubSeq(acDevices, 1, d - 1) \o SubSeq(acDevices, d + 1, Len(acDevices))
    /\ acRow' = [acLoaded[r] EXCEPT !.mfa = FALSE, !.secret = FALSE]
    /\ Ends(r)
    /\ UNCHANGED <<acSessions, acRefresh, acAccess>>

\* MFAEnrollView and MFAVerifyView write their own column only, and no device.
EnrollMfa(r) ==
    /\ SignedIn(r)
    /\ acRow' = [acRow EXCEPT !.secret = TRUE]
    /\ Ends(r)
    /\ UNCHANGED <<acDevices, acSessions, acRefresh, acAccess>>

VerifyMfa(r) ==
    /\ SignedIn(r) /\ acLoaded[r].secret
    /\ acRow' = [acRow EXCEPT !.mfa = TRUE]
    /\ Ends(r)
    /\ UNCHANGED <<acDevices, acSessions, acRefresh, acAccess>>

\* The one refresh token goes on the blacklist and every session is ended; the access
\* token stays valid until it expires.
Logout(r) ==
    /\ SignedIn(r) /\ acRefresh > 0
    /\ acRefresh' = acRefresh - 1 /\ acSessions' = 0
    /\ Ends(r)
    /\ UNCHANGED <<acRow, acDevices, acAccess>>

DeleteSession(r) ==
    /\ SignedIn(r) /\ acSessions > 0
    /\ acSessions' = acSessions - 1
    /\ Ends(r)
    /\ UNCHANGED <<acRow, acDevices, acRefresh, acAccess>>

AccessExpires ==
    /\ acAccess' = FALSE
    /\ UNCHANGED <<acRow, acLoaded, acAnonymous, acClock, acDevices, acSessions, acRefresh, scalingVars>>

RefreshAccess ==
    /\ acRefresh > 0 /\ acAccess' = TRUE
    /\ UNCHANGED <<acRow, acLoaded, acAnonymous, acClock, acDevices, acSessions, acRefresh, scalingVars>>

LockTime ==
    /\ acClock < LockClock /\ acClock' = acClock + 1
    /\ UNCHANGED <<acRow, acLoaded, acAnonymous, acDevices, acSessions, acRefresh, acAccess, scalingVars>>

-----------------------------------------------------------------------------
(* Trading accounts                                                        *)

\* A login is registered once; several accounts may be primary.
CreateAccount(l, type, primary) ==
    /\ l \notin DOMAIN acAccounts
    /\ acAccounts' = [m \in DOMAIN acAccounts \union {l} |->
                        IF m = l THEN [type |-> type, primary |-> primary, balance |-> 0] ELSE acAccounts[m]]
    /\ UNCHANGED <<userVars, acReport>>

Primaries == {l \in DOMAIN acAccounts : acAccounts[l].primary /\ acAccounts[l].type = "ECN"}
Secondaries == {l \in DOMAIN acAccounts : ~acAccounts[l].primary}

NeedsScaling(balance) == balance >= ScalingThreshold
DistributionAmount(balance) ==
    IF NeedsScaling(balance) /\ balance > KeptBalance
    THEN ((balance - KeptBalance) * DistributionPct) \div 100 ELSE 0

\* check_and_scale takes the first primary account, whose balance becomes what the bridge
\* reports of the account it is connected to (0 when it leaves it out), and tells what each secondary account would
\* receive: no row but the primary's and no broker account changes.  A sync that fails
\* leaves the old balance.
CheckAndScale(l, balance) ==
    LET amount == DistributionAmount(balance) IN
    /\ l \in Primaries
    /\ acAccounts' = [acAccounts EXCEPT ![l].balance = balance]
    /\ acReport' = IF Secondaries = {} THEN 0 ELSE amount \div Cardinality(Secondaries)
    /\ UNCHANGED userVars

-----------------------------------------------------------------------------

UserNext ==
    \/ \E r \in Requests :
         \/ BeginLogin(r) \/ BeginRequest(r)
         \/ WrongPassword(r) \/ RefuseCode(r) \/ SignIn(r)
         \/ \E mfa \in BOOLEAN : SaveProfile(r, mfa)
         \/ \E p \in Passwords : ChangePassword(r, p)
         \/ CreateDevice(r) \/ ConfirmDevice(r) \/ DisableMfa(r) \/ EnrollMfa(r) \/ VerifyMfa(r)
         \/ Logout(r) \/ DeleteSession(r)
    \/ AccessExpires \/ RefreshAccess \/ LockTime

ScalingNext ==
    \/ \E l \in Logins, type \in {"ECN", "STANDARD"}, primary \in BOOLEAN : CreateAccount(l, type, primary)
    \/ \E l \in DOMAIN acAccounts :
         \E b \in Balances \union {0, acAccounts[l].balance} : CheckAndScale(l, b)

AcNext == UserNext \/ ScalingNext

AcSpec == AcInit /\ [][AcNext]_acVars

-----------------------------------------------------------------------------

\* Types; every device is confirmed from its creation, so confirming one never succeeds.
AcTypeOK ==
    /\ acRow \in UserRows
    /\ acLoaded \in [Requests -> UserRows \union {NoRow}]
    /\ acAnonymous \subseteq {r \in Requests : acLoaded[r] # NoRow}
    /\ acClock \in 0 .. LockClock
    /\ \A d \in DOMAIN acDevices : acDevices[d] = TRUE
    /\ acSessions \in 0 .. MaxSessions /\ acRefresh \in 0 .. MaxSessions /\ acAccess \in BOOLEAN
    /\ acReport \in Nat

\* Whatever stale rows are saved over it, a row with the full count of failures has been
\* locked: failures may be forgotten, but a count at the limit never stands without its lock
\* (accounts/serializers.py:73-106, accounts/models.py:76-83).
FullCountIsLocked == acRow.fails >= FailLimit => acRow.lock # 0
=============================================================================
