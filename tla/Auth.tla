-------------------------------- MODULE Auth --------------------------------
(***************************************************************************)
(* The gateway's authentication: one fintech's row, its refresh tokens,    *)
(* the codes it is mailed, and the handlers of the auth controller, one    *)
(* action per step between two awaits.  The requests themselves are in     *)
(* flight in `calls'; who sends them, and what is done with an answer, is  *)
(* the browser's business (Portal).                                        *)
(***************************************************************************)
EXTENDS Naturals, Sequences

CONSTANTS Queries,      \* the dashboard's requests that need a signed-in user
          Passwords,
          Null,
          MaxFaults     \* failed database calls, lost answers, page reloads

Forms == {"login", "signup", "verify", "resend", "forgot", "recode", "reset"}
Calls == Queries \cup Forms \cup {"refresh", "logout"}

ASSUME QueriesAssumption == Queries \cap (Forms \cup {"refresh", "logout"}) = {}
ASSUME NullAssumption == Null \notin Nat

VARIABLES
    user,    \* the row: exists, password, verified, the stored code, its expiry, the key
    tokens,  \* the refresh_tokens table, in order of creation
    fresh,   \* the oldest access token that has not expired (tokens come in pairs)
    codes,   \* how many codes were generated so far
    mails,   \* codes in the jobs of the emails queue
    inbox,   \* codes the person has received
    calls,   \* one request of each kind, from its sending to the use of its answer
    faults

authVars == <<user, tokens, fresh, codes, mails, inbox, calls, faults>>

(* A request as it is sent; the calls in flight are the domain of `calls'.   *)
(* `retried', `orphan' and `queued' are the browser's; `late' is history: a  *)
(* password reset revoked the sessions while the call was opening one.       *)
NewCall == [at |-> "arrive", retried |-> FALSE, orphan |-> FALSE, late |-> FALSE,
            cookie |-> 0, access |-> 0, pw |-> Null, code |-> 0,
            status |-> "none", set |-> Null, grant |-> 0]

InFlight == DOMAIN calls
At(c, at) == c \in InFlight /\ calls[c].at = at
Without(cs) == [c \in InFlight \ cs |-> calls[c]]
Go(c, at) == calls' = [calls EXCEPT ![c].at = at]
Answer(c, status) ==
    calls' = [calls EXCEPT ![c].at = "done", ![c].status = status]

NoUser == [exists |-> FALSE, password |-> Null, verified |-> FALSE,
           otp |-> 0, otpLive |-> FALSE, hasKey |-> FALSE]

(* The code typed is the stored one and has not expired. *)
CodeMatches(c) ==
    calls[c].code # 0 /\ user.otp = calls[c].code /\ user.otpLive

-----------------------------------------------------------------------------
(* POST signup: a verified address is a conflict, an unverified one gets a  *)
(* new code and keeps the password it has, a new one gets a row.            *)
Signup ==
    /\ \/ At("signup", "arrive") /\ user.verified /\ Answer("signup", "409") /\ UNCHANGED user
       \/ At("signup", "arrive") /\ user.exists /\ ~user.verified
            /\ Go("signup", "code") /\ UNCHANGED user
       \/ At("signup", "arrive") /\ ~user.exists /\ Go("signup", "create") /\ UNCHANGED user
       \/ /\ At("signup", "create")
          /\ user' = [NoUser EXCEPT !.exists = TRUE, !.password = calls["signup"].pw]
          /\ Go("signup", "code")
    /\ UNCHANGED <<tokens, fresh, codes, mails, inbox, faults>>

(* POST resend-otp and POST request-reset, up to the code. *)
Resend ==
    /\ At("resend", "arrive")
    /\ \/ ~user.exists /\ Answer("resend", "401")
       \/ user.verified /\ Answer("resend", "409")
       \/ user.exists /\ ~user.verified /\ Go("resend", "code")
    /\ UNCHANGED <<user, tokens, fresh, codes, mails, inbox, faults>>

RequestPasswordReset(c) ==
    /\ At(c, "arrive")
    /\ \/ ~user.exists /\ Answer(c, "ok")
       \/ user.exists /\ ~user.verified /\ Answer(c, "401")
       \/ user.verified /\ Go(c, "code")
    /\ UNCHANGED <<user, tokens, fresh, codes, mails, inbox, faults>>

(* updateOTP with a newly generated code, which replaces the one stored. *)
StoreCode(c) ==
    /\ At(c, "code")
    /\ codes' = codes + 1
    /\ user' = [user EXCEPT !.otp = codes', !.otpLive = TRUE]
    /\ calls' = [calls EXCEPT ![c].at = "mail", ![c].code = codes']
    /\ UNCHANGED <<tokens, fresh, mails, inbox, faults>>

QueueMail(c) ==
    /\ At(c, "mail")
    /\ mails' = mails \cup {calls[c].code}
    /\ Answer(c, "ok")
    /\ UNCHANGED <<user, tokens, fresh, codes, inbox, faults>>

(* The emails processor runs three jobs at a time: mails arrive in any order. *)
ProcessMail(n) ==
    /\ n \in mails
    /\ mails' = mails \ {n}
    /\ inbox' = inbox \cup {n}
    /\ UNCHANGED <<user, tokens, fresh, codes, calls, faults>>

-----------------------------------------------------------------------------
(* POST login, on the row as it was read: the password compared is that row's. *)
Login ==
    /\ At("login", "arrive")
    /\ IF user.verified /\ user.password = calls["login"].pw
       THEN Go("login", "issue")
       ELSE Answer("login", "401")
    /\ UNCHANGED <<user, tokens, fresh, codes, mails, inbox, faults>>

(* POST verify-otp: verifyEmail, generateAndStoreApiKey, then the tokens. *)
VerifyOTP ==
    /\ \/ /\ At("verify", "arrive")
          /\ IF user.exists /\ CodeMatches("verify")
             THEN calls' = [calls EXCEPT !["verify"].at = "verify", !["verify"].pw = user.password]
             ELSE Answer("verify", "401")
          /\ UNCHANGED user
       \/ /\ At("verify", "verify")
          /\ user' = [user EXCEPT !.verified = TRUE, !.otp = 0, !.otpLive = FALSE]
          /\ Go("verify", "key")
       \/ /\ At("verify", "key")
          /\ user' = [user EXCEPT !.hasKey = TRUE]
          /\ Go("verify", "issue")
    /\ UNCHANGED <<tokens, fresh, codes, mails, inbox, faults>>

(* Mutant: a refresh answers with the access token alone. *)
IssueWithoutCookie(c) ==
    /\ At(c, "issue")
    /\ tokens' = Append(tokens, [status |-> "live", pw |-> calls[c].pw, late |-> calls[c].late])
    /\ calls' = [calls EXCEPT ![c].at = "done", ![c].status = "ok", ![c].grant = Len(tokens'),
                              ![c].set = IF c = "refresh" THEN Null ELSE Len(tokens')]
    /\ UNCHANGED <<user, fresh, codes, mails, inbox, faults>>

(* generateRefreshToken, the access token of the same answer, and the cookie. *)
IssueTokens(c) ==
    /\ At(c, "issue")
    /\ tokens' = Append(tokens, [status |-> "live", pw |-> calls[c].pw, late |-> calls[c].late])
    /\ calls' = [calls EXCEPT ![c].at = "done", ![c].status = "ok",
                              ![c].set = Len(tokens'), ![c].grant = Len(tokens')]
    /\ UNCHANGED <<user, fresh, codes, mails, inbox, faults>>

(* Every row that is not revoked yet, expired or not. *)
RevokeAll == [i \in DOMAIN tokens |-> [tokens[i] EXCEPT !.status = "revoked"]]

SigningIn(c) == c \in {"login", "verify", "refresh"}
                    /\ calls[c].at \in {"revoke", "verify", "key", "issue"}

(* Mutant: the sessions are revoked before the password is changed. *)
RevokeFirst ==
    /\ \/ /\ At("reset", "arrive")
          /\ IF user.exists /\ CodeMatches("reset") THEN Go("reset", "revokeAll")
                                                    ELSE Answer("reset", "401")
          /\ UNCHANGED <<user, tokens>>
       \/ /\ At("reset", "revokeAll")
          /\ tokens' = RevokeAll
          /\ calls' = [c \in InFlight |->
                 IF c = "reset" THEN [calls[c] EXCEPT !.at = "password"]
                                ELSE [calls[c] EXCEPT !.late = @ \/ SigningIn(c)]]
          /\ UNCHANGED user
       \/ /\ At("reset", "password")
          /\ user' = [user EXCEPT !.password = calls["reset"].pw, !.otp = 0, !.otpLive = FALSE]
          /\ Answer("reset", "ok")
          /\ UNCHANGED tokens
    /\ UNCHANGED <<fresh, codes, mails, inbox, faults>>

(* POST reset-password: updatePassword, updateOTP(null), revokeAllUserTokens. *)
ResetPassword ==
    /\ \/ /\ At("reset", "arrive")
          /\ IF user.exists /\ CodeMatches("reset") THEN Go("reset", "password")
                                                    ELSE Answer("reset", "401")
          /\ UNCHANGED <<user, tokens>>
       \/ /\ At("reset", "password")
          /\ user' = [user EXCEPT !.password = calls["reset"].pw]
          /\ Go("reset", "clear")
          /\ UNCHANGED tokens
       \/ /\ At("reset", "clear")
          /\ user' = [user EXCEPT !.otp = 0, !.otpLive = FALSE]
          /\ Go("reset", "revokeAll")
          /\ UNCHANGED tokens
       \/ /\ At("reset", "revokeAll")
          /\ tokens' = RevokeAll
          /\ calls' = [c \in InFlight |->
                 IF c = "reset" THEN [calls[c] EXCEPT !.at = "done", !.status = "ok"]
                                ELSE [calls[c] EXCEPT !.late = @ \/ SigningIn(c)]]
          /\ UNCHANGED user
    /\ UNCHANGED <<fresh, codes, mails, inbox, faults>>

(* validateRefreshToken: a revoked token is taken for a stolen one, and every *)
(* session of the user goes with it.                                          *)
ValidateRefreshToken ==
    LET n == calls["refresh"].cookie IN
    /\ At("refresh", "arrive")
    /\ \/ n = 0 /\ calls' = [calls EXCEPT !["refresh"].at = "done", !["refresh"].status = "401",
                                          !["refresh"].set = 0]
       \/ n # 0 /\ tokens[n].status = "revoked" /\ Go("refresh", "alarm")
       \/ n # 0 /\ tokens[n].status = "expired" /\ Answer("refresh", "401")
       \/ n # 0 /\ tokens[n].status = "live"
            /\ calls' = [calls EXCEPT !["refresh"].at = "revoke", !["refresh"].pw = tokens[n].pw,
                                         !["refresh"].late = tokens[n].late]
    /\ UNCHANGED <<user, tokens, fresh, codes, mails, inbox, faults>>

ReuseAlarm ==
    /\ At("refresh", "alarm")
    /\ tokens' = RevokeAll
    /\ Answer("refresh", "401")
    /\ UNCHANGED <<user, fresh, codes, mails, inbox, faults>>

(* Mutant: a token that has been used is given a status nothing knows. *)
MarkUsed(c) ==
    /\ At(c, "revoke")
    /\ tokens' = [tokens EXCEPT ![calls[c].cookie].status = "used"]
    /\ IF c = "refresh" THEN Go(c, "issue") ELSE Answer(c, "ok")
    /\ UNCHANGED <<user, fresh, codes, mails, inbox, faults>>

RevokeRefreshToken(c) ==
    /\ At(c, "revoke")
    /\ tokens' = [tokens EXCEPT ![calls[c].cookie].status = "revoked"]
    /\ IF c = "refresh" THEN Go(c, "issue") ELSE Answer(c, "ok")
    /\ UNCHANGED <<user, fresh, codes, mails, inbox, faults>>

(* JwtAuthGuard: the signature and the expiry of the access token, no row. *)
AccessIsValid(c) == calls[c].access # 0 /\ calls[c].access >= fresh

(* POST logout: behind the guard; the cookie is cleared, then revoked. *)
Logout ==
    /\ At("logout", "arrive")
    /\ \/ ~AccessIsValid("logout") /\ Answer("logout", "401")
       \/ /\ AccessIsValid("logout")
          /\ calls' = [calls EXCEPT
                 !["logout"].set = 0,
                 !["logout"].at = IF calls["logout"].cookie = 0 THEN "done" ELSE "revoke",
                 !["logout"].status = IF calls["logout"].cookie = 0 THEN "ok" ELSE @]
    /\ UNCHANGED <<user, tokens, fresh, codes, mails, inbox, faults>>

ServeQuery(q) ==
    /\ At(q, "arrive")
    /\ Answer(q, IF AccessIsValid(q) THEN "ok" ELSE "401")
    /\ UNCHANGED <<user, tokens, fresh, codes, mails, inbox, faults>>

-----------------------------------------------------------------------------
AtServer(c) == c \in InFlight /\ calls[c].at \notin {"done", "queued"}

(* A database call of a handler fails: what it wrote so far stays written,  *)
(* and so does a Set-Cookie already on the response.                        *)
ServerError(c) ==
    /\ AtServer(c) /\ faults < MaxFaults
    /\ faults' = faults + 1
    /\ Answer(c, "500")
    /\ UNCHANGED <<user, tokens, fresh, codes, mails, inbox>>

(* An answer, its cookie with it, is lost on the way. *)
LoseAnswer(c) ==
    /\ At(c, "done") /\ faults < MaxFaults /\ calls[c].status # "lost"
    /\ faults' = faults + 1
    /\ calls' = [calls EXCEPT ![c].status = "lost", ![c].set = Null, ![c].grant = 0]
    /\ UNCHANGED <<user, tokens, fresh, codes, mails, inbox>>

ExpireCode ==
    /\ user.otpLive
    /\ user' = [user EXCEPT !.otpLive = FALSE]
    /\ UNCHANGED <<tokens, fresh, codes, mails, inbox, calls, faults>>

Handle(c) ==
    \/ c \in {"signup", "resend", "forgot", "recode"} /\ (StoreCode(c) \/ QueueMail(c))
    \/ c = "signup" /\ Signup
    \/ c = "resend" /\ Resend
    \/ c \in {"forgot", "recode"} /\ RequestPasswordReset(c)
    \/ c = "login" /\ Login
    \/ c = "verify" /\ VerifyOTP
    \/ c = "reset" /\ ResetPassword
    \/ c \in {"login", "verify", "refresh"} /\ IssueTokens(c)
    \/ c = "refresh" /\ (ValidateRefreshToken \/ ReuseAlarm)
    \/ c \in {"refresh", "logout"} /\ RevokeRefreshToken(c)
    \/ c = "logout" /\ Logout
    \/ c \in Queries /\ ServeQuery(c)
=============================================================================
