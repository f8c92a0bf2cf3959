------------------------------- MODULE Portal -------------------------------
(***************************************************************************)
(* One browser tab of the dashboard before Auth: the login, signup and     *)
(* forgot-password pages, the signed-in pages as far as they send queries, *)
(* the axios interceptors, the auth store and the refresh cookie.          *)
(***************************************************************************)
EXTENDS Auth

CONSTANTS MaxSubmits,   \* forms submitted and buttons pressed by the person
          MaxExpiries   \* times the access tokens, or the session, expire

ASSUME BoundsAssumption ==
    MaxSubmits \in Nat /\ MaxExpiries \in Nat /\ MaxFaults \in Nat

VARIABLES
    cookie,      \* the refresh token cookie, 0 when there is none
    store,       \* isAuthenticated and the access token, 0 for null
    page,        \* the page and, on signup and forgot-password, its step
    cooldown,    \* resendCountdown > 0
    refreshing,  \* isRefreshing of the API client
    submits, expiries,
    cause        \* something happened that may rightly end a session

clientVars == <<cookie, store, page, cooldown, refreshing, submits, expiries, cause>>
portalVars == <<authVars, clientVars>>

Pages == {"login", "signup", "verify", "forgot", "reset", "dashboard"}
SignedOut == [auth |-> FALSE, token |-> 0]

(* A visitor on the signup page, or a signed-in user, at work on the dashboard *)
(* or come back to reset a password.                                           *)
InitPortal ==
    /\ calls = <<>>
    /\ fresh = 1 /\ codes = 0 /\ mails = {} /\ inbox = {} /\ faults = 0
    /\ cooldown = FALSE /\ refreshing = FALSE /\ submits = 0 /\ expiries = 0 /\ cause = FALSE
    /\ \/ /\ user = NoUser /\ tokens = <<>> /\ cookie = 0
          /\ store = SignedOut /\ page = "signup"
       \/ \E pw \in Passwords :
          /\ user = [NoUser EXCEPT !.exists = TRUE, !.password = pw, !.verified = TRUE, !.hasKey = TRUE]
          /\ tokens = <<[status |-> "live", pw |-> pw, late |-> FALSE]>> /\ cookie = 1
          /\ store = [auth |-> TRUE, token |-> 1] /\ page \in {"dashboard", "forgot"}

-----------------------------------------------------------------------------
(* The request interceptor: whatever token the store holds, and the cookie. *)
Request(pw, code) ==
    [NewCall EXCEPT !.cookie = cookie, !.access = store.token, !.pw = pw, !.code = code]

Send(c, pw, code) ==
    /\ c \notin InFlight
    /\ calls' = [d \in InFlight \cup {c} |-> IF d = c THEN Request(pw, code) ELSE calls[d]]

Submit(c, pw, code) ==
    /\ submits < MaxSubmits
    /\ submits' = submits + 1
    /\ Send(c, pw, code)
    /\ UNCHANGED <<user, tokens, fresh, codes, mails, inbox, faults>>
    /\ UNCHANGED <<cookie, store, page, cooldown, refreshing, expiries>>

(* The forms: each is on screen on its page only, and its button is disabled *)
(* while its own submission is in flight.                                    *)
SubmitLogin == page = "login" /\ \E pw \in Passwords : Submit("login", pw, 0) /\ UNCHANGED cause
SubmitSignup == page = "signup" /\ \E pw \in Passwords : Submit("signup", pw, 0) /\ UNCHANGED cause
SubmitOtp == page = "verify" /\ \E n \in inbox \cup {0} : Submit("verify", Null, n) /\ UNCHANGED cause
SubmitRequestReset == page = "forgot" /\ Submit("forgot", Null, 0) /\ UNCHANGED cause
SubmitReset ==
    /\ page = "reset"
    /\ \E n \in inbox \cup {0}, pw \in Passwords : Submit("reset", pw, n)
    /\ cause' = TRUE

(* Resend buttons, on both code pages: held back by the countdown alone. *)
HandleResendOtp == page = "verify" /\ ~cooldown /\ Submit("resend", Null, 0) /\ UNCHANGED cause
HandleResendCode == page = "reset" /\ ~cooldown /\ Submit("recode", Null, 0) /\ UNCHANGED cause

HandleLogout == page = "dashboard" /\ Submit("logout", Null, 0) /\ cause' = TRUE

SendQuery(q) ==
    /\ page = "dashboard" /\ Send(q, Null, 0)
    /\ UNCHANGED <<user, tokens, fresh, codes, mails, inbox, faults>>
    /\ UNCHANGED clientVars

(* The links between the three pages and the two buttons that step back.  A *)
(* page is built anew, a request in flight still runs its handler.          *)
Links ==
    {<<"login", "signup">>, <<"login", "forgot">>, <<"signup", "login">>, <<"forgot", "login">>}
StepsBack == {<<"verify", "signup">>, <<"reset", "forgot">>}

FollowLink ==
    /\ \E p \in Pages :
          /\ <<page, p>> \in Links \cup StepsBack
          /\ page' = p
          /\ cooldown' = (<<page, p>> \in StepsBack /\ cooldown)
    /\ UNCHANGED <<authVars, cookie, store, refreshing, submits, expiries, cause>>

CountdownEnds == cooldown /\ cooldown' = FALSE
    /\ UNCHANGED <<authVars, cookie, store, page, refreshing, submits, expiries, cause>>

-----------------------------------------------------------------------------
(* Answers. *)
CookieAfter(c) == IF calls[c].set = Null THEN cookie ELSE calls[c].set

Succeeded(c) == calls[c].status = "ok"

(* The response interceptor takes a 401, unless it is of an auth endpoint it *)
(* excludes or of a request it has retried.                                  *)
Intercepted(c) ==
    /\ calls[c].status = "401" /\ ~calls[c].retried
    /\ c \notin {"refresh", "login", "logout"}

Arrived(c) == At(c, "done") /\ ~calls[c].orphan

(* The first 401 starts a refresh, those that follow wait for it.  (A refresh *)
(* of a page that was reloaded is over before another one starts: a bound.)   *)
StartRefresh(c) ==
    /\ Arrived(c) /\ Intercepted(c) /\ ~refreshing /\ "refresh" \notin InFlight
    /\ refreshing' = TRUE
    /\ calls' = [d \in InFlight \cup {"refresh"} |->
                    CASE d = "refresh" -> Request(Null, 0)
                      [] d = c -> [calls[c] EXCEPT !.at = "queued", !.retried = TRUE]
                      [] OTHER -> calls[d]]
    /\ cause' = (cause \/ c \notin Queries)
    /\ UNCHANGED <<user, tokens, fresh, codes, mails, inbox, faults>>
    /\ UNCHANGED <<cookie, store, page, cooldown, submits, expiries>>

AwaitRefresh(c) ==
    /\ Arrived(c) /\ Intercepted(c) /\ refreshing
    /\ Go(c, "queued")
    /\ UNCHANGED <<user, tokens, fresh, codes, mails, inbox, faults>>
    /\ UNCHANGED clientVars

(* setToken, then the queue and the first request are sent again. *)
Replayed(token, cookie1) == [c \in InFlight \ {"refresh"} |->
    IF At(c, "queued")
    THEN [Request(calls[c].pw, calls[c].code) EXCEPT
             !.access = token, !.cookie = cookie1, !.retried = calls[c].retried]
    ELSE calls[c]]

(* Mutant: a refused refresh rejects the first request and not the queue. *)
RejectFirst == Without({"refresh"} \cup {c \in InFlight : At(c, "queued") /\ calls[c].retried})

Rejected == Without({"refresh"} \cup {c \in InFlight : At(c, "queued")})

(* A full page load forgets the requests of the page; the server does not. *)
Unloaded(cs) ==
    [c \in {c \in DOMAIN cs \ Queries : cs[c].at # "queued"} |-> [cs[c] EXCEPT !.orphan = TRUE]]

RefreshDone ==
    /\ Arrived("refresh")
    /\ refreshing' = FALSE
    /\ cookie' = CookieAfter("refresh")
    /\ IF Succeeded("refresh")
       THEN /\ store' = [store EXCEPT !.token = calls["refresh"].grant]
            /\ calls' = Replayed(calls["refresh"].grant, cookie')
            /\ UNCHANGED <<page, cooldown>>
       ELSE (* forceLogout *)
            /\ store' = SignedOut
            /\ IF page = "dashboard"
               THEN page' = "login" /\ cooldown' = FALSE /\ calls' = Unloaded(Rejected)
               ELSE calls' = Rejected /\ UNCHANGED <<page, cooldown>>
    /\ UNCHANGED <<user, tokens, fresh, codes, mails, inbox, faults, submits, expiries, cause>>

(* The pages' own handlers, on what the interceptor lets through. *)
Settle(c) ==
    /\ Arrived(c) /\ ~Intercepted(c)
    /\ calls' = Without({c})
    /\ cookie' = CookieAfter(c)
    /\ UNCHANGED <<user, tokens, fresh, codes, mails, inbox, faults, refreshing, submits, expiries, cause>>

SetAuth(c) == store' = [auth |-> TRUE, token |-> calls[c].grant] /\ page' = "dashboard"

(* One of the queries is the settings page's update of the Mono key, whose   *)
(* answer sets isAuthenticated again, with the token there is: none, if the  *)
(* user has logged out in the meantime.                                      *)
QueryAnswered(q) ==
    /\ Settle(q) /\ UNCHANGED <<page, cooldown>>
    /\ store' \in {store} \cup {s \in {[store EXCEPT !.auth = TRUE]} : Succeeded(q)}

(* onSubmit of the login page and onVerifyOtp. *)
SignInAnswered(c) ==
    /\ Settle(c) /\ UNCHANGED cooldown
    /\ IF Succeeded(c) THEN SetAuth(c) ELSE UNCHANGED <<store, page>>

(* onSignup and onRequestReset show the code's form, if their page is still *)
(* there (or there again: the two are not told apart); a resend only starts *)
(* the countdown.                                                           *)
CodeAnswered(c) ==
    /\ Settle(c) /\ UNCHANGED store
    /\ LET form == IF c \in {"signup", "resend"} THEN <<"signup", "verify">>
                                               ELSE <<"forgot", "reset">>
           here == Succeeded(c) /\ page \in {form[1], form[2]}
       IN  /\ page' = IF here /\ c \in {"signup", "forgot"} THEN form[2] ELSE page
           /\ cooldown' = (cooldown \/ here)

ResetAnswered ==
    /\ Settle("reset") /\ UNCHANGED <<store, cooldown>>
    /\ page' = IF Succeeded("reset") THEN "login" ELSE page

(* handleLogout: signed out here whatever the gateway answered. *)
LogoutAnswered == Settle("logout") /\ store' = SignedOut /\ page' = "login" /\ UNCHANGED cooldown

(* The answer to a page that is gone: its cookie may still be taken. *)
OrphanAnswered(c) ==
    /\ At(c, "done") /\ calls[c].orphan
    /\ calls' = Without({c})
    /\ cookie' \in {cookie, CookieAfter(c)}
    /\ UNCHANGED <<user, tokens, fresh, codes, mails, inbox, faults>>
    /\ UNCHANGED <<store, page, cooldown, refreshing, submits, expiries, cause>>

Receive(c) ==
    \/ StartRefresh(c) \/ AwaitRefresh(c) \/ OrphanAnswered(c)
    \/ c = "refresh" /\ RefreshDone
    \/ c \in Queries /\ QueryAnswered(c)
    \/ c \in {"login", "verify"} /\ SignInAnswered(c)
    \/ c \in {"signup", "resend", "forgot", "recode"} /\ CodeAnswered(c)
    \/ c = "reset" /\ ResetAnswered
    \/ c = "logout" /\ LogoutAnswered

-----------------------------------------------------------------------------
(* Time. *)
AccessExpires ==
    /\ expiries < MaxExpiries /\ expiries' = expiries + 1
    /\ \E n \in fresh .. Len(tokens) : fresh' = n + 1
    /\ UNCHANGED <<user, tokens, codes, mails, inbox, calls, faults>>
    /\ UNCHANGED <<cookie, store, page, cooldown, refreshing, submits, cause>>

(* Seven days: every refresh token expires, the cookie with its Max-Age. *)
SessionExpires ==
    /\ expiries < MaxExpiries /\ expiries' = expiries + 1
    /\ tokens' = [i \in DOMAIN tokens |->
                     IF tokens[i].status = "live" THEN [tokens[i] EXCEPT !.status = "expired"]
                                                  ELSE tokens[i]]
    /\ fresh' = Len(tokens) + 1
    /\ cookie' = 0 /\ cause' = TRUE
    /\ UNCHANGED <<user, codes, mails, inbox, calls, faults>>
    /\ UNCHANGED <<store, page, cooldown, refreshing, submits>>

(* F5: the store is in localStorage, everything else of the page is new. *)
Reload ==
    /\ faults < MaxFaults /\ faults' = faults + 1
    /\ calls' = Unloaded(calls)
    /\ page' = CASE page = "verify" -> "signup" [] page = "reset" -> "forgot" [] OTHER -> page
    /\ cooldown' = FALSE /\ refreshing' = FALSE
    /\ UNCHANGED <<user, tokens, fresh, codes, mails, inbox>>
    /\ UNCHANGED <<cookie, store, submits, expiries, cause>>

Environment ==
    \/ \E n \in mails : ProcessMail(n) /\ UNCHANGED clientVars
    \/ ExpireCode /\ UNCHANGED clientVars
    \/ \E c \in Calls : (ServerError(c) \/ LoseAnswer(c)) /\ UNCHANGED clientVars
    \/ AccessExpires \/ SessionExpires \/ Reload \/ CountdownEnds

Person ==
    \/ SubmitLogin \/ SubmitSignup \/ SubmitOtp \/ SubmitRequestReset \/ SubmitReset
    \/ HandleResendOtp \/ HandleResendCode \/ HandleLogout \/ FollowLink
    \/ \E q \in Queries : SendQuery(q)

Serve(c) == Handle(c) /\ UNCHANGED clientVars

NextPortal == Environment \/ Person \/ \E c \in Calls : Serve(c) \/ Receive(c)

-----------------------------------------------------------------------------
Ids == 0 .. Len(tokens)
CallType ==
    [at : {"arrive", "create", "code", "mail", "verify", "key", "issue", "password",
           "clear", "revokeAll", "alarm", "revoke", "done", "queued"},
     retried : BOOLEAN, orphan : BOOLEAN, late : BOOLEAN, cookie : Ids, access : Ids,
     pw : Passwords \cup {Null}, code : 0 .. codes,
     status : {"none", "ok", "401", "409", "500", "lost"}, set : Ids \cup {Null}, grant : Ids]

PortalTypeOK ==
    /\ user \in [exists : BOOLEAN, password : Passwords \cup {Null}, verified : BOOLEAN,
                 otp : 0 .. codes, otpLive : BOOLEAN, hasKey : BOOLEAN]
    /\ \A i \in DOMAIN tokens :
          tokens[i] \in [status : {"live", "expired", "revoked"}, pw : Passwords, late : BOOLEAN]
    /\ fresh \in 1 .. Len(tokens) + 1
    /\ mails \subseteq 1 .. codes /\ inbox \subseteq 1 .. codes
    /\ InFlight \subseteq Calls /\ \A c \in InFlight : calls[c] \in CallType
    /\ cookie \in Ids /\ store \in [auth : BOOLEAN, token : Ids] /\ page \in Pages
    /\ cooldown \in BOOLEAN /\ refreshing \in BOOLEAN /\ cause \in BOOLEAN
    /\ submits \in 0 .. MaxSubmits /\ expiries \in 0 .. MaxExpiries /\ faults \in 0 .. MaxFaults

(* A tab is not thrown out of its session by its own queries: if the client  *)
(* signs a user out by itself, then the session had expired, the user had    *)
(* asked for a logout or a password reset, a form had been refused with a    *)
(* 401, or something had failed.  However queries, their retries, the        *)
(* rotation of the cookie and the expiry of access tokens overlap, no refresh *)
(* presents a token that was revoked.                                         *)
ForcedOutForCause ==
    [][(At("refresh", "done") /\ store.auth /\ ~store'.auth) => (cause \/ faults > 0)]_portalVars

(* No request is forgotten: one that waits for a refresh does so only while a *)
(* refresh of this very page is in flight, and a refresh that is in flight is *)
(* waited for by the request that started it.  Success, refusal, failure and  *)
(* loss of the refresh each release all of them, and a reload starts afresh.  *)
RefreshIsAwaited ==
    /\ (\E c \in Calls : At(c, "queued")) <=> refreshing
    /\ refreshing <=> ("refresh" \in InFlight /\ ~calls["refresh"].orphan)

(* A password reset ends every session opened with an older password, except *)
(* those of the sign-ins and refreshes that were under way while it revoked. *)
ResetEndsSessions ==
    faults = 0 /\ ~At("reset", "clear") /\ ~At("reset", "revokeAll") =>
        \A i \in DOMAIN tokens :
            tokens[i].status = "live" => tokens[i].pw = user.password \/ tokens[i].late
=============================================================================
