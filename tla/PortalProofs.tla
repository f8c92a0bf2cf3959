---------------------------- MODULE PortalProofs ----------------------------
(***************************************************************************)
(* The portal, for any sets of queries and passwords and all bounds: the   *)
(* types of the whole dashboard, no request that waits in vain, a password *)
(* reset that ends the older sessions, and no tab that is signed out       *)
(* without a cause.                                                        *)
(***************************************************************************)
EXTENDS PagesProofs

(* The portal's variables change by the portal's own steps. *)
LEMMA PortalSteps == [Next]_vars => [NextPortal]_portalVars
BY DEF Next, vars

-----------------------------------------------------------------------------
(* Types.  Two of them need more than themselves: a row or a token is made   *)
(* with the password its request carries, and a mail with its code.          *)
Token == [status : {"live", "expired", "revoked"}, pw : Passwords, late : BOOLEAN]

Opening == {"revoke", "verify", "key", "issue"}

Fits(c, r) ==
    /\ c \in {"login", "signup", "reset"} => r.pw \in Passwords
    /\ c \in {"login", "verify", "refresh"} /\ r.at \in Opening => r.pw \in Passwords
    /\ r.at = "mail" => r.code # 0

CallsOK ==
    /\ InFlight \subseteq Calls
    /\ \A c \in InFlight : calls[c] \in CallType /\ Fits(c, calls[c])

UserOK ==
    /\ user \in [exists : BOOLEAN, password : Passwords \cup {Null}, verified : BOOLEAN,
                 otp : 0 .. codes, otpLive : BOOLEAN, hasKey : BOOLEAN]
    /\ user.exists => user.password \in Passwords

ServerOK ==
    /\ UserOK /\ CallsOK
    /\ tokens \in Seq(Token)
    /\ codes \in Nat /\ fresh \in 1 .. Len(tokens) + 1
    /\ mails \subseteq 1 .. codes /\ inbox \subseteq 1 .. codes
    /\ faults \in 0 .. MaxFaults

ClientOK ==
    /\ cookie \in Ids /\ store \in [auth : BOOLEAN, token : Ids] /\ page \in Pages
    /\ cooldown \in BOOLEAN /\ refreshing \in BOOLEAN /\ cause \in BOOLEAN
    /\ submits \in 0 .. MaxSubmits /\ expiries \in 0 .. MaxExpiries

SessionsOK == ServerOK /\ ClientOK

(* Tokens and codes only become more, so what names one goes on naming one. *)
LEMMA CallTypeGrows ==
  ASSUME Len(tokens) \in Nat, Len(tokens)' \in Nat, Len(tokens) <= Len(tokens)',
         codes \in Nat, codes' \in Nat, codes <= codes', NEW r \in CallType
  PROVE  r \in CallType'
<1>1. Ids \subseteq Ids' /\ 0 .. codes \subseteq 0 .. codes'
  BY DEF Ids
<1> QED
  BY <1>1 DEF CallType

(* A step that answers, moves or changes one call. *)
Touches(c) ==
    DOMAIN calls' = DOMAIN calls /\ \A d \in DOMAIN calls : d # c => calls'[d] = calls[d]

Counts == Len(tokens) \in Nat /\ codes \in Nat
Grow == Counts /\ Counts' /\ Len(tokens) <= Len(tokens)' /\ codes <= codes'

LEMMA OneCall ==
  ASSUME CallsOK, Grow, NEW c \in InFlight, Touches(c),
         calls'[c] \in CallType', Fits(c, calls'[c])
  PROVE  CallsOK'
BY CallTypeGrows DEF CallsOK, InFlight, Fits, Touches, Grow, Counts

(* Most steps only move a call on or answer it. *)
LEMMA CallGoes ==
  ASSUME CallsOK, Counts, UNCHANGED <<tokens, codes>>, NEW c \in InFlight
  PROVE  /\ \A step \in {"create", "code", "password", "clear", "revokeAll", "alarm", "queued"} :
               Go(c, step) => CallsOK'
         /\ \A code \in {"ok", "401", "409", "500"} : Answer(c, code) => CallsOK'
<1>0. calls[c] \in CallType /\ Fits(c, calls[c]) /\ CallType' = CallType /\ Grow
  BY DEF CallsOK, CallType, Ids, Grow, Counts
<1>1. ASSUME NEW step \in {"create", "code", "password", "clear", "revokeAll", "alarm", "queued"},
             Go(c, step)
      PROVE  CallsOK'
  <2>1. [calls[c] EXCEPT !.at = step] \in CallType /\ Fits(c, [calls[c] EXCEPT !.at = step])
    BY <1>0 DEF CallType, Fits, Opening
  <2>2. Touches(c) /\ calls'[c] = [calls[c] EXCEPT !.at = step]
    BY <1>1 DEF Go, Touches, InFlight
  <2> QED
    BY <1>0, <2>1, <2>2, OneCall
<1>2. ASSUME NEW code \in {"ok", "401", "409", "500"}, Answer(c, code)
      PROVE  CallsOK'
  <2> DEFINE r == [calls[c] EXCEPT !.at = "done", !.status = code]
  <2>1. r \in CallType /\ Fits(c, r)
    BY <1>0 DEF CallType, Fits, Opening
  <2>2. Touches(c) /\ calls'[c] = r
    BY <1>2 DEF Answer, Touches, InFlight
  <2> QED
    BY <1>0, <2>1, <2>2, OneCall
<1> QED
  BY <1>1, <1>2

(* The tables of the server. *)
LEMMA TokensGrow ==
  ASSUME tokens \in Seq(Token), NEW t \in Token
  PROVE  /\ Append(tokens, t) \in Seq(Token) /\ Len(Append(tokens, t)) = Len(tokens) + 1
         /\ DOMAIN Append(tokens, t) = 1 .. Len(tokens) + 1
         /\ \A i \in DOMAIN Append(tokens, t) :
               Append(tokens, t)[i] = IF i = Len(tokens) + 1 THEN t ELSE tokens[i]
OBVIOUS

LEMMA TokensStay ==
  ASSUME tokens \in Seq(Token)
  PROVE  /\ Len(tokens) \in Nat /\ DOMAIN tokens = 1 .. Len(tokens)
         /\ \A i \in DOMAIN tokens : tokens[i] \in Token
OBVIOUS

LEMMA TokensRewritten ==
  ASSUME tokens \in Seq(Token), NEW f, DOMAIN f = DOMAIN tokens,
         f = [i \in DOMAIN tokens |-> f[i]], \A i \in DOMAIN tokens : f[i] \in Token
  PROVE  f \in Seq(Token) /\ Len(f) = Len(tokens)
<1>1. Len(tokens) \in Nat /\ DOMAIN tokens = 1 .. Len(tokens)
  OBVIOUS
<1>2. f \in [1 .. Len(tokens) -> Token]
  BY <1>1
<1> QED
  BY <1>1, <1>2

(* What a step leaves alone keeps its type. *)
LEMMA SessionFrames ==
  ASSUME SessionsOK
  PROVE  /\ Counts
         /\ UNCHANGED clientVars /\ Grow => ClientOK'
         /\ UNCHANGED <<user, codes>> => UserOK'
         /\ CallsOK' /\ UserOK' /\ UNCHANGED <<tokens, fresh, codes, mails, inbox, faults>>
              => ServerOK'
<1>1. Counts
  BY TokensStay DEF SessionsOK, ServerOK, Counts
<1>2. ASSUME UNCHANGED clientVars, Grow PROVE ClientOK'
  <2>1. Ids \subseteq Ids'
    BY <1>2 DEF Ids, Grow, Counts
  <2> QED
    BY <1>2, <2>1 DEF clientVars, SessionsOK, ClientOK
<1>3. UNCHANGED <<user, codes>> => UserOK'
  BY DEF SessionsOK, ServerOK, UserOK
<1>4. CallsOK' /\ UserOK' /\ UNCHANGED <<tokens, fresh, codes, mails, inbox, faults>>
        => ServerOK'
  BY DEF SessionsOK, ServerOK
<1> QED
  BY <1>1, <1>2, <1>3, <1>4

LEMMA SignupTypes ==
  ASSUME SessionsOK, Signup
  PROVE  ServerOK'
<1> USE DEF At
<1>0. /\ CallsOK /\ Counts /\ UNCHANGED <<tokens, codes>>
      /\ UNCHANGED <<tokens, fresh, codes, mails, inbox, faults>>
  BY SessionFrames DEF Signup, SessionsOK, ServerOK
<1>1. "signup" \in InFlight /\ calls["signup"].pw \in Passwords
  BY <1>0 DEF Signup, CallsOK, Fits
<1>2. CallsOK'
  BY <1>0, <1>1, CallGoes DEF Signup
<1>3. CASE UNCHANGED user
  BY <1>0, <1>2, <1>3, SessionFrames
<1>4. CASE user' = [NoUser EXCEPT !.exists = TRUE, !.password = calls["signup"].pw]
  <2>0. user' = [exists |-> TRUE, password |-> calls["signup"].pw, verified |-> FALSE,
                 otp |-> 0, otpLive |-> FALSE, hasKey |-> FALSE]
    BY <1>4 DEF NoUser
  <2>1. UserOK'
    BY <1>0, <1>1, <2>0 DEF UserOK, Counts
  <2> QED
    BY <1>0, <1>2, <2>1, SessionFrames
<1> QED
  BY <1>3, <1>4 DEF Signup

LEMMA CodeTypes ==
  ASSUME SessionsOK, NEW c \in Calls,
         Resend \/ RequestPasswordReset(c) \/ StoreCode(c) \/ QueueMail(c)
  PROVE  ServerOK'
<1> USE DEF At
<1>0. CallsOK /\ Counts
  BY SessionFrames DEF SessionsOK, ServerOK
<1>1. CASE Resend \/ RequestPasswordReset(c)
  <2>1. CallsOK'
    BY <1>0, <1>1, CallGoes DEF Resend, RequestPasswordReset
  <2> QED
    BY <1>1, <2>1, SessionFrames DEF Resend, RequestPasswordReset
<1>2. CASE StoreCode(c)
  <2>1. /\ c \in InFlight /\ codes' = codes + 1
        /\ calls' = [calls EXCEPT ![c].at = "mail", ![c].code = codes']
        /\ user' = [user EXCEPT !.otp = codes', !.otpLive = TRUE]
        /\ UNCHANGED <<tokens, fresh, mails, inbox, faults>>
    BY <1>2 DEF StoreCode
  <2>2. Grow
    BY <1>0, <2>1 DEF Grow, Counts
  <2>3. calls[c] \in CallType' /\ Fits(c, calls[c])
    BY <1>0, <2>1, <2>2, CallTypeGrows DEF CallsOK, Grow, Counts
  <2>4. Touches(c) /\ calls'[c] = [calls[c] EXCEPT !.at = "mail", !.code = codes']
    BY <2>1 DEF Touches, InFlight
  <2>5. codes' \in (0 .. codes)' /\ codes' # 0
    BY <1>0, <2>1 DEF Counts
  <2>6. calls'[c] \in CallType' /\ Fits(c, calls'[c])
    BY <2>3, <2>4, <2>5 DEF CallType, Fits, Opening
  <2>7. CallsOK'
    BY <1>0, <2>1, <2>2, <2>4, <2>6, OneCall
  <2>8. UserOK'
    BY <1>0, <2>1, <2>5 DEF UserOK, SessionsOK, ServerOK, Counts
  <2> QED
    BY <1>0, <2>1, <2>7, <2>8 DEF SessionsOK, ServerOK, Counts
<1>3. CASE QueueMail(c)
  <2>1. CallsOK' /\ UserOK'
    BY <1>0, <1>3, CallGoes, SessionFrames DEF QueueMail
  <2>2. calls[c].code \in 1 .. codes
    BY <1>0, <1>3 DEF QueueMail, CallsOK, CallType, Fits, Counts
  <2> QED
    BY <1>3, <2>1, <2>2 DEF QueueMail, SessionsOK, ServerOK
<1> QED
  BY <1>1, <1>2, <1>3

(* The handlers that open a session give it the password they went by. *)
LEMMA SignInTypes ==
  ASSUME SessionsOK, Login \/ VerifyOTP
  PROVE  ServerOK'
<1> USE DEF At
<1>0. CallsOK /\ Counts /\ UNCHANGED <<tokens, fresh, codes, mails, inbox, faults>>
  BY SessionFrames DEF SessionsOK, ServerOK, Login, VerifyOTP
<1>1. ASSUME NEW c \in {"login", "verify"}, c \in InFlight, Go(c, "issue") \/ Go(c, "key"),
             calls[c].pw \in Passwords
      PROVE  CallsOK'
  <2>0. calls[c] \in CallType' /\ Fits(c, calls[c]) /\ Grow
    BY <1>0, <1>1 DEF CallsOK, CallType, Ids, Grow, Counts
  <2>1. PICK step \in {"issue", "key"} : Go(c, step)
    BY <1>1
  <2>2. Touches(c) /\ calls'[c] = [calls[c] EXCEPT !.at = step]
    BY <1>1, <2>1 DEF Touches, Go, InFlight
  <2>3. calls'[c] \in CallType' /\ Fits(c, calls'[c])
    BY <1>1, <2>0, <2>2 DEF CallType, Fits, Opening
  <2> QED
    BY <1>0, <1>1, <2>0, <2>2, <2>3, OneCall
<1>2. CASE Login
  <2>1. "login" \in InFlight /\ calls["login"].pw \in Passwords
    BY <1>0, <1>2 DEF Login, CallsOK, Fits
  <2>2. CallsOK'
    BY <1>0, <1>1, <1>2, <2>1, CallGoes DEF Login
  <2> QED
    BY <1>0, <1>2, <2>2, SessionFrames DEF Login
<1>3. CASE VerifyOTP
  <2>0. "verify" \in InFlight /\ calls["verify"] \in CallType' /\ Fits("verify", calls["verify"])
          /\ Grow
    BY <1>0, <1>3 DEF VerifyOTP, CallsOK, CallType, Ids, Grow, Counts
  <2>1. UserOK'
    <3>1. /\ UserOK /\ codes \in Nat /\ codes' = codes
          /\ \/ UNCHANGED user
             \/ user' = [user EXCEPT !.verified = TRUE, !.otp = 0, !.otpLive = FALSE]
             \/ user' = [user EXCEPT !.hasKey = TRUE]
      BY <1>0, <1>3 DEF VerifyOTP, SessionsOK, ServerOK, Counts
    <3>2. CASE UNCHANGED user
      BY <3>1, <3>2 DEF UserOK
    <3>3. CASE user' = [user EXCEPT !.verified = TRUE, !.otp = 0, !.otpLive = FALSE]
      BY <3>1, <3>3, 0 \in 0 .. codes DEF UserOK
    <3>4. CASE user' = [user EXCEPT !.hasKey = TRUE]
      BY <3>1, <3>4 DEF UserOK
    <3> QED
      BY <3>1, <3>2, <3>3, <3>4
  <2>2. CASE Answer("verify", "401")
    BY <1>0, <2>0, <2>1, <2>2, CallGoes, SessionFrames
  <2>3. CASE user.exists /\ calls' = [calls EXCEPT !["verify"].at = "verify", !["verify"].pw = user.password]
    <3>1. Touches("verify")
            /\ calls'["verify"] = [calls["verify"] EXCEPT !.at = "verify", !.pw = user.password]
      BY <2>0, <2>3 DEF Touches, InFlight
    <3>2. user.password \in Passwords
      BY <2>3 DEF UserOK, SessionsOK, ServerOK
    <3>3. calls'["verify"] \in CallType' /\ Fits("verify", calls'["verify"])
      BY <2>0, <3>1, <3>2 DEF CallType, Fits, Opening
    <3>4. CallsOK'
      BY <1>0, <2>0, <3>1, <3>3, OneCall
    <3> QED
      BY <1>0, <2>1, <3>4, SessionFrames
  <2>4. CASE (At("verify", "verify") /\ Go("verify", "key"))
               \/ (At("verify", "key") /\ Go("verify", "issue"))
    <3>1. calls["verify"].pw \in Passwords
      BY <2>0, <2>4 DEF Fits, Opening
    <3>2. CallsOK'
      BY <1>1, <2>0, <2>4, <3>1
    <3> QED
      BY <1>0, <2>1, <3>2, SessionFrames
  <2> QED
    BY <1>3, <2>2, <2>3, <2>4 DEF VerifyOTP
<1> QED
  BY <1>2, <1>3

LEMMA IssueTypes ==
  ASSUME SessionsOK, NEW c \in {"login", "verify", "refresh"}, IssueTokens(c)
  PROVE  ServerOK' /\ Grow
<1> DEFINE t == [status |-> "live", pw |-> calls[c].pw, late |-> calls[c].late]
           n == Len(tokens')
<1>0. CallsOK /\ Counts /\ tokens \in Seq(Token) /\ c \in InFlight /\ calls[c].at = "issue"
  BY SessionFrames DEF SessionsOK, ServerOK, IssueTokens, At
<1>1. /\ tokens' = Append(tokens, t)
      /\ calls' = [calls EXCEPT ![c].at = "done", ![c].status = "ok", ![c].set = n, ![c].grant = n]
      /\ UNCHANGED <<user, fresh, codes, mails, inbox, faults>>
  BY DEF IssueTokens
<1>2. t \in Token
  BY <1>0 DEF Token, CallsOK, CallType, Fits, Opening
<1>3. tokens' \in Seq(Token) /\ Len(tokens)' = Len(tokens) + 1 /\ Grow
  BY <1>0, <1>1, <1>2, TokensGrow DEF Grow, Counts
<1>4. n \in Ids' /\ calls[c] \in CallType' /\ Fits(c, calls[c])
  BY <1>0, <1>3, CallTypeGrows DEF Ids, CallsOK, Grow, Counts
<1>5. Touches(c) /\ calls'[c] = [calls[c] EXCEPT !.at = "done", !.status = "ok", !.set = n, !.grant = n]
  BY <1>0, <1>1 DEF Touches, InFlight
<1>6. calls'[c] \in CallType' /\ Fits(c, calls'[c])
  <2> HIDE DEF n
  <2> QED
    BY <1>4, <1>5 DEF CallType, Fits, Opening
<1>7. CallsOK'
  BY <1>0, <1>3, <1>5, <1>6, OneCall
<1>8. UserOK'
  BY <1>1, SessionFrames
<1> QED
  BY <1>0, <1>1, <1>3, <1>7, <1>8 DEF SessionsOK, ServerOK, Counts

(* Revoking everything keeps the table a table. *)
LEMMA RevokeAllTypes ==
  ASSUME tokens \in Seq(Token)
  PROVE  RevokeAll \in Seq(Token) /\ Len(RevokeAll) = Len(tokens)
<1>1. /\ DOMAIN RevokeAll = DOMAIN tokens /\ RevokeAll = [i \in DOMAIN tokens |-> RevokeAll[i]]
      /\ \A i \in DOMAIN tokens : RevokeAll[i] = [tokens[i] EXCEPT !.status = "revoked"]
  BY DEF RevokeAll
<1>2. \A i \in DOMAIN tokens : RevokeAll[i] \in Token
  BY <1>1, TokensStay DEF Token
<1> QED
  BY <1>1, <1>2, TokensRewritten

(* Steps that rewrite the table, or leave it. *)
LEMMA TableFrame ==
  ASSUME SessionsOK, tokens' \in Seq(Token), Len(tokens') = Len(tokens), CallsOK', UserOK',
         UNCHANGED <<fresh, codes, mails, inbox, faults>>
  PROVE  ServerOK' /\ Grow
BY SessionFrames DEF SessionsOK, ServerOK, Grow, Counts

LEMMA ResetTypes ==
  ASSUME SessionsOK, ResetPassword
  PROVE  ServerOK' /\ Grow
<1> USE DEF At
<1>0. /\ CallsOK /\ Counts /\ UserOK /\ tokens \in Seq(Token)
      /\ "reset" \in InFlight /\ calls["reset"].pw \in Passwords
      /\ UNCHANGED <<fresh, codes, mails, inbox, faults>>
  BY SessionFrames DEF SessionsOK, ServerOK, ResetPassword, CallsOK, Fits
<1>1. CASE /\ UNCHANGED tokens
           /\ \/ \E step \in {"password", "clear", "revokeAll"} : Go("reset", step)
              \/ Answer("reset", "401")
  <2>1. CallsOK'
    BY <1>0, <1>1, CallGoes
  <2>2. \/ UNCHANGED user
        \/ user' = [user EXCEPT !.password = calls["reset"].pw]
        \/ user' = [user EXCEPT !.otp = 0, !.otpLive = FALSE]
    BY <1>0 DEF ResetPassword
  <2>3. UserOK'
    <3>1. CASE UNCHANGED user
      BY <1>0, <3>1 DEF UserOK
    <3>2. CASE user' = [user EXCEPT !.password = calls["reset"].pw]
      BY <1>0, <3>2 DEF UserOK
    <3>3. CASE user' = [user EXCEPT !.otp = 0, !.otpLive = FALSE]
      BY <1>0, <3>3, 0 \in 0 .. codes DEF UserOK, Counts
    <3> QED
      BY <2>2, <3>1, <3>2, <3>3
  <2> QED
    BY <1>0, <1>1, <2>1, <2>3, TableFrame
<1>2. CASE tokens' = RevokeAll /\ UNCHANGED user
            /\ calls' = [c \in InFlight |->
                 IF c = "reset" THEN [calls[c] EXCEPT !.at = "done", !.status = "ok"]
                                ELSE [calls[c] EXCEPT !.late = @ \/ SigningIn(c)]]
  <2>1. tokens' \in Seq(Token) /\ Len(tokens') = Len(tokens)
    BY <1>0, <1>2, RevokeAllTypes
  <2>2. InFlight' = InFlight /\ CallType' = CallType
    BY <1>0, <1>2, <2>1 DEF InFlight, CallType, Ids, Counts
  <2>3. ASSUME NEW c \in InFlight PROVE calls'[c] \in CallType /\ Fits(c, calls'[c])
    <3>0. calls[c] \in CallType /\ Fits(c, calls[c])
      BY <1>0, <2>3 DEF CallsOK
    <3>1. CASE c = "reset"
      <4>1. calls'[c] = [calls[c] EXCEPT !.at = "done", !.status = "ok"]
        BY <1>2, <2>3, <3>1
      <4> QED
        BY <3>0, <4>1 DEF CallType, Fits, Opening
    <3>2. CASE c # "reset"
      <4>1. PICK b \in BOOLEAN : calls'[c] = [calls[c] EXCEPT !.late = b]
        BY <1>2, <2>3, <3>0, <3>2 DEF CallType, SigningIn
      <4> QED
        BY <3>0, <4>1 DEF CallType, Fits, Opening
    <3> QED
      BY <3>1, <3>2
  <2>4. CallsOK'
    BY <1>0, <2>2, <2>3 DEF CallsOK, Fits
  <2>5. UserOK'
    BY <1>0, <1>2 DEF UserOK
  <2> QED
    BY <1>0, <2>1, <2>4, <2>5, TableFrame
<1> QED
  BY <1>1, <1>2 DEF ResetPassword

LEMMA RefreshTypes ==
  ASSUME SessionsOK, ValidateRefreshToken \/ ReuseAlarm
  PROVE  ServerOK' /\ Grow
<1> USE DEF At
<1>0. /\ CallsOK /\ Counts /\ tokens \in Seq(Token) /\ "refresh" \in InFlight
      /\ calls["refresh"] \in CallType /\ Fits("refresh", calls["refresh"])
      /\ UNCHANGED <<user, fresh, codes, mails, inbox, faults>>
      /\ UserOK'
  BY SessionFrames DEF SessionsOK, ServerOK, ValidateRefreshToken, ReuseAlarm, CallsOK
<1> DEFINE r == calls["refresh"]
           n == r.cookie
<1>1. ASSUME CallsOK', UNCHANGED tokens PROVE ServerOK' /\ Grow
  BY <1>0, <1>1, TableFrame
<1>2. ASSUME calls'["refresh"] \in CallType, Fits("refresh", calls'["refresh"]),
             UNCHANGED tokens, Touches("refresh")
      PROVE  ServerOK' /\ Grow
  <2>1. CallType' = CallType /\ Grow
    BY <1>0, <1>2 DEF CallType, Ids, Grow, Counts
  <2> QED
    BY <1>0, <1>1, <1>2, <2>1, OneCall
<1>3. CASE ReuseAlarm
  <2>1. tokens' \in Seq(Token) /\ Len(tokens') = Len(tokens)
    BY <1>0, <1>3, RevokeAllTypes DEF ReuseAlarm
  <2>2. Touches("refresh") /\ calls'["refresh"] = [r EXCEPT !.at = "done", !.status = "401"]
    BY <1>0, <1>3 DEF ReuseAlarm, Answer, Touches, InFlight
  <2>3. calls'["refresh"] \in CallType /\ Fits("refresh", calls'["refresh"])
    BY <1>0, <2>2 DEF CallType, Fits, Opening
  <2>4. CallType' = CallType /\ Grow
    BY <1>0, <2>1 DEF CallType, Ids, Grow, Counts
  <2> QED
    BY <1>0, <2>1, <2>2, <2>3, <2>4, OneCall, TableFrame
<1>4. CASE ValidateRefreshToken
  <2>0. UNCHANGED tokens
    BY <1>4 DEF ValidateRefreshToken
  <2>1. CASE Go("refresh", "alarm") \/ Answer("refresh", "401")
    BY <1>0, <1>1, <2>0, <2>1, CallGoes
  <2>2. CASE calls' = [calls EXCEPT !["refresh"].at = "done", !["refresh"].status = "401",
                                   !["refresh"].set = 0]
    <3>1. Touches("refresh")
            /\ calls'["refresh"] = [r EXCEPT !.at = "done", !.status = "401", !.set = 0]
      BY <1>0, <2>2 DEF Touches, InFlight
    <3>2. 0 \in Ids
      BY <1>0 DEF Ids, Counts
    <3>3. calls'["refresh"] \in CallType /\ Fits("refresh", calls'["refresh"])
      BY <1>0, <3>1, <3>2 DEF CallType, Fits, Opening
    <3> QED
      BY <1>2, <2>0, <3>1, <3>3
  <2>3. CASE /\ n # 0
             /\ calls' = [calls EXCEPT !["refresh"].at = "revoke", !["refresh"].pw = tokens[n].pw,
                                       !["refresh"].late = tokens[n].late]
    <3>1. Touches("refresh")
            /\ calls'["refresh"] = [r EXCEPT !.at = "revoke", !.pw = tokens[n].pw, !.late = tokens[n].late]
      BY <1>0, <2>3 DEF Touches, InFlight
    <3>2. n \in DOMAIN tokens
      BY <1>0, <2>3, TokensStay DEF CallType, Ids, Counts
    <3>3. tokens[n].pw \in Passwords /\ tokens[n].late \in BOOLEAN
      BY <1>0, <3>2, TokensStay DEF Token
    <3>4. calls'["refresh"] \in CallType /\ Fits("refresh", calls'["refresh"])
      BY <1>0, <3>1, <3>3 DEF CallType, Fits, Opening
    <3> QED
      BY <1>2, <2>0, <3>1, <3>4
  <2> QED
    BY <1>4, <2>1, <2>2, <2>3 DEF ValidateRefreshToken
<1> QED
  BY <1>3, <1>4

LEMMA RevokeTypes ==
  ASSUME SessionsOK, NEW c \in {"refresh", "logout"}, RevokeRefreshToken(c)
  PROVE  ServerOK' /\ Grow
<1>0. /\ CallsOK /\ tokens \in Seq(Token) /\ c \in InFlight /\ calls[c].at = "revoke"
      /\ calls[c] \in CallType /\ Fits(c, calls[c])
      /\ tokens' = [tokens EXCEPT ![calls[c].cookie].status = "revoked"]
      /\ UNCHANGED <<user, fresh, codes, mails, inbox, faults>> /\ UserOK'
  BY SessionFrames DEF SessionsOK, ServerOK, CallsOK, RevokeRefreshToken, At
<1>1. tokens' \in Seq(Token) /\ Len(tokens') = Len(tokens)
  <2> DEFINE f == [tokens EXCEPT ![calls[c].cookie].status = "revoked"]
  <2>1. /\ DOMAIN f = DOMAIN tokens /\ f = [i \in DOMAIN tokens |-> f[i]]
        /\ \A i \in DOMAIN tokens : f[i] \in {tokens[i], [tokens[i] EXCEPT !.status = "revoked"]}
    OBVIOUS
  <2>2. \A i \in DOMAIN tokens : f[i] \in Token
    BY <1>0, <2>1, TokensStay DEF Token
  <2> HIDE DEF f
  <2>3. f \in Seq(Token) /\ Len(f) = Len(tokens)
    BY <1>0, <2>1, <2>2, TokensRewritten
  <2> QED
    BY <1>0, <2>3 DEF f
<1>2. Grow /\ CallType' = CallType
  <2>1. Counts /\ codes' = codes
    BY <1>0, SessionFrames
  <2>2. Ids' = Ids
    BY <1>1 DEF Ids
  <2> QED
    BY <1>1, <2>1, <2>2 DEF Grow, Counts, CallType
<1>3. PICK r \in {[calls[c] EXCEPT !.at = "issue"], [calls[c] EXCEPT !.at = "done", !.status = "ok"]} :
         Touches(c) /\ calls'[c] = r
  BY <1>0 DEF RevokeRefreshToken, Go, Answer, Touches, InFlight
<1>4. r \in CallType /\ Fits(c, r)
  BY <1>0 DEF CallType, Fits, Opening
<1>5. CallsOK'
  BY <1>0, <1>2, <1>3, <1>4, OneCall
<1> QED
  BY <1>0, <1>1, <1>5, TableFrame

LEMMA AnswerTypes ==
  ASSUME SessionsOK, NEW c \in Calls, (c = "logout" /\ Logout) \/ ServeQuery(c) \/ ServerError(c) \/ LoseAnswer(c)
  PROVE  ServerOK' /\ Grow
<1>0. /\ CallsOK /\ Counts /\ c \in InFlight
      /\ calls[c] \in CallType /\ Fits(c, calls[c])
      /\ UNCHANGED <<user, tokens, fresh, codes, mails, inbox>> /\ UserOK'
      /\ faults' \in 0 .. MaxFaults
  BY SessionFrames, BoundsAssumption
     DEF SessionsOK, ServerOK, CallsOK, Logout, ServeQuery, ServerError, LoseAnswer, At, AtServer
<1>1. Grow /\ CallType' = CallType
  BY <1>0 DEF Grow, Counts, CallType, Ids
<1>2. SUFFICES CallsOK'
  BY <1>0, <1>1 DEF SessionsOK, ServerOK
<1>3. CASE \E code \in {"ok", "401", "500"} : Answer(c, code)
  BY <1>0, <1>3, CallGoes
<1>4. ASSUME NEW r \in CallType, Fits(c, r), calls' = [calls EXCEPT ![c] = r] PROVE CallsOK'
  <2>1. Touches(c) /\ calls'[c] = r
    BY <1>0, <1>4 DEF Touches, InFlight
  <2> QED
    BY <1>0, <1>1, <1>4, <2>1, OneCall
<1>5. CASE calls' = [calls EXCEPT ![c].status = "lost", ![c].set = Null, ![c].grant = 0]
  <2> DEFINE r == [calls[c] EXCEPT !.status = "lost", !.set = Null, !.grant = 0]
  <2>0. 0 \in Ids
    BY <1>0 DEF Ids, Counts
  <2>1. r \in CallType
    BY <1>0, <2>0 DEF CallType
  <2>2. r.at = calls[c].at /\ r.pw = calls[c].pw /\ r.code = calls[c].code
    BY <1>0 DEF CallType
  <2>3. calls' = [calls EXCEPT ![c] = r]
    BY <1>5
  <2> HIDE DEF r
  <2>4. Fits(c, r)
    BY <1>0, <2>2 DEF Fits
  <2> QED
    BY <1>4, <2>1, <2>3, <2>4
<1>6. CASE /\ c = "logout" 
           /\ calls' = [calls EXCEPT
                 !["logout"].set = 0,
                 !["logout"].at = IF calls["logout"].cookie = 0 THEN "done" ELSE "revoke",
                 !["logout"].status = IF calls["logout"].cookie = 0 THEN "ok" ELSE @]
  <2> DEFINE r == [calls["logout"] EXCEPT
                      !.set = 0,
                      !.at = IF calls["logout"].cookie = 0 THEN "done" ELSE "revoke",
                      !.status = IF calls["logout"].cookie = 0 THEN "ok" ELSE @]
  <2>0. 0 \in Ids
    BY <1>0 DEF Ids, Counts
  <2>1. r \in {[calls[c] EXCEPT !.set = 0, !.at = "done", !.status = "ok"],
                 [calls[c] EXCEPT !.set = 0, !.at = "revoke"]}
    BY <1>0, <1>6 DEF CallType
  <2> HIDE DEF r
  <2>3. r \in CallType /\ Fits(c, r)
    <3>1. CASE r = [calls[c] EXCEPT !.set = 0, !.at = "done", !.status = "ok"]
      BY <1>0, <1>6, <2>0, <3>1 DEF CallType, Fits, Opening
    <3>2. CASE r = [calls[c] EXCEPT !.set = 0, !.at = "revoke"]
      BY <1>0, <1>6, <2>0, <3>2 DEF CallType, Fits, Opening
    <3> QED
      BY <2>1, <3>1, <3>2
  <2>2. calls' = [calls EXCEPT ![c] = r]
    BY <1>6 DEF r
  <2> QED
    BY <1>4, <2>2, <2>3
<1> QED
  BY <1>3, <1>5, <1>6 DEF Logout, ServeQuery, ServerError, LoseAnswer

LEMMA MailTypes ==
  ASSUME SessionsOK, ExpireCode \/ \E n \in mails : ProcessMail(n)
  PROVE  ServerOK' /\ Grow
<1>0. Counts /\ UserOK /\ CallsOK /\ UNCHANGED <<tokens, fresh, codes, calls, faults>>
  BY SessionFrames DEF SessionsOK, ServerOK, ExpireCode, ProcessMail
<1>1. CallsOK' /\ Grow
  BY <1>0 DEF CallsOK, CallType, Ids, Grow, Counts, InFlight, Fits
<1>2. UserOK'
  BY <1>0 DEF ExpireCode, ProcessMail, UserOK
<1>3. mails' \subseteq 1 .. codes /\ inbox' \subseteq 1 .. codes
  BY DEF ExpireCode, ProcessMail, SessionsOK, ServerOK
<1> QED
  BY <1>0, <1>1, <1>2, <1>3 DEF SessionsOK, ServerOK

LEMMA ServeTypes ==
  ASSUME SessionsOK, NEW c \in Calls, Serve(c)
  PROVE  SessionsOK'
<1>1. ServerOK' /\ Grow
  <2>1. CASE c \in {"refresh", "logout"} /\ RevokeRefreshToken(c)
    BY <2>1, RevokeTypes
  <2>2. CASE c \in {"login", "verify", "refresh"} /\ IssueTokens(c)
    BY <2>2, IssueTypes
  <2>3. CASE ResetPassword \/ ValidateRefreshToken \/ ReuseAlarm
    BY <2>3, ResetTypes, RefreshTypes
  <2>4. CASE (c = "logout" /\ Logout) \/ ServeQuery(c)
    BY <2>4, AnswerTypes
  <2>5. CASE \/ Signup \/ Resend \/ RequestPasswordReset(c) \/ StoreCode(c) \/ QueueMail(c)
             \/ Login \/ VerifyOTP
    <3>1. Grow
      BY <2>5, SessionFrames
         DEF Grow, Counts, Signup, Resend, RequestPasswordReset, StoreCode, QueueMail, Login, VerifyOTP
    <3> QED
      BY <2>5, <3>1, SignupTypes, CodeTypes, SignInTypes
  <2> QED
    BY <2>1, <2>2, <2>3, <2>4, <2>5 DEF Serve, Handle
<1> QED
  BY <1>1, SessionFrames DEF Serve, SessionsOK

(* The client's steps: requests that leave, answers that are used. *)
server == <<user, tokens, fresh, codes, mails, inbox, faults>>

LEMMA ClientFrames ==
  ASSUME SessionsOK
  PROVE  /\ CallsOK' /\ UNCHANGED server => ServerOK'
         /\ UNCHANGED <<tokens, codes>> => CallType' = CallType /\ Ids' = Ids
<1>1. ASSUME CallsOK', UNCHANGED server PROVE ServerOK'
  BY <1>1, SessionFrames DEF server
<1>2. UNCHANGED <<tokens, codes>> => CallType' = CallType /\ Ids' = Ids
  BY DEF CallType, Ids
<1> QED
  BY <1>1, <1>2

LEMMA RequestTypes ==
  ASSUME SessionsOK, NEW pw \in Passwords \cup {Null}, NEW code \in 0 .. codes
  PROVE  /\ Request(pw, code) \in CallType
         /\ Request(pw, code).at = "arrive" /\ Request(pw, code).pw = pw
<1>1. cookie \in Ids /\ store.token \in Ids /\ 0 \in Ids /\ 0 \in 0 .. codes
  BY SessionFrames DEF SessionsOK, ClientOK, Ids, Counts
<1>2. NewCall \in CallType /\ NewCall.at = "arrive"
  BY <1>1 DEF NewCall, CallType
<1> HIDE DEF NewCall
<1>3. /\ Request(pw, code).cookie = cookie /\ Request(pw, code).access = store.token
      /\ Request(pw, code).pw = pw /\ Request(pw, code).at = "arrive"
  BY <1>2 DEF Request, CallType
<1>4. Request(pw, code) \in CallType
  BY <1>1, <1>2 DEF Request, CallType
<1> QED
  BY <1>3, <1>4

LEMMA SendTypes ==
  ASSUME SessionsOK, NEW c \in Calls, NEW pw \in Passwords \cup {Null}, NEW code \in 0 .. codes,
         c \in {"login", "signup", "reset"} => pw \in Passwords,
         Send(c, pw, code), UNCHANGED <<tokens, codes>>
  PROVE  CallsOK'
<1>1. DOMAIN calls' = DOMAIN calls \cup {c} /\ c \notin DOMAIN calls
  BY DEF Send, InFlight
<1>2. calls'[c] = Request(pw, code) /\ \A d \in DOMAIN calls : calls'[d] = calls[d]
  BY <1>1 DEF Send, InFlight
<1>3. Request(pw, code) \in CallType /\ Fits(c, Request(pw, code))
  BY RequestTypes DEF Fits, Opening
<1> QED
  BY <1>1, <1>2, <1>3, ClientFrames DEF CallsOK, InFlight, SessionsOK, ServerOK, Fits

LEMMA SubmitTypes ==
  ASSUME SessionsOK, NEW c \in Calls, NEW pw \in Passwords \cup {Null}, NEW code \in 0 .. codes,
         c \in {"login", "signup", "reset"} => pw \in Passwords,
         Submit(c, pw, code), cause' \in BOOLEAN
  PROVE  SessionsOK'
<1>1. UNCHANGED server /\ Send(c, pw, code) /\ UNCHANGED <<tokens, codes>>
  BY DEF Submit, server
<1>2. ServerOK'
  BY <1>1, SendTypes, ClientFrames
<1>3. submits' \in 0 .. MaxSubmits
  BY BoundsAssumption DEF Submit, SessionsOK, ClientOK
<1>4. Ids' = Ids
  BY <1>1, ClientFrames
<1> QED
  BY <1>2, <1>3, <1>4 DEF Submit, SessionsOK, ClientOK

LEMMA PersonTypes ==
  ASSUME SessionsOK, Person
  PROVE  SessionsOK'
<1>0. 0 \in 0 .. codes /\ (\A n \in inbox \cup {0} : n \in 0 .. codes) /\ cause \in BOOLEAN
  BY DEF SessionsOK, ServerOK, ClientOK
<1>1. CASE SubmitLogin \/ SubmitSignup
  <2>1. PICK c \in {"login", "signup"}, pw \in Passwords : Submit(c, pw, 0) /\ UNCHANGED cause
    BY <1>1 DEF SubmitLogin, SubmitSignup
  <2> QED
    BY <1>0, <2>1, SubmitTypes DEF Calls, Forms
<1>2. CASE SubmitOtp
  <2>1. PICK n \in inbox \cup {0} : Submit("verify", Null, n) /\ UNCHANGED cause
    BY <1>2 DEF SubmitOtp
  <2> QED
    BY <1>0, <2>1, SubmitTypes DEF Calls, Forms
<1>3. CASE SubmitReset
  <2>1. PICK n \in inbox \cup {0}, pw \in Passwords : Submit("reset", pw, n) /\ cause' = TRUE
    BY <1>3 DEF SubmitReset
  <2> QED
    BY <1>0, <2>1, SubmitTypes DEF Calls, Forms
<1>4. CASE SubmitRequestReset \/ HandleResendOtp \/ HandleResendCode \/ HandleLogout
  <2>1. PICK c \in {"forgot", "resend", "recode", "logout"} :
           Submit(c, Null, 0) /\ cause' \in BOOLEAN
    BY <1>0, <1>4 DEF SubmitRequestReset, HandleResendOtp, HandleResendCode, HandleLogout
  <2> QED
    BY <1>0, <2>1, SubmitTypes DEF Calls, Forms
<1>5. ASSUME NEW q \in Queries, SendQuery(q) PROVE SessionsOK'
  <2>1. UNCHANGED server /\ UNCHANGED <<tokens, codes>> /\ Send(q, Null, 0) /\ UNCHANGED clientVars
    BY <1>5 DEF SendQuery, server
  <2>2. q \in Calls /\ q \notin {"login", "signup", "reset"}
    BY QueriesAssumption DEF Calls, Forms
  <2>3. ServerOK'
    BY <1>0, <2>1, <2>2, SendTypes, ClientFrames
  <2> QED
    BY <2>1, <2>3, ClientFrames DEF SessionsOK, ClientOK, clientVars
<1>6. CASE FollowLink
  <2>1. CallsOK' /\ UNCHANGED server /\ Ids' = Ids
    BY <1>6, ClientFrames DEF FollowLink, authVars, server, SessionsOK, ServerOK, CallsOK, InFlight, Fits
  <2>2. page' \in Pages /\ cooldown' \in BOOLEAN
    BY <1>6 DEF FollowLink, SessionsOK, ClientOK
  <2> QED
    BY <1>6, <2>1, <2>2, ClientFrames DEF FollowLink, SessionsOK, ClientOK
<1> QED
  BY <1>1, <1>2, <1>3, <1>4, <1>5, <1>6 DEF Person

(* Steps that forget requests, or change those that stay. *)
LEMMA CallsForgotten ==
  ASSUME SessionsOK, UNCHANGED server, DOMAIN calls' \subseteq DOMAIN calls,
         \A d \in DOMAIN calls' : calls'[d] \in CallType /\ Fits(d, calls'[d])
  PROVE  ServerOK' /\ Ids' = Ids
BY ClientFrames DEF CallsOK, InFlight, SessionsOK, ServerOK, Fits, server

LEMMA UnloadedTypes ==
  ASSUME NEW cs, NEW d \in DOMAIN Unloaded(cs), cs[d] \in CallType, Fits(d, cs[d])
  PROVE  Unloaded(cs)[d] \in CallType /\ Fits(d, Unloaded(cs)[d])
<1>1. Unloaded(cs)[d] = [cs[d] EXCEPT !.orphan = TRUE]
  BY DEF Unloaded
<1> QED
  BY <1>1 DEF CallType, Fits

LEMMA WithoutTypes ==
  ASSUME SessionsOK, NEW cs
  PROVE  /\ DOMAIN Without(cs) \subseteq DOMAIN calls
         /\ \A d \in DOMAIN Without(cs) :
               /\ d \notin cs /\ Without(cs)[d] = calls[d]
               /\ Without(cs)[d] \in CallType /\ Fits(d, Without(cs)[d])
BY DEF Without, InFlight, SessionsOK, ServerOK, CallsOK

LEMMA UnloadTypes ==
  ASSUME SessionsOK, NEW cs, DOMAIN cs \subseteq DOMAIN calls,
         \A d \in DOMAIN cs : cs[d] \in CallType /\ Fits(d, cs[d])
  PROVE  /\ DOMAIN Unloaded(cs) \subseteq DOMAIN calls
         /\ \A d \in DOMAIN Unloaded(cs) :
               Unloaded(cs)[d] \in CallType /\ Fits(d, Unloaded(cs)[d])
<1>1. DOMAIN Unloaded(cs) \subseteq DOMAIN cs
  BY DEF Unloaded
<1> QED
  BY <1>1, UnloadedTypes

LEMMA CookieTypes ==
  ASSUME SessionsOK, NEW c \in InFlight
  PROVE  CookieAfter(c) \in Ids /\ calls[c].grant \in Ids /\ calls[c] \in CallType /\ Fits(c, calls[c])
BY DEF CookieAfter, SessionsOK, ServerOK, ClientOK, CallsOK, CallType

LEMMA StartTypes ==
  ASSUME SessionsOK, NEW c \in Calls, StartRefresh(c) \/ AwaitRefresh(c)
  PROVE  SessionsOK'
<1>0. c \in InFlight /\ UNCHANGED server /\ UNCHANGED <<tokens, codes>> /\ CallsOK /\ Counts
  BY SessionFrames DEF StartRefresh, AwaitRefresh, Arrived, At, server, SessionsOK, ServerOK
<1>1. CallType' = CallType /\ Ids' = Ids /\ calls[c] \in CallType /\ Fits(c, calls[c])
  BY <1>0, ClientFrames, CookieTypes
<1>2. CASE AwaitRefresh(c)
  <2>1. CallsOK'
    BY <1>0, <1>2, CallGoes DEF AwaitRefresh
  <2> QED
    BY <1>0, <1>1, <1>2, <2>1, ClientFrames DEF AwaitRefresh, clientVars, SessionsOK, ClientOK
<1>3. CASE StartRefresh(c)
  <2>1. /\ InFlight' = InFlight \cup {"refresh"} /\ "refresh" \notin InFlight
        /\ calls'["refresh"] = Request(Null, 0)
        /\ calls'[c] = [calls[c] EXCEPT !.at = "queued", !.retried = TRUE]
        /\ \A d \in InFlight \ {c} : calls'[d] = calls[d]
    BY <1>0, <1>3 DEF StartRefresh, InFlight
  <2>2. Request(Null, 0) \in CallType /\ Fits("refresh", Request(Null, 0))
    BY <1>0, RequestTypes DEF Fits, Opening, Counts
  <2>3. calls'[c] \in CallType /\ Fits(c, calls'[c])
    BY <1>1, <2>1 DEF CallType, Fits, Opening
  <2>4. \A d \in InFlight' : calls'[d] \in CallType /\ Fits(d, calls'[d])
    BY <1>0, <2>1, <2>2, <2>3 DEF CallsOK
  <2>5. CallsOK'
    BY <1>0, <1>1, <2>1, <2>4 DEF CallsOK, Fits, Calls
  <2>6. cause' \in BOOLEAN /\ refreshing' \in BOOLEAN
    BY <1>3 DEF StartRefresh, SessionsOK, ClientOK
  <2> QED
    BY <1>0, <1>1, <1>3, <2>5, <2>6, ClientFrames DEF StartRefresh, SessionsOK, ClientOK
<1> QED
  BY <1>2, <1>3

LEMMA ReplayedTypes ==
  ASSUME SessionsOK, NEW token \in Ids, NEW cookie1 \in Ids
  PROVE  /\ DOMAIN Replayed(token, cookie1) \subseteq DOMAIN calls
         /\ \A d \in DOMAIN Replayed(token, cookie1) :
               Replayed(token, cookie1)[d] \in CallType /\ Fits(d, Replayed(token, cookie1)[d])
<1> DEFINE f == Replayed(token, cookie1)
<1>1. DOMAIN f \subseteq DOMAIN calls
  BY DEF Replayed, InFlight
<1>2. ASSUME NEW d \in DOMAIN f PROVE f[d] \in CallType /\ Fits(d, f[d])
  <2>0. d \in InFlight /\ calls[d] \in CallType /\ Fits(d, calls[d])
    BY <1>1, <1>2, CookieTypes DEF InFlight
  <2>1. CASE At(d, "queued")
    <3> DEFINE r == Request(calls[d].pw, calls[d].code)
    <3>1. f[d] = [r EXCEPT !.access = token, !.cookie = cookie1, !.retried = calls[d].retried]
      BY <1>2, <2>1 DEF Replayed
    <3>2. calls[d].pw \in Passwords \cup {Null} /\ calls[d].code \in 0 .. codes
            /\ calls[d].retried \in BOOLEAN
      BY <2>0 DEF CallType
    <3>3. r \in CallType /\ r.at = "arrive" /\ r.pw = calls[d].pw
      BY <3>2, RequestTypes
    <3> HIDE DEF r
    <3>4. f[d] \in CallType /\ f[d].at = "arrive" /\ f[d].pw = calls[d].pw
      BY <3>1, <3>2, <3>3 DEF CallType
    <3> QED
      BY <2>0, <3>4 DEF Fits, Opening
  <2>2. CASE ~At(d, "queued")
    BY <1>2, <2>0, <2>2 DEF Replayed
  <2> QED
    BY <2>1, <2>2
<1> QED
  BY <1>1, <1>2

LEMMA RefreshDoneTypes ==
  ASSUME SessionsOK, RefreshDone
  PROVE  SessionsOK'
<1>0. "refresh" \in InFlight /\ UNCHANGED server /\ UNCHANGED <<tokens, codes>>
  BY DEF RefreshDone, Arrived, At, server
<1>1. /\ CookieAfter("refresh") \in Ids /\ calls["refresh"].grant \in Ids
      /\ cookie' = CookieAfter("refresh") /\ cookie' \in Ids
  BY <1>0, CookieTypes DEF RefreshDone
<1>2. ServerOK' /\ Ids' = Ids
  <2>1. CASE calls' = Replayed(calls["refresh"].grant, cookie')
    BY <1>0, <1>1, <2>1, ReplayedTypes, CallsForgotten
  <2>2. CASE calls' = Rejected
    BY <1>0, <2>2, WithoutTypes, CallsForgotten DEF Rejected
  <2>3. CASE calls' = Unloaded(Rejected)
    <3>1. /\ DOMAIN Rejected \subseteq DOMAIN calls
          /\ \A d \in DOMAIN Rejected : Rejected[d] \in CallType /\ Fits(d, Rejected[d])
      BY WithoutTypes DEF Rejected
    <3> QED
      BY <1>0, <2>3, <3>1, UnloadTypes, CallsForgotten
  <2> QED
    BY <2>1, <2>2, <2>3 DEF RefreshDone
<1>3. store' \in [auth : BOOLEAN, token : Ids]
  <2>1. store \in [auth : BOOLEAN, token : Ids] /\ SignedOut \in [auth : BOOLEAN, token : Ids]
    BY SessionFrames DEF SessionsOK, ClientOK, SignedOut, Ids, Counts
  <2> QED
    BY <1>1, <2>1 DEF RefreshDone
<1>4. page' \in Pages /\ cooldown' \in BOOLEAN /\ refreshing' \in BOOLEAN
  BY DEF RefreshDone, SessionsOK, ClientOK, Pages
<1>5. UNCHANGED <<submits, expiries, cause>>
  BY DEF RefreshDone
<1> QED
  BY <1>1, <1>2, <1>3, <1>4, <1>5 DEF SessionsOK, ClientOK

LEMMA SettleTypes ==
  ASSUME SessionsOK, NEW c \in Calls, Receive(c), ~(StartRefresh(c) \/ AwaitRefresh(c)),
         ~(c = "refresh" /\ RefreshDone)
  PROVE  SessionsOK'
<1>0. /\ c \in InFlight /\ UNCHANGED server /\ calls' = Without({c})
      /\ cookie' \in {cookie, CookieAfter(c)}
      /\ UNCHANGED <<refreshing, submits, expiries, cause>>
  BY DEF Receive, OrphanAnswered, QueryAnswered, SignInAnswered, CodeAnswered, ResetAnswered,
         LogoutAnswered, Settle, Arrived, At, server
<1>1. CookieAfter(c) \in Ids /\ calls[c].grant \in Ids
  BY <1>0, CookieTypes
<1>2. ServerOK' /\ Ids' = Ids
  BY <1>0, WithoutTypes, CallsForgotten
<1>3. /\ store \in [auth : BOOLEAN, token : Ids] /\ SignedOut \in [auth : BOOLEAN, token : Ids]
      /\ page \in Pages /\ cooldown \in BOOLEAN /\ cookie \in Ids
  BY SessionFrames DEF SessionsOK, ClientOK, SignedOut, Ids, Counts
<1>4. store' \in [auth : BOOLEAN, token : Ids] /\ page' \in Pages /\ cooldown' \in BOOLEAN
  <2>1. CASE OrphanAnswered(c)
    BY <1>3, <2>1 DEF OrphanAnswered
  <2>2. CASE c \in Queries /\ QueryAnswered(c)
    BY <1>3, <2>2 DEF QueryAnswered
  <2>3. CASE SignInAnswered(c)
    <3> DEFINE new == [auth |-> TRUE, token |-> calls[c].grant]
    <3>1. (store' = new \/ store' = store) /\ page' \in {page, "dashboard"} /\ UNCHANGED cooldown
      BY <2>3 DEF SignInAnswered, SetAuth
    <3>2. new \in [auth : BOOLEAN, token : Ids]
      BY <1>1
    <3> QED
      BY <1>3, <3>1, <3>2 DEF Pages
  <2>4. CASE CodeAnswered(c)
    <3>1. /\ UNCHANGED store
          /\ page' \in {page, "verify", "reset"}
          /\ \E here : cooldown' = (cooldown \/ here)
      BY <2>4 DEF CodeAnswered
    <3> QED
      BY <1>3, <3>1 DEF Pages
  <2>5. CASE ResetAnswered \/ LogoutAnswered
    BY <1>3, <2>5 DEF ResetAnswered, LogoutAnswered, Pages
  <2> QED
    BY <2>1, <2>2, <2>3, <2>4, <2>5 DEF Receive
<1> QED
  BY <1>0, <1>1, <1>2, <1>3, <1>4 DEF SessionsOK, ClientOK

LEMMA EnvironmentTypes ==
  ASSUME SessionsOK, Environment
  PROVE  SessionsOK'
<1>0. CallsOK /\ Counts /\ tokens \in Seq(Token) /\ Ids = 0 .. Len(tokens)
  BY SessionFrames DEF SessionsOK, ServerOK, Ids
<1>1. CASE UNCHANGED clientVars /\ (ExpireCode \/ \E n \in mails : ProcessMail(n))
  BY <1>1, MailTypes, SessionFrames DEF SessionsOK
<1>2. ASSUME NEW c \in Calls, ServerError(c) \/ LoseAnswer(c), UNCHANGED clientVars PROVE SessionsOK'
  BY <1>2, AnswerTypes, SessionFrames DEF SessionsOK
<1>3. CASE AccessExpires \/ CountdownEnds
  <2>1. CallsOK' /\ Ids' = Ids /\ UNCHANGED <<user, tokens, codes, mails, inbox, calls, faults>>
    BY <1>0, <1>3 DEF AccessExpires, CountdownEnds, authVars, CallsOK, CallType, Ids, InFlight, Fits
  <2>2. fresh' \in 1 .. Len(tokens) + 1 /\ expiries' \in 0 .. MaxExpiries
    BY <1>0, <1>3, BoundsAssumption
       DEF AccessExpires, CountdownEnds, authVars, Counts, SessionsOK, ServerOK, ClientOK
  <2>3. ServerOK'
    BY <1>0, <2>1, <2>2, SessionFrames DEF SessionsOK, ServerOK
  <2> QED
    BY <1>3, <2>1, <2>2, <2>3 DEF AccessExpires, CountdownEnds, SessionsOK, ClientOK
<1>4. CASE SessionExpires
  <2> DEFINE f == [i \in DOMAIN tokens |->
                     IF tokens[i].status = "live" THEN [tokens[i] EXCEPT !.status = "expired"]
                                                  ELSE tokens[i]]
  <2>1. /\ DOMAIN f = DOMAIN tokens /\ f = [i \in DOMAIN tokens |-> f[i]]
        /\ \A i \in DOMAIN tokens : f[i] \in {tokens[i], [tokens[i] EXCEPT !.status = "expired"]}
    OBVIOUS
  <2>2. \A i \in DOMAIN tokens : f[i] \in Token
    BY <1>0, <2>1, TokensStay DEF Token
  <2>3. tokens' = f /\ fresh' = Len(tokens) + 1 /\ UNCHANGED <<user, codes, mails, inbox, calls, faults>>
    BY <1>4 DEF SessionExpires
  <2> HIDE DEF f
  <2>4. tokens' \in Seq(Token) /\ Len(tokens') = Len(tokens)
    BY <1>0, <2>1, <2>2, <2>3, TokensRewritten
  <2>5. Ids' = Ids /\ 0 \in Ids /\ fresh' \in 1 .. Len(tokens') + 1
    BY <1>0, <2>3, <2>4 DEF Ids, Counts
  <2>6. CallsOK' /\ UserOK'
    BY <1>0, <2>3, <2>5, SessionFrames DEF CallsOK, CallType, InFlight, Fits
  <2>7. ServerOK'
    BY <2>3, <2>4, <2>5, <2>6 DEF SessionsOK, ServerOK
  <2>8. expiries' \in 0 .. MaxExpiries
    BY <1>4, BoundsAssumption DEF SessionExpires, SessionsOK, ClientOK
  <2> QED
    BY <1>4, <2>5, <2>7, <2>8 DEF SessionExpires, SessionsOK, ClientOK
<1>5. CASE Reload
  <2>1. /\ DOMAIN calls' \subseteq DOMAIN calls
        /\ \A d \in DOMAIN calls' : calls'[d] \in CallType /\ Fits(d, calls'[d])
    BY <1>0, <1>5, UnloadTypes DEF Reload, CallsOK, InFlight
  <2>2. UNCHANGED <<tokens, codes>> /\ CallType' = CallType /\ Ids' = Ids
    BY <1>5, ClientFrames DEF Reload
  <2>3. CallsOK'
    BY <1>0, <2>1, <2>2 DEF CallsOK, InFlight, Fits
  <2>4. faults' \in 0 .. MaxFaults /\ page' \in Pages
    BY <1>5, BoundsAssumption DEF Reload, SessionsOK, ServerOK, ClientOK, Pages
  <2>5. ServerOK'
    BY <1>5, <2>3, <2>4, SessionFrames DEF Reload, SessionsOK, ServerOK
  <2> QED
    BY <1>5, <2>2, <2>4, <2>5 DEF Reload, SessionsOK, ClientOK
<1> QED
  BY <1>1, <1>2, <1>3, <1>4, <1>5 DEF Environment

LEMMA SessionsStep == SessionsOK /\ [NextPortal]_portalVars => SessionsOK'
<1> SUFFICES ASSUME SessionsOK, [NextPortal]_portalVars PROVE SessionsOK'
  OBVIOUS
<1>1. ASSUME NEW c \in Calls, Receive(c) PROVE SessionsOK'
  BY <1>1, StartTypes, RefreshDoneTypes, SettleTypes
<1>2. CASE UNCHANGED portalVars
  BY <1>2 DEF portalVars, authVars, clientVars, SessionsOK, ServerOK, ClientOK, UserOK, CallsOK,
              CallType, Ids, InFlight, Fits
<1> QED
  BY <1>1, <1>2, ServeTypes, PersonTypes, EnvironmentTypes DEF NextPortal

LEMMA SessionsInit == InitPortal => SessionsOK
<1> SUFFICES ASSUME InitPortal PROVE SessionsOK
  OBVIOUS
<1>1. /\ calls = <<>> /\ fresh = 1 /\ codes = 0 /\ mails = {} /\ inbox = {} /\ faults = 0
      /\ cooldown = FALSE /\ refreshing = FALSE /\ submits = 0 /\ expiries = 0 /\ cause = FALSE
  BY DEF InitPortal
<1>2. CallsOK
  BY <1>1 DEF CallsOK, InFlight
<1>3. submits \in 0 .. MaxSubmits /\ expiries \in 0 .. MaxExpiries /\ faults \in 0 .. MaxFaults
  BY <1>1, BoundsAssumption
<1>4. CASE user = NoUser /\ tokens = <<>> /\ cookie = 0 /\ store = SignedOut /\ page = "signup"
  <2>1. UserOK
    BY <1>1, <1>4 DEF UserOK, NoUser
  <2>2. tokens \in Seq(Token) /\ Len(tokens) = 0
    BY <1>4
  <2>3. ServerOK
    BY <1>1, <1>2, <1>3, <2>1, <2>2 DEF ServerOK
  <2>4. cookie \in Ids /\ store \in [auth : BOOLEAN, token : Ids] /\ page \in Pages
    BY <1>4, <2>2 DEF Ids, SignedOut, Pages
  <2> QED
    BY <1>1, <1>3, <2>3, <2>4 DEF SessionsOK, ClientOK
<1>5. ASSUME NEW pw \in Passwords,
             user = [NoUser EXCEPT !.exists = TRUE, !.password = pw, !.verified = TRUE, !.hasKey = TRUE],
             tokens = <<[status |-> "live", pw |-> pw, late |-> FALSE]>>, cookie = 1,
             store = [auth |-> TRUE, token |-> 1], page \in {"dashboard", "forgot"}
      PROVE  SessionsOK
  <2>0. user = [exists |-> TRUE, password |-> pw, verified |-> TRUE,
                 otp |-> 0, otpLive |-> FALSE, hasKey |-> TRUE]
    BY <1>5 DEF NoUser
  <2>1. UserOK
    <3>1. 0 \in 0 .. codes /\ pw \in Passwords
      BY <1>1, <1>5
    <3> QED
      BY <2>0, <3>1 DEF UserOK
  <2>2. tokens \in Seq(Token) /\ Len(tokens) = 1
    BY <1>5 DEF Token
  <2>3. ServerOK
    BY <1>1, <1>2, <1>3, <2>1, <2>2 DEF ServerOK
  <2>4. 1 \in Ids
    BY <2>2 DEF Ids
  <2>5. cookie \in Ids /\ store \in [auth : BOOLEAN, token : Ids] /\ page \in Pages
    BY <1>5, <2>4 DEF Pages
  <2> QED
    BY <1>1, <1>3, <2>3, <2>5 DEF SessionsOK, ClientOK
<1> QED
  BY <1>4, <1>5 DEF InitPortal

LEMMA AlwaysSessionsOK == Spec => []SessionsOK
<1>1. Init => SessionsOK
  BY SessionsInit DEF Init
<1>2. SessionsOK /\ [Next]_vars => SessionsOK'
  BY SessionsStep, PortalSteps
<1> QED
  BY <1>1, <1>2, PTL DEF Spec

(* The whole dashboard keeps its types: the table of sessions, the codes and *)
(* mails, the requests in flight and what the browser holds of them, and in  *)
(* the areas the caches, forms and rows.                                     *)
THEOREM TypesCorrect == Spec => []TypeOK
<1>1. Init => DeskInv /\ PeopleInv /\ AccountInv /\ PolicyInv
  BY DeskInit, PeopleInit, AccountInit, PolicyInit DEF Init
<1>2. DeskInv /\ PeopleInv /\ AccountInv /\ PolicyInv /\ [Next]_vars
        => (DeskInv /\ PeopleInv /\ AccountInv /\ PolicyInv)'
  BY DeskStep, DeskSteps, PeopleStep, PeopleSteps, AccountStep, AccountSteps, PolicyStep, PolicySteps
<1>3. SessionsOK => PortalTypeOK
  BY TokensStay DEF SessionsOK, ServerOK, ClientOK, UserOK, CallsOK, Token, PortalTypeOK
<1>4. DeskInv /\ PeopleInv /\ AccountInv /\ PolicyInv
        => DeskTypeOK /\ PeopleTypeOK /\ AccountTypeOK /\ PolicyTypeOK
  BY DEF DeskInv, PeopleInv, AccountInv, PolicyInv
<1> QED
  BY <1>1, <1>2, <1>3, <1>4, AlwaysSessionsOK, PTL DEF Spec, TypeOK

-----------------------------------------------------------------------------
(* Waiting for a refresh.  Inductive as it stands but for one thing: the     *)
(* refresh itself never waits, its own 401 is not intercepted.               *)
Waiting(c) == At(c, "queued")

AwaitInv == RefreshIsAwaited /\ ~Waiting("refresh")

(* A step that neither puts a request in the queue nor takes one from it. *)
StillWaiting ==
    /\ \A c \in Calls : Waiting(c)' <=> Waiting(c)
    /\ "refresh" \in InFlight' <=> "refresh" \in InFlight
    /\ "refresh" \in InFlight => calls'["refresh"].orphan = calls["refresh"].orphan
    /\ UNCHANGED refreshing

LEMMA StillAwaited ==
  ASSUME AwaitInv, StillWaiting
  PROVE  AwaitInv'
BY DEF AwaitInv, StillWaiting, RefreshIsAwaited, Waiting, At, Calls

(* A handler's step: it works on its own call, moves it on or answers it, and *)
(* of the others it changes the mark `late' at most.                          *)
KeepsRequest(d) ==
    /\ calls'[d].retried = calls[d].retried /\ calls'[d].orphan = calls[d].orphan
    /\ calls'[d].cookie = calls[d].cookie /\ calls'[d].access = calls[d].access

KeepsAnswer(d) ==
    /\ calls'[d].at = calls[d].at /\ calls'[d].status = calls[d].status
    /\ calls'[d].set = calls[d].set /\ calls'[d].grant = calls[d].grant
    /\ calls'[d].pw = calls[d].pw /\ calls'[d].code = calls[d].code

Served(c) ==
    /\ c \in InFlight /\ InFlight' = InFlight
    /\ calls[c].at \notin {"done", "queued"} /\ calls'[c].at # "queued"
    /\ \A d \in InFlight : KeepsRequest(d) /\ (d # c => KeepsAnswer(d))

LEMMA ServedAlone ==
  ASSUME SessionsOK, NEW c \in InFlight, Touches(c), KeepsRequest(c),
         calls[c].at \notin {"done", "queued"}, calls'[c].at # "queued"
  PROVE  Served(c)
BY DEF Touches, Served, KeepsRequest, KeepsAnswer, InFlight

LEMMA GoServed ==
  ASSUME SessionsOK, NEW c \in InFlight, calls[c].at \notin {"done", "queued"}
  PROVE  /\ \A step : step # "queued" /\ Go(c, step) => Served(c)
         /\ \A code : Answer(c, code) => Served(c)
<1>0. calls[c] \in CallType
  BY CookieTypes
<1>1. ASSUME NEW step, step # "queued", Go(c, step) PROVE Served(c)
  <2>1. Touches(c) /\ calls'[c] = [calls[c] EXCEPT !.at = step]
    BY <1>1 DEF Go, Touches, InFlight
  <2>2. KeepsRequest(c) /\ calls'[c].at # "queued"
    BY <1>0, <1>1, <2>1 DEF KeepsRequest, CallType
  <2> QED
    BY <2>1, <2>2, ServedAlone
<1>2. ASSUME NEW code, Answer(c, code) PROVE Served(c)
  <2>1. Touches(c) /\ calls'[c] = [calls[c] EXCEPT !.at = "done", !.status = code]
    BY <1>2 DEF Answer, Touches, InFlight
  <2>2. KeepsRequest(c) /\ calls'[c].at # "queued"
    BY <1>0, <2>1 DEF KeepsRequest, CallType
  <2> QED
    BY <2>1, <2>2, ServedAlone
<1> QED
  BY <1>1, <1>2

LEMMA EveryServed ==
  ASSUME SessionsOK, NEW c \in Calls, Handle(c)
  PROVE  Served(c)
<1> USE DEF At
<1>1. CASE Signup /\ c = "signup"
  BY <1>1, GoServed DEF Signup
<1>2. CASE (Resend /\ c = "resend") \/ RequestPasswordReset(c) \/ QueueMail(c)
  BY <1>2, GoServed DEF Resend, RequestPasswordReset, QueueMail
<1>3. CASE (Login /\ c = "login") \/ ServeQuery(c)
  BY <1>3, GoServed DEF Login, ServeQuery
<1>4. CASE RevokeRefreshToken(c) \/ (ReuseAlarm /\ c = "refresh")
  BY <1>4, GoServed DEF RevokeRefreshToken, ReuseAlarm
<1>5. CASE StoreCode(c)
  <2>1. c \in InFlight /\ calls[c].at = "code" /\ Touches(c)
          /\ calls'[c] = [calls[c] EXCEPT !.at = "mail", !.code = codes']
    BY <1>5 DEF StoreCode, Touches, InFlight
  <2>2. KeepsRequest(c) /\ calls'[c].at # "queued"
    BY <2>1, CookieTypes DEF KeepsRequest, CallType
  <2> QED
    BY <2>1, <2>2, ServedAlone
<1>6. CASE IssueTokens(c)
  <2> DEFINE n == Len(tokens')
  <2>1. c \in InFlight /\ calls[c].at = "issue" /\ Touches(c)
          /\ calls'[c] = [calls[c] EXCEPT !.at = "done", !.status = "ok", !.set = n, !.grant = n]
    BY <1>6 DEF IssueTokens, Touches, InFlight
  <2> HIDE DEF n
  <2>2. KeepsRequest(c) /\ calls'[c].at # "queued"
    BY <2>1, CookieTypes DEF KeepsRequest, CallType
  <2> QED
    BY <2>1, <2>2, ServedAlone
<1>7. CASE c = "verify" /\ VerifyOTP
  <2>1. CASE Go(c, "key") \/ Go(c, "issue") \/ Answer(c, "401")
    BY <1>7, <2>1, GoServed DEF VerifyOTP
  <2>2. CASE calls' = [calls EXCEPT !["verify"].at = "verify", !["verify"].pw = user.password]
    <3>1. c \in InFlight /\ calls[c].at \notin {"done", "queued"} /\ Touches(c)
            /\ calls'[c] = [calls[c] EXCEPT !.at = "verify", !.pw = user.password]
      BY <1>7, <2>2 DEF VerifyOTP, Touches, InFlight
    <3>2. KeepsRequest(c) /\ calls'[c].at # "queued"
      BY <3>1, CookieTypes DEF KeepsRequest, CallType
    <3> QED
      BY <3>1, <3>2, ServedAlone
  <2> QED
    BY <1>7, <2>1, <2>2 DEF VerifyOTP
<1>8. CASE c = "reset" /\ ResetPassword
  <2>1. CASE Answer(c, "401") \/ Go(c, "password") \/ Go(c, "clear") \/ Go(c, "revokeAll")
    BY <1>8, <2>1, GoServed DEF ResetPassword
  <2>2. CASE /\ At("reset", "revokeAll")
             /\ calls' = [d \in InFlight |->
                 IF d = "reset" THEN [calls[d] EXCEPT !.at = "done", !.status = "ok"]
                                ELSE [calls[d] EXCEPT !.late = @ \/ SigningIn(d)]]
    <3>1. InFlight' = InFlight
      BY <2>2 DEF InFlight
    <3>2. ASSUME NEW d \in InFlight PROVE KeepsRequest(d) /\ (d # c => KeepsAnswer(d))
      <4>0. calls[d] \in CallType
        BY <3>2, CookieTypes
      <4>1. CASE d = c
        <5>1. calls'[d] = [calls[d] EXCEPT !.at = "done", !.status = "ok"]
          BY <1>8, <2>2, <3>2, <4>1
        <5> QED
          BY <4>0, <4>1, <5>1 DEF KeepsRequest, CallType
      <4>2. CASE d # c
        <5>1. \E b : calls'[d] = [calls[d] EXCEPT !.late = b]
          BY <1>8, <2>2, <3>2, <4>2
        <5> QED
          BY <4>0, <5>1 DEF KeepsRequest, KeepsAnswer, CallType
      <4> QED
        BY <4>1, <4>2
    <3>3. calls'["reset"].at = "done" /\ c \in InFlight
      BY <1>8, <2>2, CookieTypes DEF CallType
    <3> QED
      BY <1>8, <2>2, <3>1, <3>2, <3>3 DEF Served
  <2> QED
    BY <1>8, <2>1, <2>2 DEF ResetPassword
<1>9. CASE c = "refresh" /\ ValidateRefreshToken
  <2>1. CASE Go(c, "alarm") \/ Answer(c, "401")
    BY <1>9, <2>1, GoServed DEF ValidateRefreshToken
  <2>2. CASE ~(Go(c, "alarm") \/ Answer(c, "401"))
    <3> DEFINE t == tokens[calls["refresh"].cookie]
    <3>1. /\ c \in InFlight /\ calls[c].at = "arrive" /\ Touches(c)
          /\ \/ calls'[c] = [calls[c] EXCEPT !.at = "done", !.status = "401", !.set = 0]
             \/ calls'[c] = [calls[c] EXCEPT !.at = "revoke", !.pw = t.pw, !.late = t.late]
      BY <1>9, <2>2 DEF ValidateRefreshToken, Touches, InFlight
    <3>2. KeepsRequest(c) /\ calls'[c].at # "queued"
      BY <3>1, CookieTypes DEF KeepsRequest, CallType
    <3> QED
      BY <3>1, <3>2, ServedAlone
  <2> QED
    BY <2>1, <2>2
<1>10. CASE c = "logout" /\ Logout
  <2>1. CASE Answer(c, "401")
    BY <1>10, <2>1, GoServed DEF Logout
  <2>2. CASE ~Answer(c, "401")
    <3> DEFINE step == IF calls["logout"].cookie = 0 THEN "done" ELSE "revoke"
    <3>1. /\ c \in InFlight /\ calls[c].at = "arrive" /\ Touches(c)
          /\ \E code : calls'[c] = [calls[c] EXCEPT !.set = 0, !.at = step, !.status = code]
      BY <1>10, <2>2 DEF Logout, Touches, InFlight
    <3>2. step # "queued"
      OBVIOUS
    <3> HIDE DEF step
    <3>3. KeepsRequest(c) /\ calls'[c].at # "queued"
      BY <3>1, <3>2, CookieTypes DEF KeepsRequest, CallType
    <3> QED
      BY <3>1, <3>3, ServedAlone
  <2> QED
    BY <2>1, <2>2
<1> QED
  BY <1>1, <1>2, <1>3, <1>4, <1>5, <1>6, <1>7, <1>8, <1>9, <1>10 DEF Handle

LEMMA AwaitStep == SessionsOK /\ AwaitInv /\ [NextPortal]_portalVars => AwaitInv'
<1> SUFFICES ASSUME SessionsOK, AwaitInv, [NextPortal]_portalVars PROVE AwaitInv'
  OBVIOUS
<1> USE DEF Waiting, At
<1>0. \A c \in InFlight : c \in Calls /\ calls[c] \in CallType
  BY CookieTypes DEF SessionsOK, ServerOK, CallsOK
<1>1. ASSUME NEW c \in Calls, Serve(c) PROVE AwaitInv'
  <2>1. Served(c) /\ UNCHANGED refreshing
    BY <1>1, EveryServed DEF Serve, clientVars
  <2> QED
    BY <2>1, StillAwaited DEF StillWaiting, Served, KeepsRequest, KeepsAnswer
<1>2. ASSUME NEW c \in Calls, ServerError(c) \/ LoseAnswer(c), UNCHANGED clientVars PROVE AwaitInv'
  <2>1. /\ c \in InFlight /\ Touches(c)
        /\ \/ /\ calls[c].at \notin {"done", "queued"}
              /\ calls'[c] = [calls[c] EXCEPT !.at = "done", !.status = "500"]
           \/ /\ calls[c].at = "done"
              /\ calls'[c] = [calls[c] EXCEPT !.status = "lost", !.set = Null, !.grant = 0]
    BY <1>2 DEF ServerError, AtServer, Answer, LoseAnswer, Touches, InFlight
  <2>2. /\ calls'[c].orphan = calls[c].orphan
        /\ calls[c].at # "queued" /\ calls'[c].at # "queued"
    BY <1>0, <2>1 DEF CallType
  <2> QED
    BY <1>2, <2>1, <2>2, StillAwaited DEF StillWaiting, Touches, InFlight, clientVars
<1>3. CASE UNCHANGED <<calls, refreshing>>
  BY <1>3, StillAwaited DEF StillWaiting, InFlight
<1>4. ASSUME NEW c \in Calls \ {"refresh"}, NEW pw, NEW code, Send(c, pw, code), UNCHANGED refreshing
      PROVE  AwaitInv'
  <2>1. /\ InFlight' = InFlight \cup {c} /\ c \notin InFlight
        /\ \A d \in InFlight : calls'[d] = calls[d]
        /\ calls'[c] = Request(pw, code)
    BY <1>4 DEF Send, InFlight
  <2>2. calls'[c].at # "queued"
    BY <2>1 DEF Request, NewCall
  <2> QED
    BY <1>4, <2>1, <2>2, StillAwaited DEF StillWaiting
<1>5. CASE Person
  <2>1. ASSUME NEW c \in Calls \ {"refresh"}, NEW pw, NEW code, Submit(c, pw, code) PROVE AwaitInv'
    BY <1>4, <2>1 DEF Submit
  <2>2. ASSUME NEW q \in Queries, SendQuery(q) PROVE AwaitInv'
    BY <1>4, <2>2, QueriesAssumption DEF SendQuery, clientVars, Calls
  <2>3. CASE FollowLink
    BY <1>3, <2>3 DEF FollowLink, authVars
  <2> QED
    BY <1>5, <2>1, <2>2, <2>3
       DEF Person, SubmitLogin, SubmitSignup, SubmitOtp, SubmitRequestReset, SubmitReset,
           HandleResendOtp, HandleResendCode, HandleLogout, Calls, Forms
<1>6. CASE Environment
  <2>1. CASE Reload
    <3>1. \A d \in InFlight' : calls'[d].at # "queued" /\ calls'[d].orphan
      <4>1. ASSUME NEW d \in InFlight' PROVE calls'[d].at # "queued" /\ calls'[d].orphan
        <5>1. d \in InFlight /\ calls[d].at # "queued" /\ calls'[d] = [calls[d] EXCEPT !.orphan = TRUE]
          BY <2>1, <4>1 DEF Reload, Unloaded, InFlight
        <5> QED
          BY <1>0, <5>1 DEF CallType
      <4> QED
        BY <4>1
    <3> QED
      BY <2>1, <3>1 DEF Reload, AwaitInv, RefreshIsAwaited
  <2>2. CASE ~Reload /\ ~\E c \in Calls : (ServerError(c) \/ LoseAnswer(c)) /\ UNCHANGED clientVars
    BY <1>3, <1>6, <2>2
       DEF Environment, ProcessMail, ExpireCode, AccessExpires, SessionExpires, CountdownEnds,
           authVars, clientVars
  <2> QED
    BY <1>2, <2>1, <2>2
<1>7. ASSUME NEW c \in Calls, Receive(c) PROVE AwaitInv'
  <2>1. CASE StartRefresh(c)
    <3>1. /\ InFlight' = InFlight \cup {"refresh"} /\ c \in InFlight /\ c # "refresh"
          /\ calls'["refresh"] = Request(Null, 0)
          /\ calls'[c] = [calls[c] EXCEPT !.at = "queued", !.retried = TRUE]
          /\ refreshing' = TRUE
      BY <2>1 DEF StartRefresh, Arrived, Intercepted, InFlight
    <3>2. calls'[c].at = "queued"
      BY <1>0, <3>1 DEF CallType
    <3>3. ~calls'["refresh"].orphan /\ calls'["refresh"].at = "arrive"
      BY <3>1 DEF Request, NewCall
    <3> QED
      BY <3>1, <3>2, <3>3 DEF AwaitInv, RefreshIsAwaited
  <2>2. CASE AwaitRefresh(c)
    <3>1. /\ c \in InFlight /\ c # "refresh" /\ refreshing /\ refreshing' /\ Touches(c)
          /\ calls'[c] = [calls[c] EXCEPT !.at = "queued"]
      BY <2>2 DEF AwaitRefresh, Arrived, Intercepted, Go, Touches, InFlight, clientVars
    <3>2. calls'[c].at = "queued"
      BY <1>0, <3>1 DEF CallType
    <3> QED
      BY <3>1, <3>2 DEF AwaitInv, RefreshIsAwaited, Touches, InFlight
  <2>3. CASE c = "refresh" /\ RefreshDone
    <3>1. \A d \in InFlight' : d # "refresh" /\ calls'[d].at # "queued"
      <4>1. CASE calls' = Replayed(calls["refresh"].grant, cookie')
        <5>1. ASSUME NEW d \in InFlight' PROVE d # "refresh" /\ calls'[d].at # "queued"
          <6> DEFINE r == Request(calls[d].pw, calls[d].code)
                     token == calls["refresh"].grant
          <6>1. d \in InFlight \ {"refresh"}
                  /\ calls'[d] = IF At(d, "queued")
                                 THEN [r EXCEPT !.access = token, !.cookie = cookie',
                                                !.retried = calls[d].retried]
                                 ELSE calls[d]
            BY <4>1, <5>1 DEF Replayed, InFlight
          <6>2. r \in CallType /\ r.at = "arrive"
            BY <1>0, <6>1, RequestTypes DEF CallType
          <6> HIDE DEF r
          <6> QED
            BY <6>1, <6>2 DEF CallType
        <5> QED
          BY <5>1
      <4>2. CASE calls' = Rejected
        BY <4>2 DEF Rejected, Without, InFlight
      <4>3. CASE calls' = Unloaded(Rejected)
        <5>1. ASSUME NEW d \in InFlight' PROVE d # "refresh" /\ calls'[d].at # "queued"
          <6>1. d \in DOMAIN Rejected /\ calls'[d] = [Rejected[d] EXCEPT !.orphan = TRUE]
                  /\ Rejected[d].at # "queued"
            BY <4>3, <5>1 DEF Unloaded, InFlight
          <6>2. d \in InFlight \ {"refresh"} /\ Rejected[d] = calls[d]
            BY <6>1 DEF Rejected, Without
          <6> QED
            BY <1>0, <6>1, <6>2 DEF CallType
        <5> QED
          BY <5>1
      <4> QED
        BY <2>3, <4>1, <4>2, <4>3 DEF RefreshDone
    <3> QED
      BY <2>3, <3>1 DEF RefreshDone, AwaitInv, RefreshIsAwaited, Calls
  <2>4. CASE calls' = Without({c}) /\ UNCHANGED refreshing /\ c \in InFlight
             /\ calls[c].at = "done" /\ (c # "refresh" \/ calls[c].orphan)
    <3>1. InFlight' = InFlight \ {c} /\ \A d \in InFlight' : calls'[d] = calls[d]
      BY <2>4 DEF Without, InFlight
    <3> QED
      BY <2>4, <3>1 DEF AwaitInv, RefreshIsAwaited
  <2>5. CASE ~(StartRefresh(c) \/ AwaitRefresh(c) \/ (c = "refresh" /\ RefreshDone))
    <3>1. /\ calls' = Without({c}) /\ UNCHANGED refreshing /\ c \in InFlight
          /\ calls[c].at = "done" /\ (c # "refresh" \/ calls[c].orphan)
      BY <1>7, <2>5, QueriesAssumption
         DEF Receive, OrphanAnswered, QueryAnswered, SignInAnswered, CodeAnswered,
             ResetAnswered, LogoutAnswered, Settle, Arrived
    <3> QED
      BY <2>4, <3>1
  <2> QED
    BY <2>1, <2>2, <2>3, <2>5
<1>8. CASE UNCHANGED portalVars
  BY <1>3, <1>8 DEF portalVars, authVars, clientVars
<1> QED
  BY <1>1, <1>5, <1>6, <1>7, <1>8 DEF NextPortal

(* No request waits in vain for a refresh, and no refresh runs for nobody:   *)
(* however 401s, losses, failures, logouts and reloads interleave.           *)
THEOREM AwaitedCorrect == Spec => []RefreshIsAwaited
<1>1. Init => AwaitInv
  <2>0. DOMAIN <<>> = {}
    OBVIOUS
  <2>1. Init => InFlight = {} /\ refreshing = FALSE
    <3>1. Init => calls = <<>> /\ refreshing = FALSE
      BY DEF Init, InitPortal
    <3> QED
      BY <2>0, <3>1 DEF InFlight
  <2> QED
    BY <2>1 DEF AwaitInv, RefreshIsAwaited, Waiting, At
<1>2. SessionsOK /\ AwaitInv /\ [Next]_vars => AwaitInv'
  BY AwaitStep, PortalSteps
<1>3. AwaitInv => RefreshIsAwaited
  BY DEF AwaitInv
<1> QED
  BY <1>1, <1>2, <1>3, AlwaysSessionsOK, PTL DEF Spec

-----------------------------------------------------------------------------
(* Passwords and sessions.  ResetEndsSessions is not inductive: a call that  *)
(* is opening a session brings the password it went by into the table, so it *)
(* must be the current one, or known to be late, as long as the call is in   *)
(* flight; and a row without a user has neither sessions nor such calls, so  *)
(* that the password of a sign-up is nobody's change of password.            *)
ResetPending == At("reset", "clear") \/ At("reset", "revokeAll")

HasCurrentPassword(t) == t.pw = user.password \/ t.late

CreatesOnce == At("signup", "create") => ~user.exists

NoneYet ==
    ~user.exists => /\ ~user.verified /\ DOMAIN tokens = {}
                    /\ \A c \in InFlight : ~SigningIn(c)

AllCurrent ==
    faults = 0 /\ ~ResetPending =>
        /\ \A i \in DOMAIN tokens : tokens[i].status = "live" => HasCurrentPassword(tokens[i])
        /\ \A c \in InFlight : SigningIn(c) => HasCurrentPassword(calls[c])

ResetInv == CreatesOnce /\ NoneYet /\ AllCurrent

(* A step that opens no session, ends none of the calls that do otherwise    *)
(* than by answering them, and leaves the password alone.                    *)
PlainRow ==
    /\ user'.exists = user.exists /\ user'.password = user.password
    /\ user'.verified => user.verified \/ user.exists

PlainTokens ==
    /\ DOMAIN tokens' = DOMAIN tokens
    /\ \A i \in DOMAIN tokens :
          /\ tokens'[i].status = "live" => tokens[i].status = "live"
          /\ tokens'[i].pw = tokens[i].pw /\ tokens'[i].late = tokens[i].late

PlainCall(c) ==
    /\ SigningIn(c)' => /\ SigningIn(c)
                        /\ calls'[c].pw = calls[c].pw /\ calls'[c].late = calls[c].late
    /\ c = "signup" /\ calls'[c].at = "create" => calls[c].at = "create"

PlainStep ==
    /\ PlainRow /\ PlainTokens
    /\ \A c \in InFlight' : SigningIn(c)' \/ (c = "signup" /\ calls'[c].at = "create")
                               => c \in InFlight /\ PlainCall(c)
    /\ faults' = 0 => faults = 0 /\ (ResetPending => ResetPending')

LEMMA PlainKeeps ==
  ASSUME ResetInv, PlainStep
  PROVE  ResetInv'
<1>1. CreatesOnce'
  BY DEF ResetInv, PlainStep, PlainRow, PlainCall, CreatesOnce, At
<1>2. NoneYet'
  BY DEF ResetInv, PlainStep, PlainRow, PlainTokens, PlainCall, NoneYet
<1>3. AllCurrent'
  BY DEF ResetInv, PlainStep, PlainRow, PlainTokens, PlainCall, AllCurrent, HasCurrentPassword
<1> QED
  BY <1>1, <1>2, <1>3 DEF ResetInv

(* All handlers but the one that revokes on a reset change their own call only. *)
LEMMA HandleTouches ==
  ASSUME NEW c \in Calls, Handle(c), ~(c = "reset" /\ At("reset", "revokeAll"))
  PROVE  Touches(c) /\ c \in InFlight
<1> USE DEF Touches, At, Go, Answer, InFlight
<1>1. CASE c \in {"signup", "resend", "forgot", "recode"} /\ (StoreCode(c) \/ QueueMail(c))
  BY <1>1 DEF StoreCode, QueueMail
<1>2. CASE (c = "signup" /\ Signup) \/ (c = "resend" /\ Resend)
             \/ (c \in {"forgot", "recode"} /\ RequestPasswordReset(c))
  BY <1>2 DEF Signup, Resend, RequestPasswordReset
<1>3. CASE (c = "login" /\ Login) \/ (c = "verify" /\ VerifyOTP)
  BY <1>3 DEF Login, VerifyOTP
<1>4. CASE c = "reset" /\ ResetPassword
  BY <1>4 DEF ResetPassword
<1>5. CASE IssueTokens(c) \/ RevokeRefreshToken(c) \/ ServeQuery(c) \/ (c = "logout" /\ Logout)
  BY <1>5 DEF IssueTokens, RevokeRefreshToken, ServeQuery, Logout
<1>6. CASE c = "refresh" /\ (ValidateRefreshToken \/ ReuseAlarm)
  BY <1>6 DEF ValidateRefreshToken, ReuseAlarm
<1> QED
  BY <1>1, <1>2, <1>3, <1>4, <1>5, <1>6 DEF Handle

LEMMA TouchedPlain ==
  ASSUME NEW c \in InFlight, Touches(c), PlainRow, PlainTokens, PlainCall(c),
         faults' = 0 => faults = 0,
         faults' = 0 /\ c = "reset" /\ calls[c].at \in {"clear", "revokeAll"}
            => calls'[c].at \in {"clear", "revokeAll"}
  PROVE  PlainStep
<1>1. InFlight' = InFlight /\ \A d \in InFlight : d # c => calls'[d] = calls[d]
  BY DEF Touches, InFlight
<1>2. \A d \in InFlight : PlainCall(d)
  BY <1>1 DEF PlainCall, SigningIn
<1> QED
  BY <1>1, <1>2 DEF PlainStep, ResetPending, At

LEMMA PlainFrames ==
  ASSUME SessionsOK
  PROVE  /\ UNCHANGED user => PlainRow
         /\ UNCHANGED tokens => PlainTokens
         /\ tokens' = RevokeAll => PlainTokens
<1>1. UNCHANGED user => PlainRow
  BY DEF PlainRow
<1>2. UNCHANGED tokens => PlainTokens
  BY DEF PlainTokens
<1>3. ASSUME tokens' = RevokeAll PROVE PlainTokens
  <2>1. \A i \in DOMAIN tokens : tokens[i] \in Token
    BY TokensStay DEF SessionsOK, ServerOK
  <2> QED
    BY <1>3, <2>1 DEF PlainTokens, RevokeAll, Token
<1> QED
  BY <1>1, <1>2, <1>3

(* Answers, and the steps of calls that open no session. *)
LEMMA AnswerIsPlain ==
  ASSUME SessionsOK, NEW c \in InFlight, PlainRow, PlainTokens, UNCHANGED faults
  PROVE  /\ \A code : Answer(c, code) /\ calls[c].at \notin {"clear", "revokeAll"} => PlainStep
         /\ \A step \in {"code", "alarm", "password", "revokeAll"} :
               Go(c, step) /\ (step # "revokeAll" => calls[c].at \notin {"clear", "revokeAll"})
                 => PlainStep
<1>0. calls[c] \in CallType
  BY CookieTypes
<1>1. ASSUME NEW code, Answer(c, code), calls[c].at \notin {"clear", "revokeAll"} PROVE PlainStep
  <2>1. Touches(c) /\ calls'[c] = [calls[c] EXCEPT !.at = "done", !.status = code]
    BY <1>1 DEF Answer, Touches, InFlight
  <2>2. calls'[c].at = "done"
    BY <1>0, <2>1 DEF CallType
  <2> QED
    BY <1>1, <2>1, <2>2, TouchedPlain DEF PlainCall, SigningIn
<1>2. ASSUME NEW step \in {"code", "alarm", "password", "revokeAll"}, Go(c, step),
             step # "revokeAll" => calls[c].at \notin {"clear", "revokeAll"}
      PROVE  PlainStep
  <2>1. Touches(c) /\ calls'[c] = [calls[c] EXCEPT !.at = step]
    BY <1>2 DEF Go, Touches, InFlight
  <2>2. calls'[c].at = step
    BY <1>0, <2>1 DEF CallType
  <2> QED
    BY <1>2, <2>1, <2>2, TouchedPlain DEF PlainCall, SigningIn
<1> QED
  BY <1>1, <1>2

LEMMA CodesArePlain ==
  ASSUME SessionsOK, NEW c \in Calls,
         \/ StoreCode(c) \/ QueueMail(c) \/ RequestPasswordReset(c)
         \/ (c = "resend" /\ Resend) \/ (c = "logout" /\ Logout) \/ ServeQuery(c)
         \/ (c = "refresh" /\ ReuseAlarm)
  PROVE  PlainStep
<1> USE DEF At
<1>1. CASE QueueMail(c) \/ RequestPasswordReset(c) \/ (c = "resend" /\ Resend) \/ ServeQuery(c)
  BY <1>1, PlainFrames, AnswerIsPlain DEF QueueMail, RequestPasswordReset, Resend, ServeQuery
<1>2. CASE c = "refresh" /\ ReuseAlarm
  BY <1>2, PlainFrames, AnswerIsPlain DEF ReuseAlarm
<1>3. CASE StoreCode(c)
  <2>1. /\ c \in InFlight /\ Touches(c) /\ UNCHANGED <<tokens, faults>>
        /\ calls[c].at = "code" /\ calls'[c] = [calls[c] EXCEPT !.at = "mail", !.code = codes']
        /\ user' = [user EXCEPT !.otp = codes', !.otpLive = TRUE]
    BY <1>3 DEF StoreCode, Touches, InFlight
  <2>2. calls'[c].at = "mail"
    BY <2>1, CookieTypes DEF CallType
  <2>3. PlainRow
    BY <2>1 DEF PlainRow, SessionsOK, ServerOK, UserOK
  <2> QED
    BY <2>1, <2>2, <2>3, PlainFrames, TouchedPlain DEF PlainCall, SigningIn
<1>4. CASE c = "logout" /\ Logout
  <2>1. c \in InFlight /\ Touches(c) /\ UNCHANGED <<user, tokens, faults>>
    BY <1>4 DEF Logout, Answer, Touches, InFlight
  <2> QED
    BY <1>4, <2>1, PlainFrames, TouchedPlain DEF PlainCall, SigningIn
<1> QED
  BY <1>1, <1>2, <1>3, <1>4

LEMMA RevokeIsPlain ==
  ASSUME SessionsOK, NEW c \in {"refresh", "logout"}, RevokeRefreshToken(c)
  PROVE  PlainStep
<1>0. /\ c \in InFlight /\ calls[c].at = "revoke" /\ UNCHANGED <<user, faults>>
      /\ calls[c] \in CallType /\ \A i \in DOMAIN tokens : tokens[i] \in Token
  BY CookieTypes, TokensStay DEF RevokeRefreshToken, At, SessionsOK, ServerOK
<1>1. PlainTokens
  <2>1. /\ DOMAIN tokens' = DOMAIN tokens
        /\ \A i \in DOMAIN tokens :
              tokens'[i] = tokens[i] \/ tokens'[i] = [tokens[i] EXCEPT !.status = "revoked"]
    BY DEF RevokeRefreshToken
  <2> QED
    BY <1>0, <2>1 DEF PlainTokens, Token
<1>2. CASE Answer(c, "ok")
  BY <1>0, <1>1, <1>2, PlainFrames, AnswerIsPlain
<1>3. CASE c = "refresh" /\ Go(c, "issue")
  <2>1. Touches(c) /\ calls'[c] = [calls[c] EXCEPT !.at = "issue"]
    BY <1>0, <1>3 DEF Go, Touches, InFlight
  <2>2. calls'[c].pw = calls[c].pw /\ calls'[c].late = calls[c].late
    BY <1>0, <2>1 DEF CallType
  <2>3. PlainCall(c)
    BY <1>0, <1>3, <2>2 DEF PlainCall, SigningIn
  <2> QED
    BY <1>0, <1>1, <1>3, <2>1, <2>3, PlainFrames, TouchedPlain
<1> QED
  BY <1>2, <1>3 DEF RevokeRefreshToken

(* The steps that are not plain.  A new row has no sessions to end. *)
LEMMA SignupResets ==
  ASSUME SessionsOK, ResetInv, Signup
  PROVE  ResetInv'
<1> USE DEF At
<1>0. /\ "signup" \in InFlight /\ Touches("signup") /\ UNCHANGED <<tokens, faults>>
      /\ calls["signup"] \in CallType /\ calls["signup"].at \in {"arrive", "create"}
  BY CookieTypes DEF Signup, Go, Answer, Touches, InFlight
<1>1. CASE UNCHANGED user /\ (Answer("signup", "409") \/ Go("signup", "code"))
  <2>1. PlainStep
    BY <1>0, <1>1, PlainFrames, AnswerIsPlain
  <2> QED
    BY <2>1, PlainKeeps
<1>2. InFlight' = InFlight /\ (\A d \in InFlight : d # "signup" => calls'[d] = calls[d])
        /\ ~SigningIn("signup") /\ ~SigningIn("signup")'
  BY <1>0 DEF Touches, InFlight, SigningIn
<1>3. (\A d \in InFlight : SigningIn(d)' => SigningIn(d) /\ calls'[d] = calls[d])
        /\ (ResetPending' <=> ResetPending)
  BY <1>2 DEF SigningIn, ResetPending
<1>4. CASE ~user.exists /\ UNCHANGED user
  <2>1. CreatesOnce' /\ NoneYet'
    BY <1>0, <1>2, <1>3, <1>4 DEF ResetInv, CreatesOnce, NoneYet
  <2>2. AllCurrent'
    BY <1>0, <1>2, <1>3, <1>4 DEF ResetInv, AllCurrent, NoneYet
  <2> QED
    BY <2>1, <2>2 DEF ResetInv
<1>5. CASE calls["signup"].at = "create" /\ Go("signup", "code")
             /\ user' = [NoUser EXCEPT !.exists = TRUE, !.password = calls["signup"].pw]
  <2>1. user'.exists
    BY <1>5 DEF NoUser
  <2>2. ~user.exists /\ DOMAIN tokens = {} /\ \A d \in InFlight : ~SigningIn(d)
    BY <1>0, <1>5 DEF ResetInv, CreatesOnce, NoneYet
  <2>3. calls'["signup"].at = "code"
    BY <1>0, <1>5 DEF Go, InFlight, CallType
  <2>4. CreatesOnce' /\ NoneYet'
    BY <2>1, <2>3 DEF CreatesOnce, NoneYet
  <2>5. AllCurrent'
    BY <1>0, <1>2, <1>3, <2>2 DEF AllCurrent
  <2> QED
    BY <2>4, <2>5 DEF ResetInv
<1> QED
  BY <1>1, <1>4, <1>5 DEF Signup

(* A call that begins to open a session has the password of the row. *)
LEMMA BeginsCurrent ==
  ASSUME SessionsOK, ResetInv, NEW c \in InFlight, c \in {"login", "verify", "refresh"},
         Touches(c), user.exists, UNCHANGED <<user, tokens, faults>>,
         \/ calls'[c].pw = user.password
         \/ \E i \in DOMAIN tokens :
               /\ tokens[i].status = "live"
               /\ calls'[c].pw = tokens[i].pw /\ calls'[c].late = tokens[i].late
  PROVE  ResetInv'
<1>1. InFlight' = InFlight /\ \A d \in InFlight : d # c => calls'[d] = calls[d]
  BY DEF Touches, InFlight
<1>2. CreatesOnce' /\ NoneYet' /\ (ResetPending' <=> ResetPending)
  BY <1>1 DEF ResetInv, CreatesOnce, NoneYet, ResetPending, At
<1>3. AllCurrent'
  BY <1>1, <1>2 DEF ResetInv, AllCurrent, HasCurrentPassword, SigningIn
<1> QED
  BY <1>2, <1>3 DEF ResetInv

LEMMA SignInResets ==
  ASSUME SessionsOK, ResetInv, Login \/ VerifyOTP
  PROVE  ResetInv'
<1> USE DEF At
<1>1. CASE Login
  <2>0. "login" \in InFlight /\ UNCHANGED <<user, tokens, faults>> /\ calls["login"] \in CallType
          /\ calls["login"].at = "arrive"
    BY <1>1, CookieTypes DEF Login
  <2>1. CASE Answer("login", "401")
    <3>1. PlainStep
      BY <2>0, <2>1, PlainFrames, AnswerIsPlain
    <3> QED
      BY <3>1, PlainKeeps
  <2>2. CASE user.verified /\ user.password = calls["login"].pw /\ Go("login", "issue")
    <3>1. Touches("login") /\ calls'["login"] = [calls["login"] EXCEPT !.at = "issue"]
      BY <2>0, <2>2 DEF Go, Touches, InFlight
    <3>2. calls'["login"].pw = user.password
      BY <2>0, <2>2, <3>1 DEF CallType
    <3>3. user.exists
      BY <2>2 DEF ResetInv, NoneYet
    <3> QED
      BY <2>0, <3>1, <3>2, <3>3, BeginsCurrent
  <2> QED
    BY <1>1, <2>1, <2>2 DEF Login
<1>2. CASE VerifyOTP
  <2>0. "verify" \in InFlight /\ UNCHANGED <<tokens, faults>> /\ calls["verify"] \in CallType
          /\ calls["verify"].at \in {"arrive", "verify", "key"}
    BY <1>2, CookieTypes DEF VerifyOTP
  <2>1. CASE Answer("verify", "401") /\ UNCHANGED user
    <3>1. PlainStep
      BY <2>0, <2>1, PlainFrames, AnswerIsPlain
    <3> QED
      BY <3>1, PlainKeeps
  <2>2. CASE user.exists /\ UNCHANGED user
             /\ calls' = [calls EXCEPT !["verify"].at = "verify", !["verify"].pw = user.password]
    <3>1. Touches("verify")
            /\ calls'["verify"] = [calls["verify"] EXCEPT !.at = "verify", !.pw = user.password]
      BY <2>0, <2>2 DEF Touches, InFlight
    <3>2. calls'["verify"].pw = user.password
      BY <2>0, <3>1 DEF CallType
    <3> QED
      BY <2>0, <2>2, <3>1, <3>2, BeginsCurrent
  <2>3. CASE \/ /\ calls["verify"].at = "verify" /\ Go("verify", "key")
                /\ user' = [user EXCEPT !.verified = TRUE, !.otp = 0, !.otpLive = FALSE]
             \/ /\ calls["verify"].at = "key" /\ Go("verify", "issue")
                /\ user' = [user EXCEPT !.hasKey = TRUE]
    <3>1. SigningIn("verify") /\ user.exists
      BY <2>0, <2>3 DEF SigningIn, ResetInv, NoneYet
    <3>2. PlainRow
      BY <2>3, <3>1 DEF PlainRow, SessionsOK, ServerOK, UserOK
    <3>3. PICK step \in {"key", "issue"} : Go("verify", step)
      BY <2>3
    <3>4. Touches("verify") /\ calls'["verify"] = [calls["verify"] EXCEPT !.at = step]
      BY <2>0, <3>3 DEF Go, Touches, InFlight
    <3>5. calls'["verify"].pw = calls["verify"].pw /\ calls'["verify"].late = calls["verify"].late
      BY <2>0, <3>4 DEF CallType
    <3>6. PlainStep
      BY <2>0, <3>1, <3>2, <3>4, <3>5, PlainFrames, TouchedPlain DEF PlainCall
    <3> QED
      BY <3>6, PlainKeeps
  <2> QED
    BY <1>2, <2>1, <2>2, <2>3 DEF VerifyOTP
<1> QED
  BY <1>1, <1>2

LEMMA IssueResets ==
  ASSUME SessionsOK, ResetInv, NEW c \in {"login", "verify", "refresh"}, IssueTokens(c)
  PROVE  ResetInv'
<1> DEFINE t == [status |-> "live", pw |-> calls[c].pw, late |-> calls[c].late]
           n == Len(tokens')
<1>0. /\ tokens \in Seq(Token) /\ c \in InFlight /\ calls[c].at = "issue" /\ calls[c] \in CallType
      /\ SigningIn(c) /\ UNCHANGED <<user, faults>> /\ tokens' = Append(tokens, t) /\ Touches(c)
      /\ calls'[c] = [calls[c] EXCEPT !.at = "done", !.status = "ok", !.set = n, !.grant = n]
  BY CookieTypes DEF IssueTokens, At, SessionsOK, ServerOK, SigningIn, Touches, InFlight
<1>1. t \in Token /\ user.exists
  BY <1>0, CookieTypes DEF Token, CallType, Fits, Opening, ResetInv, NoneYet
<1>2. DOMAIN tokens = 1 .. Len(tokens) /\ Len(tokens) \in Nat
        /\ \A i \in DOMAIN tokens' : tokens'[i] = IF i = Len(tokens) + 1 THEN t ELSE tokens[i]
  BY <1>0, <1>1, TokensGrow
<1>3. \A i \in DOMAIN tokens' : tokens'[i] = t \/ (i \in DOMAIN tokens /\ tokens'[i] = tokens[i])
  BY <1>0, <1>1, <1>2, TokensGrow
<1>4. InFlight' = InFlight /\ (\A d \in InFlight : d # c => calls'[d] = calls[d]) /\ ~SigningIn(c)'
  <2> HIDE DEF n
  <2> QED
    BY <1>0 DEF Touches, InFlight, SigningIn, CallType
<1>5. CreatesOnce' /\ NoneYet' /\ (ResetPending' <=> ResetPending)
  BY <1>0, <1>1, <1>4 DEF ResetInv, CreatesOnce, NoneYet, ResetPending, At
<1>6. AllCurrent'
  <2>1. SUFFICES ASSUME faults = 0, ~ResetPending
                 PROVE  /\ \A i \in DOMAIN tokens' :
                               tokens'[i].status = "live" => tokens'[i].pw = user.password \/ tokens'[i].late
                        /\ \A d \in InFlight : SigningIn(d)' => calls'[d].pw = user.password \/ calls'[d].late
    BY <1>0, <1>4, <1>5 DEF AllCurrent, HasCurrentPassword
  <2>2. t.pw = user.password \/ t.late
    BY <1>0, <2>1 DEF ResetInv, AllCurrent, HasCurrentPassword
  <2>3. \A i \in DOMAIN tokens : tokens[i].status = "live" => tokens[i].pw = user.password \/ tokens[i].late
    BY <2>1 DEF ResetInv, AllCurrent, HasCurrentPassword
  <2>4. \A d \in InFlight : SigningIn(d)' => calls'[d].pw = user.password \/ calls'[d].late
    BY <1>4, <2>1 DEF ResetInv, AllCurrent, HasCurrentPassword, SigningIn
  <2> HIDE DEF t
  <2> QED
    BY <1>3, <2>2, <2>3, <2>4
<1> QED
  BY <1>5, <1>6 DEF ResetInv

LEMMA ResetResets ==
  ASSUME SessionsOK, ResetInv, ResetPassword
  PROVE  ResetInv'
<1> USE DEF At
<1>0. /\ "reset" \in InFlight /\ UNCHANGED faults /\ calls["reset"] \in CallType
      /\ calls["reset"].at \in {"arrive", "password", "clear", "revokeAll"}
  BY CookieTypes DEF ResetPassword
<1>1. CASE /\ calls["reset"].at = "arrive" /\ UNCHANGED <<user, tokens>>
           /\ Go("reset", "password") \/ Answer("reset", "401")
  <2>1. PlainStep
    BY <1>0, <1>1, PlainFrames, AnswerIsPlain
  <2> QED
    BY <2>1, PlainKeeps
<1>2. CASE /\ calls["reset"].at = "password" /\ Go("reset", "clear") /\ UNCHANGED tokens
           /\ user' = [user EXCEPT !.password = calls["reset"].pw]
  <2>1. /\ Touches("reset") /\ InFlight' = InFlight
        /\ calls'["reset"] = [calls["reset"] EXCEPT !.at = "clear"]
    BY <1>0, <1>2 DEF Go, Touches, InFlight
  <2>2. ResetPending'
    BY <1>0, <2>1 DEF ResetPending, CallType
  <2>3. user'.exists = user.exists /\ user'.verified = user.verified
    BY <1>2 DEF SessionsOK, ServerOK, UserOK
  <2>4. CreatesOnce' /\ NoneYet' /\ AllCurrent'
    BY <1>2, <2>1, <2>2, <2>3
       DEF ResetInv, CreatesOnce, NoneYet, AllCurrent, SigningIn, Touches, InFlight
  <2> QED
    BY <2>4 DEF ResetInv
<1>3. CASE /\ calls["reset"].at = "clear" /\ Go("reset", "revokeAll") /\ UNCHANGED tokens
           /\ user' = [user EXCEPT !.otp = 0, !.otpLive = FALSE]
  <2>1. PlainRow
    BY <1>3 DEF PlainRow, SessionsOK, ServerOK, UserOK
  <2>2. PlainStep
    BY <1>0, <1>3, <2>1, PlainFrames, AnswerIsPlain
  <2> QED
    BY <2>2, PlainKeeps
<1>4. CASE /\ calls["reset"].at = "revokeAll" /\ tokens' = RevokeAll /\ UNCHANGED user
           /\ calls' = [c \in InFlight |->
                 IF c = "reset" THEN [calls[c] EXCEPT !.at = "done", !.status = "ok"]
                                ELSE [calls[c] EXCEPT !.late = @ \/ SigningIn(c)]]
  <2>1. InFlight' = InFlight /\ DOMAIN tokens' = DOMAIN tokens
    BY <1>4 DEF InFlight, RevokeAll
  <2>2. \A i \in DOMAIN tokens : tokens'[i].status # "live"
    BY <1>4, TokensStay DEF RevokeAll, Token, SessionsOK, ServerOK
  <2>3. ASSUME NEW c \in InFlight
        PROVE  /\ SigningIn(c)' => SigningIn(c) /\ calls'[c].late
               /\ c = "signup" => calls'[c].at = calls[c].at
    <3>0. calls[c] \in CallType
      BY <2>3, CookieTypes
    <3>1. CASE c = "reset"
      BY <3>1 DEF SigningIn
    <3>2. CASE c # "reset"
      <4>1. calls'[c] = [calls[c] EXCEPT !.late = @ \/ SigningIn(c)]
        BY <1>4, <2>3, <3>2
      <4>2. calls'[c].at = calls[c].at /\ calls'[c].late = (calls[c].late \/ SigningIn(c))
        BY <3>0, <4>1 DEF CallType
      <4> QED
        BY <4>2 DEF SigningIn
    <3> QED
      BY <3>1, <3>2
  <2>4. CreatesOnce' /\ NoneYet' /\ AllCurrent'
    BY <1>4, <2>1, <2>2, <2>3 DEF ResetInv, CreatesOnce, NoneYet, AllCurrent, HasCurrentPassword
  <2> QED
    BY <2>4 DEF ResetInv
<1> QED
  BY <1>1, <1>2, <1>3, <1>4 DEF ResetPassword

LEMMA ValidateResets ==
  ASSUME SessionsOK, ResetInv, ValidateRefreshToken
  PROVE  ResetInv'
<1> DEFINE r == calls["refresh"]
           k == r.cookie
<1>0. /\ "refresh" \in InFlight /\ UNCHANGED <<user, tokens, faults>> /\ r \in CallType
      /\ r.at = "arrive"
  BY CookieTypes DEF ValidateRefreshToken, At
<1>1. CASE Go("refresh", "alarm") \/ Answer("refresh", "401")
  <2>1. PlainStep
    BY <1>0, <1>1, PlainFrames, AnswerIsPlain
  <2> QED
    BY <2>1, PlainKeeps
<1>2. CASE calls' = [calls EXCEPT !["refresh"].at = "done", !["refresh"].status = "401",
                                 !["refresh"].set = 0]
  <2>1. Touches("refresh")
          /\ calls'["refresh"] = [r EXCEPT !.at = "done", !.status = "401", !.set = 0]
    BY <1>0, <1>2 DEF Touches, InFlight
  <2>2. calls'["refresh"].at = "done"
    BY <1>0, <2>1 DEF CallType
  <2>3. PlainStep
    BY <1>0, <2>1, <2>2, PlainFrames, TouchedPlain DEF PlainCall, SigningIn
  <2> QED
    BY <2>3, PlainKeeps
<1>3. CASE /\ k # 0 /\ tokens[k].status = "live"
           /\ calls' = [calls EXCEPT !["refresh"].at = "revoke", !["refresh"].pw = tokens[k].pw,
                                     !["refresh"].late = tokens[k].late]
  <2>1. Touches("refresh")
          /\ calls'["refresh"] = [r EXCEPT !.at = "revoke", !.pw = tokens[k].pw, !.late = tokens[k].late]
    BY <1>0, <1>3 DEF Touches, InFlight
  <2>2. calls'["refresh"].pw = tokens[k].pw /\ calls'["refresh"].late = tokens[k].late
    BY <1>0, <2>1 DEF CallType
  <2>3. k \in DOMAIN tokens
    BY <1>0, <1>3, TokensStay DEF CallType, Ids, SessionsOK, ServerOK
  <2>4. user.exists
    BY <2>3 DEF ResetInv, NoneYet
  <2> QED
    BY <1>0, <1>3, <2>1, <2>2, <2>3, <2>4, BeginsCurrent
<1> QED
  BY <1>1, <1>2, <1>3 DEF ValidateRefreshToken

LEMMA HandleResets ==
  ASSUME SessionsOK, ResetInv, NEW c \in Calls, Handle(c)
  PROVE  ResetInv'
<1>1. CASE (c = "signup" /\ Signup) \/ Login \/ VerifyOTP \/ ResetPassword \/ ValidateRefreshToken
             \/ (c \in {"login", "verify", "refresh"} /\ IssueTokens(c))
  BY <1>1, SignupResets, SignInResets, ResetResets, ValidateResets, IssueResets
<1>2. CASE \/ StoreCode(c) \/ QueueMail(c) \/ RequestPasswordReset(c)
           \/ (c = "resend" /\ Resend) \/ (c = "logout" /\ Logout) \/ ServeQuery(c)
           \/ (c = "refresh" /\ ReuseAlarm)
  BY <1>2, CodesArePlain, PlainKeeps
<1>3. CASE c \in {"refresh", "logout"} /\ RevokeRefreshToken(c)
  BY <1>3, RevokeIsPlain, PlainKeeps
<1> QED
  BY <1>1, <1>2, <1>3 DEF Handle

(* Outside the handlers every step is plain: the calls it adds have just been *)
(* sent, those it drops were answered or waited for a refresh.                *)
LEMMA OutsideIsPlain ==
  ASSUME SessionsOK, PlainRow, PlainTokens, UNCHANGED faults,
         \A c \in InFlight' :
            \/ c \in InFlight /\ calls'[c].at = calls[c].at /\ calls'[c].pw = calls[c].pw
                 /\ calls'[c].late = calls[c].late
            \/ calls'[c].at \in {"arrive", "queued"},
         "reset" \in InFlight /\ calls["reset"].at \in {"clear", "revokeAll"}
            => "reset" \in InFlight' /\ calls'["reset"].at = calls["reset"].at
  PROVE  PlainStep
BY DEF PlainStep, PlainCall, SigningIn, ResetPending, At

LEMMA FaultIsPlain ==
  ASSUME SessionsOK, PlainRow, PlainTokens, faults' = faults + 1,
         \A c \in InFlight' :
            \/ c \in InFlight /\ calls'[c].at = calls[c].at /\ calls'[c].pw = calls[c].pw
                 /\ calls'[c].late = calls[c].late
            \/ calls'[c].at = "done"
  PROVE  PlainStep
<1>1. faults' # 0
  BY BoundsAssumption DEF SessionsOK, ServerOK
<1> QED
  BY <1>1 DEF PlainStep, PlainCall, SigningIn

LEMMA PersonIsPlain ==
  ASSUME SessionsOK, Person
  PROVE  PlainStep
<1>0. UNCHANGED <<user, tokens, faults>> => PlainRow /\ PlainTokens
  BY PlainFrames
<1>1. ASSUME NEW c, NEW pw, NEW code, Send(c, pw, code), UNCHANGED <<user, tokens, faults>>
      PROVE  PlainStep
  <2>1. /\ InFlight' = InFlight \cup {c} /\ \A d \in InFlight : calls'[d] = calls[d]
        /\ calls'[c] = Request(pw, code)
    BY <1>1 DEF Send, InFlight
  <2>2. calls'[c].at = "arrive"
    BY <2>1 DEF Request, NewCall
  <2> QED
    BY <1>0, <1>1, <2>1, <2>2, OutsideIsPlain
<1>2. ASSUME NEW c, NEW pw, NEW code, Submit(c, pw, code) PROVE PlainStep
  BY <1>1, <1>2 DEF Submit
<1>3. CASE FollowLink
  BY <1>0, <1>3, OutsideIsPlain DEF FollowLink, authVars, InFlight
<1> QED
  BY <1>1, <1>2, <1>3
     DEF Person, SendQuery, SubmitLogin, SubmitSignup, SubmitOtp, SubmitRequestReset, SubmitReset,
         HandleResendOtp, HandleResendCode, HandleLogout

LEMMA UnloadedCalls ==
  ASSUME NEW cs, NEW d \in DOMAIN Unloaded(cs), cs[d] \in CallType
  PROVE  /\ d \in DOMAIN cs /\ cs[d].at # "queued" /\ d \notin Queries
         /\ Unloaded(cs)[d].orphan
         /\ Unloaded(cs)[d].at = cs[d].at /\ Unloaded(cs)[d].status = cs[d].status
         /\ Unloaded(cs)[d].pw = cs[d].pw /\ Unloaded(cs)[d].late = cs[d].late
         /\ Unloaded(cs)[d].cookie = cs[d].cookie /\ Unloaded(cs)[d].set = cs[d].set
<1>1. d \in DOMAIN cs /\ cs[d].at # "queued" /\ d \notin Queries
        /\ Unloaded(cs)[d] = [cs[d] EXCEPT !.orphan = TRUE]
  BY DEF Unloaded
<1> QED
  BY <1>1 DEF CallType

LEMMA ReceiveIsPlain ==
  ASSUME SessionsOK, NEW c \in Calls, Receive(c)
  PROVE  PlainStep
<1> USE DEF At
<1>0. UNCHANGED <<user, tokens, faults>> => PlainRow /\ PlainTokens
  BY PlainFrames
<1>1. CASE StartRefresh(c)
  <2>1. /\ InFlight' = InFlight \cup {"refresh"} /\ c \in InFlight /\ calls[c].at = "done"
        /\ calls'["refresh"] = Request(Null, 0)
        /\ calls'[c] = [calls[c] EXCEPT !.at = "queued", !.retried = TRUE] /\ c # "refresh"
        /\ \A d \in InFlight \ {c} : d # "refresh" => calls'[d] = calls[d]
        /\ UNCHANGED <<user, tokens, faults>>
    BY <1>1 DEF StartRefresh, Arrived, Intercepted, InFlight
  <2>2. calls'["refresh"].at = "arrive" /\ calls'[c].at = "queued"
    BY <2>1, CookieTypes DEF Request, NewCall, CallType
  <2> QED
    BY <1>0, <2>1, <2>2, OutsideIsPlain
<1>2. CASE AwaitRefresh(c)
  <2>1. /\ Touches(c) /\ InFlight' = InFlight /\ c \in InFlight /\ calls[c].at = "done"
        /\ calls'[c] = [calls[c] EXCEPT !.at = "queued"]
        /\ UNCHANGED <<user, tokens, faults>>
    BY <1>2 DEF AwaitRefresh, Arrived, Go, Touches, InFlight
  <2>2. calls'[c].at = "queued"
    BY <2>1, CookieTypes DEF CallType
  <2> QED
    BY <1>0, <2>1, <2>2, OutsideIsPlain DEF Touches, InFlight
<1>3. CASE c = "refresh" /\ RefreshDone
  <2>0. UNCHANGED <<user, tokens, faults>> /\ PlainRow /\ PlainTokens
    BY <1>0, <1>3 DEF RefreshDone
  <2>1. CASE calls' = Replayed(calls["refresh"].grant, cookie')
    <3> DEFINE token == calls["refresh"].grant
               Fresh(d) == Request(calls[d].pw, calls[d].code)
    <3>1. /\ InFlight' = InFlight \ {"refresh"}
          /\ \A d \in InFlight' :
                calls'[d] = IF At(d, "queued")
                            THEN [Fresh(d) EXCEPT !.access = token, !.cookie = cookie',
                                                  !.retried = calls[d].retried]
                            ELSE calls[d]
      BY <2>1 DEF Replayed, InFlight
    <3>2. ASSUME NEW d \in InFlight', calls[d].at = "queued" PROVE calls'[d].at = "arrive"
      <4>0. calls[d].pw \in Passwords \cup {Null} /\ calls[d].code \in 0 .. codes
        BY <3>1, <3>2, CookieTypes DEF CallType
      <4>1. Fresh(d) \in CallType /\ Fresh(d).at = "arrive"
        BY <4>0, RequestTypes
      <4> HIDE DEF Fresh
      <4> QED
        BY <3>1, <3>2, <4>1 DEF CallType
    <3>3. \A d \in InFlight' : calls[d].at # "queued" => calls'[d] = calls[d]
      BY <3>1
    <3> QED
      BY <2>0, <3>1, <3>2, <3>3, OutsideIsPlain
  <2>2. CASE calls' = Rejected
    <3>1. InFlight' = {d \in InFlight \ {"refresh"} : calls[d].at # "queued"}
            /\ \A d \in InFlight' : calls'[d] = calls[d]
      BY <2>2 DEF Rejected, Without, InFlight
    <3> QED
      BY <2>0, <3>1, OutsideIsPlain
  <2>3. CASE calls' = Unloaded(Rejected)
    <3>1. DOMAIN Rejected = {d \in InFlight \ {"refresh"} : calls[d].at # "queued"}
            /\ \A d \in DOMAIN Rejected : Rejected[d] = calls[d] /\ Rejected[d] \in CallType
      BY CookieTypes DEF Rejected, Without
    <3>2. InFlight' = DOMAIN Rejected \ Queries
      BY <2>3, <3>1 DEF Unloaded, InFlight
    <3>3. \A d \in InFlight' : calls'[d].at = calls[d].at /\ calls'[d].pw = calls[d].pw
                               /\ calls'[d].late = calls[d].late
      BY <2>3, <3>1, <3>2, UnloadedCalls DEF InFlight
    <3>4. "reset" \notin Queries
      BY QueriesAssumption DEF Forms
    <3> QED
      BY <2>0, <3>1, <3>2, <3>3, <3>4, OutsideIsPlain
  <2> QED
    BY <1>3, <2>1, <2>2, <2>3 DEF RefreshDone
<1>4. CASE calls' = Without({c}) /\ c \in InFlight /\ calls[c].at = "done"
             /\ UNCHANGED <<user, tokens, faults>>
  <2>1. InFlight' = InFlight \ {c} /\ \A d \in InFlight' : calls'[d] = calls[d]
    BY <1>4 DEF Without, InFlight
  <2> QED
    BY <1>0, <1>4, <2>1, OutsideIsPlain
<1> QED
  BY <1>1, <1>2, <1>3, <1>4
     DEF Receive, OrphanAnswered, QueryAnswered, SignInAnswered, CodeAnswered,
         ResetAnswered, LogoutAnswered, Settle, Arrived

LEMMA EnvironmentIsPlain ==
  ASSUME SessionsOK, Environment
  PROVE  PlainStep
<1>1. CASE ExpireCode \/ \E n \in mails : ProcessMail(n)
  <2>1. PlainRow
    BY <1>1 DEF ExpireCode, ProcessMail, PlainRow, SessionsOK, ServerOK, UserOK
  <2> QED
    BY <1>1, <2>1, PlainFrames, OutsideIsPlain DEF ExpireCode, ProcessMail, InFlight
<1>2. ASSUME NEW c \in Calls, ServerError(c) \/ LoseAnswer(c) PROVE PlainStep
  <2>1. /\ c \in InFlight /\ Touches(c) /\ faults' = faults + 1 /\ UNCHANGED <<user, tokens>>
        /\ \/ calls'[c] = [calls[c] EXCEPT !.at = "done", !.status = "500"]
           \/ calls[c].at = "done"
               /\ calls'[c] = [calls[c] EXCEPT !.status = "lost", !.set = Null, !.grant = 0]
    BY <1>2 DEF ServerError, AtServer, Answer, LoseAnswer, At, Touches, InFlight
  <2>2. calls'[c].at = "done"
    BY <2>1, CookieTypes DEF CallType
  <2> QED
    BY <2>1, <2>2, PlainFrames, FaultIsPlain DEF Touches, InFlight
<1>3. CASE AccessExpires \/ CountdownEnds
  BY <1>3, PlainFrames, OutsideIsPlain DEF AccessExpires, CountdownEnds, authVars, InFlight
<1>4. CASE SessionExpires
  <2>1. PlainTokens
    BY <1>4, TokensStay DEF SessionExpires, PlainTokens, Token, SessionsOK, ServerOK
  <2> QED
    BY <1>4, <2>1, PlainFrames, OutsideIsPlain DEF SessionExpires, InFlight
<1>5. CASE Reload
  <2>1. \A d \in InFlight' :
           /\ d \in InFlight /\ calls'[d].at = calls[d].at
           /\ calls'[d].pw = calls[d].pw /\ calls'[d].late = calls[d].late
    <3>1. ASSUME NEW d \in InFlight'
          PROVE  /\ d \in InFlight /\ calls'[d].at = calls[d].at
                 /\ calls'[d].pw = calls[d].pw /\ calls'[d].late = calls[d].late
      <4>1. calls' = Unloaded(calls) /\ d \in DOMAIN Unloaded(calls) /\ d \in InFlight
        BY <1>5, <3>1 DEF Reload, InFlight, Unloaded
      <4> QED
        BY <4>1, CookieTypes, UnloadedCalls
    <3> QED
      BY <3>1
  <2> QED
    BY <1>5, <2>1, PlainFrames, FaultIsPlain DEF Reload
<1> QED
  BY <1>1, <1>2, <1>3, <1>4, <1>5 DEF Environment

LEMMA ResetStep == SessionsOK /\ ResetInv /\ [NextPortal]_portalVars => ResetInv'
<1> SUFFICES ASSUME SessionsOK, ResetInv, [NextPortal]_portalVars PROVE ResetInv'
  OBVIOUS
<1>1. ASSUME NEW c \in Calls, Serve(c) PROVE ResetInv'
  BY <1>1, HandleResets DEF Serve
<1>2. CASE Environment \/ Person \/ \E c \in Calls : Receive(c)
  BY <1>2, EnvironmentIsPlain, PersonIsPlain, ReceiveIsPlain, PlainKeeps
<1>3. CASE UNCHANGED portalVars
  <2>1. PlainStep
    BY <1>3, PlainFrames, OutsideIsPlain DEF portalVars, authVars, InFlight
  <2> QED
    BY <2>1, PlainKeeps
<1> QED
  BY <1>1, <1>2, <1>3 DEF NextPortal

(* As long as no call to the database fails: once a reset has revoked the    *)
(* sessions, those that remain know the new password, or were being opened   *)
(* while it revoked.  However sign-ins, refreshes and resets interleave.     *)
THEOREM ResetCorrect == Spec => []ResetEndsSessions
<1>1. Init => ResetInv
  <2> SUFFICES ASSUME InitPortal PROVE ResetInv
    BY DEF Init
  <2>0. DOMAIN <<>> = {}
    OBVIOUS
  <2>1. InFlight = {}
    BY <2>0 DEF InitPortal, InFlight
  <2>2. CASE user = NoUser /\ tokens = <<>>
    BY <2>0, <2>1, <2>2 DEF ResetInv, CreatesOnce, NoneYet, AllCurrent, NoUser, At
  <2>3. ASSUME NEW pw \in Passwords,
               user = [NoUser EXCEPT !.exists = TRUE, !.password = pw, !.verified = TRUE, !.hasKey = TRUE],
               tokens = <<[status |-> "live", pw |-> pw, late |-> FALSE]>>
        PROVE  ResetInv
    <3>1. user.exists /\ user.password = pw
      BY <2>3 DEF NoUser
    <3>2. \A i \in DOMAIN tokens : tokens[i].pw = pw
      BY <2>3
    <3> QED
      BY <2>1, <3>1, <3>2 DEF ResetInv, CreatesOnce, NoneYet, AllCurrent, HasCurrentPassword, At
  <2> QED
    BY <2>2, <2>3 DEF InitPortal
<1>2. SessionsOK /\ ResetInv /\ [Next]_vars => ResetInv'
  BY ResetStep, PortalSteps
<1>3. ResetInv => ResetEndsSessions
  BY DEF ResetInv, AllCurrent, ResetPending, HasCurrentPassword, ResetEndsSessions
<1> QED
  BY <1>1, <1>2, <1>3, AlwaysSessionsOK, PTL DEF Spec

-----------------------------------------------------------------------------
(* Signed out for cause.  As long as nothing has happened that may end a     *)
(* session and nothing has failed (Calm): every cookie on its way to the     *)
(* browser is a live token that no other answer carries; the browser's own   *)
(* cookie is live, or the refresh that consumed it is about to replace it;   *)
(* and a refresh in flight presents a live token, which only itself revokes. *)
Live(n) == n \in DOMAIN tokens /\ tokens[n].status = "live"

Openers == {"login", "verify", "refresh"}

Calm == ~cause /\ faults = 0

CarriesLive(c) ==
    calls[c].set # Null =>
        /\ c \in Openers /\ calls[c].at = "done" /\ calls[c].status = "ok"
        /\ Live(calls[c].set) /\ calls[c].set # cookie

CalmCall(c) ==
    /\ ~calls[c].orphan /\ c \notin {"logout", "reset"}
    /\ CarriesLive(c)
    /\ c \in Openers /\ calls[c].at = "done" /\ calls[c].status = "ok" => calls[c].set # Null

CalmCalls ==
    /\ \A c \in InFlight : CalmCall(c)
    /\ \A c, d \in InFlight : c # d /\ calls[c].set # Null => calls[c].set # calls[d].set

CookieIsGood ==
    store.auth =>
        \/ Live(cookie)
        \/ /\ At("refresh", "issue") \/ At("refresh", "done")
           /\ calls["refresh"].cookie = cookie

RefreshIsGood ==
    "refresh" \in InFlight =>
        /\ store.auth /\ calls["refresh"].at \in {"arrive", "revoke", "issue", "done"}
        /\ calls["refresh"].at \in {"arrive", "revoke"} => Live(calls["refresh"].cookie)
        /\ calls["refresh"].at = "done" => calls["refresh"].status = "ok"
        /\ \A c \in InFlight : c # "refresh" => calls[c].set # calls["refresh"].cookie

SignedInWork ==
    /\ page = "dashboard" => store.auth
    /\ \A q \in Queries : q \in InFlight => store.auth

CauseInv == Calm => CalmCalls /\ CookieIsGood /\ RefreshIsGood /\ SignedInWork

(* A step that ends no session, opens none and lets no cookie arrive. *)
QuietCall(c) ==
    \/ /\ c \in InFlight
       /\ calls'[c].set = calls[c].set /\ calls'[c].orphan = calls[c].orphan
       /\ calls'[c].at = calls[c].at /\ calls'[c].status = calls[c].status
    \/ /\ calls'[c].set = Null /\ ~calls'[c].orphan /\ c \notin {"logout", "reset", "refresh"}
       /\ c \in Openers => ~(calls'[c].at = "done" /\ calls'[c].status = "ok")
       /\ c \in Queries => store.auth

QuietRefresh ==
    /\ "refresh" \in InFlight' <=> "refresh" \in InFlight
    /\ "refresh" \in InFlight =>
          /\ calls'["refresh"].at = calls["refresh"].at
          /\ calls'["refresh"].status = calls["refresh"].status
          /\ calls'["refresh"].cookie = calls["refresh"].cookie

QuietStep ==
    Calm' => /\ Calm /\ \A n : Live(n) => Live(n)'
             /\ QuietRefresh /\ \A c \in InFlight' : QuietCall(c)
             /\ cookie' = cookie /\ store'.auth = store.auth
             /\ page' = "dashboard" => page = "dashboard" \/ store.auth

LEMMA QuietKeeps ==
  ASSUME SessionsOK, CauseInv, QuietStep, Calm'
  PROVE  CalmCalls' /\ CookieIsGood' /\ RefreshIsGood' /\ SignedInWork'
<1>0. CalmCalls /\ CookieIsGood /\ RefreshIsGood /\ SignedInWork
  BY DEF QuietStep, CauseInv
<1>1. /\ Calm /\ \A n : Live(n) => Live(n)'
      /\ QuietRefresh /\ \A c \in InFlight' : QuietCall(c)
      /\ cookie' = cookie /\ store'.auth = store.auth
      /\ page' = "dashboard" => page = "dashboard" \/ store.auth
  BY DEF QuietStep
<1>2. \A c \in InFlight' : calls'[c].set # Null => c \in InFlight /\ calls'[c].set = calls[c].set
  BY <1>1 DEF QuietCall
<1>3. ASSUME NEW c \in InFlight' PROVE CalmCall(c)'
  <2>1. CASE c \in InFlight /\ calls'[c].set = calls[c].set /\ calls'[c].orphan = calls[c].orphan
              /\ calls'[c].at = calls[c].at /\ calls'[c].status = calls[c].status
    <3>1. CalmCall(c)
      BY <1>0, <2>1 DEF CalmCalls
    <3>2. \A n : Live(n) => n \in DOMAIN tokens' /\ tokens'[n].status = "live"
      BY <1>1 DEF Live
    <3> QED
      BY <1>1, <2>1, <3>1, <3>2 DEF CalmCall, CarriesLive, Live
  <2>2. CASE /\ calls'[c].set = Null /\ ~calls'[c].orphan /\ c \notin {"logout", "reset", "refresh"}
             /\ c \in Openers => ~(calls'[c].at = "done" /\ calls'[c].status = "ok")
    BY <2>2 DEF CalmCall, CarriesLive
  <2> QED
    BY <1>1, <1>3, <2>1, <2>2 DEF QuietCall
<1>4. CalmCalls'
  <2>1. ASSUME NEW c \in InFlight', NEW d \in InFlight', c # d, calls'[c].set # Null
        PROVE  calls'[c].set # calls'[d].set
    <3>1. CASE calls'[d].set = Null
      BY <2>1, <3>1
    <3>2. CASE calls'[d].set # Null
      BY <1>0, <1>2, <2>1, <3>2 DEF CalmCalls
    <3> QED
      BY <3>1, <3>2
  <2> QED
    BY <1>3, <2>1 DEF CalmCalls
<1>5. CookieIsGood'
  BY <1>0, <1>1 DEF CookieIsGood, QuietRefresh, At, Live
<1>6. RefreshIsGood'
  <2>1. SUFFICES ASSUME "refresh" \in InFlight' PROVE RefreshIsGood'
    BY DEF RefreshIsGood
  <2>2. /\ "refresh" \in InFlight /\ calls'["refresh"].cookie = calls["refresh"].cookie
        /\ calls["refresh"].cookie \in Nat
    BY <1>1, <2>1, CookieTypes, SessionFrames DEF QuietRefresh, CallType, Ids, Counts
  <2>3. \A c \in InFlight' : c # "refresh" => calls'[c].set # calls'["refresh"].cookie
    BY <1>0, <1>2, <2>2, NullAssumption DEF RefreshIsGood
  <2>4. \A n : Live(n) => n \in DOMAIN tokens' /\ tokens'[n].status = "live"
    BY <1>1 DEF Live
  <2> QED
    BY <1>0, <1>1, <2>2, <2>3, <2>4 DEF RefreshIsGood, QuietRefresh, Live
<1>7. SignedInWork'
  BY <1>0, <1>1 DEF SignedInWork, QuietCall
<1> QED
  BY <1>4, <1>5, <1>6, <1>7

(* What holds of the calls in flight, as facts about one of them. *)
LEMMA CalmFacts ==
  ASSUME SessionsOK, CauseInv, Calm
  PROVE  /\ \A c \in InFlight : calls[c].at # "done" => calls[c].set = Null
         /\ \A c \in InFlight : c \notin Openers => calls[c].set = Null
         /\ \A c \in InFlight : calls[c].status # "ok" => calls[c].set = Null
         /\ \A c \in InFlight : ~calls[c].orphan /\ c \notin {"logout", "reset"}
         /\ CalmCalls /\ CookieIsGood /\ RefreshIsGood /\ SignedInWork
BY DEF CauseInv, CalmCalls, CalmCall, CarriesLive

(* The handlers of all calls but the refresh, up to the tokens. *)
LEMMA ServesQuietly ==
  ASSUME SessionsOK, CauseInv, NEW c \in Calls, c # "refresh", Handle(c),
         ~(c \in Openers /\ IssueTokens(c)), UNCHANGED clientVars
  PROVE  QuietStep
<1> SUFFICES ASSUME Calm' PROVE QuietStep
  BY DEF QuietStep
<1> USE DEF At
<1>1. Calm
  BY DEF Calm, clientVars, Handle, StoreCode, QueueMail, Signup, Resend, RequestPasswordReset, Login,
         VerifyOTP, ResetPassword, IssueTokens, ValidateRefreshToken, ReuseAlarm,
         RevokeRefreshToken, Logout, ServeQuery
<1>2. Served(c) /\ c \in InFlight
  BY EveryServed DEF Served
<1>3. c \notin {"logout", "reset"} /\ calls[c].set = Null /\ ~calls[c].orphan
  BY <1>1, <1>2, CalmFacts DEF Served
<1>4. Touches(c)
  BY <1>3, HandleTouches
<1>5. UNCHANGED tokens /\ calls'[c].set = Null
        /\ (c \in Openers => ~(calls'[c].at = "done" /\ calls'[c].status = "ok"))
  <2>0. calls[c] \in CallType
    BY <1>2, CookieTypes
  <2>1. CASE c \in {"signup", "resend", "forgot", "recode"} /\ StoreCode(c)
    <3>1. calls'[c] = [calls[c] EXCEPT !.at = "mail", !.code = codes']
      BY <1>2, <2>1 DEF StoreCode, InFlight
    <3>2. calls'[c].set = calls[c].set
      BY <2>0, <3>1 DEF CallType
    <3>3. UNCHANGED tokens
      BY <2>1 DEF StoreCode
    <3> QED
      BY <1>3, <2>1, <3>2, <3>3 DEF Openers
  <2>2. CASE \/ c = "signup" /\ Signup
             \/ c = "resend" /\ Resend
             \/ c \in {"forgot", "recode"} /\ RequestPasswordReset(c)
             \/ c \in {"signup", "resend", "forgot", "recode"} /\ QueueMail(c)
    <3>1. \/ \E step \in {"create", "code"} : Go(c, step)
          \/ \E code \in {"ok", "401", "409"} : Answer(c, code)
      BY <2>2, Zenon DEF Signup, Resend, RequestPasswordReset, QueueMail
    <3>2. \/ \E step : calls'[c] = [calls[c] EXCEPT !.at = step]
          \/ \E code : calls'[c] = [calls[c] EXCEPT !.at = "done", !.status = code]
      BY <1>2, <3>1 DEF Go, Answer, InFlight
    <3>3. UNCHANGED tokens
      BY <2>2 DEF Signup, Resend, RequestPasswordReset, QueueMail
    <3> QED
      BY <1>3, <2>0, <2>2, <3>2, <3>3 DEF CallType, Openers
  <2>3. CASE c = "login" /\ Login
    <3>1. \/ calls'[c] = [calls[c] EXCEPT !.at = "issue"]
          \/ calls'[c] = [calls[c] EXCEPT !.at = "done", !.status = "401"]
      BY <1>2, <2>3 DEF Login, Go, Answer, InFlight
    <3> QED
      BY <1>3, <2>0, <2>3, <3>1 DEF Login, CallType
  <2>4. CASE c = "verify" /\ VerifyOTP
    <3>1. \/ calls'[c] = [calls[c] EXCEPT !.at = "verify", !.pw = user.password]
          \/ \E step \in {"key", "issue"} : calls'[c] = [calls[c] EXCEPT !.at = step]
          \/ calls'[c] = [calls[c] EXCEPT !.at = "done", !.status = "401"]
      BY <1>2, <2>4 DEF VerifyOTP, Go, Answer, InFlight
    <3> QED
      BY <1>3, <2>0, <2>4, <3>1 DEF VerifyOTP, CallType
  <2>5. CASE c \in Queries /\ ServeQuery(c)
    <3>1. \E code : calls'[c] = [calls[c] EXCEPT !.at = "done", !.status = code]
      BY <1>2, <2>5 DEF ServeQuery, Answer, InFlight
    <3> QED
      BY <1>3, <2>0, <2>5, <3>1, QueriesAssumption DEF ServeQuery, CallType, Openers, Forms
  <2> QED
    BY <1>3, <2>1, <2>2, <2>3, <2>4, <2>5 DEF Handle, Openers
<1>6. QuietCall(c)
  <2>1. ~calls'[c].orphan
    BY <1>2, <1>3 DEF Served, KeepsRequest
  <2>2. c \in Queries => store.auth
    BY <1>1, <1>2, CalmFacts DEF SignedInWork
  <2> QED
    BY <1>3, <1>5, <2>1, <2>2 DEF QuietCall
<1>7. \A d \in InFlight' : QuietCall(d)
  BY <1>4, <1>6 DEF Touches, QuietCall, InFlight
<1>8. QuietRefresh
  BY <1>4 DEF Touches, QuietRefresh, InFlight
<1> QED
  BY <1>1, <1>5, <1>7, <1>8 DEF QuietStep, Live, clientVars

(* The refresh: it finds its token live, revokes it and nobody else's. *)
LEMMA ServesRefresh ==
  ASSUME SessionsOK, CauseInv, Calm, Handle("refresh"), ~IssueTokens("refresh"),
         UNCHANGED clientVars
  PROVE  CauseInv'
<1> DEFINE r == calls["refresh"]
           n == r.cookie
<1> USE DEF At
<1>1. Served("refresh") /\ Touches("refresh") /\ "refresh" \in InFlight
  BY EveryServed, HandleTouches DEF Served, Calls
<1>2. /\ r \in CallType /\ r.set = Null /\ ~r.orphan /\ store.auth
      /\ CalmCalls /\ CookieIsGood /\ RefreshIsGood /\ SignedInWork
  BY <1>1, CookieTypes, CalmFacts DEF Served, RefreshIsGood
<1>3. InFlight' = InFlight /\ \A d \in InFlight : d # "refresh" => calls'[d] = calls[d]
  BY <1>1 DEF Touches, InFlight
<1>4. UNCHANGED <<cookie, store, page>>
  BY DEF clientVars
<1>5. /\ DOMAIN tokens = 1 .. Len(tokens) /\ Len(tokens) \in Nat
      /\ \A i \in DOMAIN tokens : tokens[i] \in Token
  BY TokensStay DEF SessionsOK, ServerOK
<1>6. \/ /\ r.at = "arrive" /\ calls'["refresh"].at = "revoke" /\ Live(n) /\ UNCHANGED tokens
         /\ calls'["refresh"].set = Null /\ calls'["refresh"].cookie = n
      \/ /\ r.at = "revoke" /\ calls'["refresh"].at = "issue" /\ Live(n)
         /\ tokens' = [tokens EXCEPT ![n].status = "revoked"]
         /\ calls'["refresh"].set = Null /\ calls'["refresh"].cookie = n
  <2>1. CASE ValidateRefreshToken
    <3>1. Live(n) /\ n # 0 /\ r.at = "arrive"
      BY <1>1, <1>2, <1>5, <2>1 DEF RefreshIsGood, ValidateRefreshToken, Live
    <3>2. /\ calls'["refresh"] = [r EXCEPT !.at = "revoke", !.pw = tokens[n].pw, !.late = tokens[n].late]
          /\ UNCHANGED tokens
      BY <1>1, <2>1, <3>1 DEF ValidateRefreshToken, Live, InFlight
    <3> HIDE DEF r
    <3>3. r = calls["refresh"] /\ n = r.cookie
      BY DEF r
    <3> QED
      BY <1>2, <3>1, <3>2 DEF CallType
  <2>2. CASE RevokeRefreshToken("refresh")
    <3>1. Live(n) /\ r.at = "revoke" /\ tokens' = [tokens EXCEPT ![n].status = "revoked"]
      BY <1>1, <1>2, <2>2 DEF RefreshIsGood, RevokeRefreshToken
    <3>2. calls'["refresh"] = [r EXCEPT !.at = "issue"]
      BY <1>1, <2>2 DEF RevokeRefreshToken, Go, InFlight
    <3> QED
      BY <1>2, <3>1, <3>2 DEF CallType
  <2>3. ~ReuseAlarm
    BY <1>1, <1>2 DEF RefreshIsGood, ReuseAlarm
  <2> QED
    BY <2>1, <2>2, <2>3, QueriesAssumption DEF Handle
<1>7. ~calls'["refresh"].orphan
  BY <1>1, <1>2 DEF Served, KeepsRequest
<1>8. \A m : Live(m) /\ (m = n => r.at = "arrive")
                => m \in DOMAIN tokens' /\ tokens'[m].status = "live"
  <2>1. CASE r.at = "arrive"
    BY <1>6, <2>1 DEF Live
  <2>2. CASE r.at = "revoke"
    BY <1>5, <1>6, <2>2 DEF Live
  <2> QED
    BY <1>6, <2>1, <2>2
<1> HIDE DEF r
<1>9. CalmCalls'
  <2>1. CalmCall("refresh")'
    BY <1>6, <1>7 DEF CalmCall, CarriesLive
  <2>2. ASSUME NEW d \in InFlight, d # "refresh" PROVE CalmCall(d)'
    <3>1. CalmCall(d) /\ calls'[d] = calls[d]
      BY <1>2, <1>3, <2>2 DEF CalmCalls
    <3>2. calls[d].set # n
      BY <1>1, <1>2, <2>2 DEF RefreshIsGood, r
    <3> QED
      BY <1>4, <1>8, <3>1, <3>2 DEF CalmCall, CarriesLive, Live
  <2>3. \A d, e \in InFlight : d # e /\ calls'[d].set # Null => calls'[d].set # calls'[e].set
    BY <1>2, <1>3, <1>6 DEF CalmCalls, r
  <2> QED
    BY <1>3, <2>1, <2>2, <2>3 DEF CalmCalls
<1>10. CookieIsGood'
  <2>1. Live(cookie)
    BY <1>2, <1>6 DEF CookieIsGood, r
  <2>2. CASE cookie = n /\ r.at = "revoke"
    BY <1>1, <1>3, <1>4, <1>6, <2>2 DEF CookieIsGood
  <2>3. CASE cookie = n => r.at = "arrive"
    BY <1>4, <1>8, <2>1, <2>3 DEF CookieIsGood, Live
  <2> QED
    BY <1>6, <2>2, <2>3
<1>11. RefreshIsGood'
  <2>2. \A d \in InFlight : d # "refresh" => calls'[d].set # n
    BY <1>1, <1>2, <1>3 DEF RefreshIsGood, r
  <2> QED
    BY <1>2, <1>3, <1>4, <1>6, <2>2 DEF RefreshIsGood, Live
<1>12. SignedInWork'
  BY <1>2, <1>3, <1>4 DEF SignedInWork
<1> QED
  BY <1>9, <1>10, <1>11, <1>12 DEF CauseInv

(* A new token is the newest: no cookie and no other answer is it. *)
LEMMA IssuesCalmly ==
  ASSUME SessionsOK, CauseInv, Calm, NEW c \in Openers, IssueTokens(c), UNCHANGED clientVars
  PROVE  CauseInv'
<1> DEFINE new == Len(tokens) + 1
           t == [status |-> "live", pw |-> calls[c].pw, late |-> calls[c].late]
<1>1. /\ c \in InFlight /\ calls[c].at = "issue" /\ calls[c] \in CallType /\ Fits(c, calls[c])
      /\ tokens' = Append(tokens, t) /\ tokens \in Seq(Token)
  BY CookieTypes DEF IssueTokens, At, SessionsOK, ServerOK
<1>2. t \in Token
  BY <1>1 DEF Token, CallType, Fits, Openers, Opening
<1>3. /\ Len(tokens) \in Nat /\ DOMAIN tokens = 1 .. Len(tokens)
      /\ Len(tokens') = new /\ DOMAIN tokens' = 1 .. new
      /\ \A i \in DOMAIN tokens' : tokens'[i] = IF i = new THEN t ELSE tokens[i]
  <2> HIDE DEF t
  <2>1. /\ Len(Append(tokens, t)) = Len(tokens) + 1 /\ DOMAIN Append(tokens, t) = 1 .. Len(tokens) + 1
        /\ \A i \in DOMAIN Append(tokens, t) :
              Append(tokens, t)[i] = IF i = Len(tokens) + 1 THEN t ELSE tokens[i]
    BY <1>1, <1>2, TokensGrow
  <2> QED
    BY <1>1, <2>1, TokensStay
<1>4. new \in DOMAIN tokens' /\ tokens'[new].status = "live"
  BY <1>3
<1>5. \A m : Live(m) => m # new /\ m \in DOMAIN tokens' /\ tokens'[m].status = "live"
  BY <1>3 DEF Live
<1>6. /\ CalmCalls /\ CookieIsGood /\ RefreshIsGood /\ SignedInWork
      /\ ~calls[c].orphan /\ calls[c].set = Null
  BY <1>1, CalmFacts
<1>7. /\ InFlight' = InFlight /\ \A d \in InFlight : d # c => calls'[d] = calls[d]
      /\ calls'[c] = [calls[c] EXCEPT !.at = "done", !.status = "ok", !.set = new, !.grant = new]
  BY <1>1, <1>3 DEF IssueTokens, InFlight
<1> HIDE DEF new
<1>8. /\ calls'[c].at = "done" /\ calls'[c].status = "ok" /\ calls'[c].set = new
      /\ calls'[c].cookie = calls[c].cookie /\ ~calls'[c].orphan
  BY <1>1, <1>6, <1>7 DEF CallType
<1>9. UNCHANGED <<cookie, store, page>> /\ cookie \in Ids /\ \A d \in InFlight : calls[d].cookie \in Ids
  BY CookieTypes DEF clientVars, SessionsOK, ClientOK, CallType
<1>10. new \notin Ids /\ new # Null
  BY <1>3, NullAssumption DEF Ids, new
<1>11. CalmCalls'
  <2>1. CalmCall(c)'
    <3>1. c \in Openers /\ c \notin {"logout", "reset"}
      BY DEF Openers
    <3>2. calls'[c].set # cookie
      BY <1>8, <1>9, <1>10
    <3>3. CarriesLive(c)'
      BY <1>4, <1>8, <1>9, <3>1, <3>2 DEF CarriesLive, Live
    <3> QED
      BY <1>8, <1>10, <3>1, <3>3 DEF CalmCall
  <2>2. ASSUME NEW d \in InFlight, d # c PROVE CalmCall(d)'
    <3>1. CalmCall(d) /\ calls'[d] = calls[d]
      BY <1>6, <1>7, <2>2 DEF CalmCalls
    <3> QED
      BY <1>5, <1>9, <3>1 DEF CalmCall, CarriesLive, Live
  <2>3. \A d \in InFlight : d # c => calls'[d].set # new
    <3>1. ASSUME NEW d \in InFlight, d # c PROVE calls'[d].set # new
      <4>1. calls'[d].set \in Ids \cup {Null}
        BY <1>7, <3>1, CookieTypes DEF CallType
      <4> QED
        BY <1>10, <4>1
    <3> QED
      BY <3>1
  <2>4. ASSUME NEW d \in InFlight, NEW e \in InFlight, d # e, calls'[d].set # Null
        PROVE  calls'[d].set # calls'[e].set
    <3>1. CASE d = c \/ e = c
      BY <1>8, <2>3, <2>4, <3>1
    <3>2. CASE d # c /\ e # c
      BY <1>6, <1>7, <2>4, <3>2 DEF CalmCalls
    <3> QED
      BY <3>1, <3>2
  <2>5. \A d \in InFlight : CalmCall(d)'
    BY <2>1, <2>2
  <2> QED
    BY <1>7, <2>4, <2>5 DEF CalmCalls
<1>12. CookieIsGood'
  <2>1. "refresh" \in InFlight => calls'["refresh"].cookie = calls["refresh"].cookie
          /\ (c # "refresh" => calls'["refresh"].at = calls["refresh"].at)
    BY <1>7, <1>8
  <2>2. c = "refresh" => At("refresh", "done")'
    BY <1>1, <1>7, <1>8 DEF At, InFlight
  <2> QED
    BY <1>1, <1>5, <1>6, <1>7, <1>9, <2>1, <2>2 DEF CookieIsGood, Live, At, InFlight
<1>13. RefreshIsGood'
  <2>1. SUFFICES ASSUME "refresh" \in InFlight PROVE RefreshIsGood'
    BY <1>7 DEF RefreshIsGood
  <2>2. /\ store.auth /\ calls["refresh"].at \in {"arrive", "revoke", "issue", "done"}
        /\ calls["refresh"].at \in {"arrive", "revoke"} => Live(calls["refresh"].cookie)
        /\ calls["refresh"].at = "done" => calls["refresh"].status = "ok"
        /\ \A d \in InFlight : d # "refresh" => calls[d].set # calls["refresh"].cookie
    BY <1>6, <2>1 DEF RefreshIsGood
  <2>3. calls'["refresh"].cookie = calls["refresh"].cookie /\ calls["refresh"].cookie # new
    BY <1>7, <1>8, <1>9, <1>10, <2>1
  <2>4. \A d \in InFlight : d # "refresh" => calls'[d].set # calls["refresh"].cookie
    BY <1>7, <1>8, <2>2, <2>3
  <2>5. CASE c = "refresh"
    BY <1>7, <1>8, <1>9, <2>2, <2>3, <2>4, <2>5 DEF RefreshIsGood
  <2>6. CASE c # "refresh"
    BY <1>5, <1>7, <1>9, <2>1, <2>2, <2>4, <2>6 DEF RefreshIsGood, Live
  <2> QED
    BY <2>5, <2>6
<1>14. SignedInWork'
  BY <1>6, <1>7, <1>9 DEF SignedInWork
<1> QED
  BY <1>11, <1>12, <1>13, <1>14 DEF CauseInv

LEMMA ServesCalmly ==
  ASSUME SessionsOK, CauseInv, NEW c \in Calls, Serve(c)
  PROVE  CauseInv'
<1>1. SUFFICES ASSUME Calm' PROVE CauseInv'
  BY DEF CauseInv
<1>2. Calm
  BY <1>1 DEF Calm, Serve, clientVars, Handle, StoreCode, QueueMail, Signup, Resend,
         RequestPasswordReset, Login, VerifyOTP, ResetPassword, IssueTokens, ValidateRefreshToken,
         ReuseAlarm, RevokeRefreshToken, Logout, ServeQuery
<1>3. CASE IssueTokens(c) /\ c \in Openers
  BY <1>2, <1>3, IssuesCalmly DEF Serve
<1>4. CASE c = "refresh" /\ ~IssueTokens(c)
  BY <1>2, <1>4, ServesRefresh DEF Serve
<1>5. CASE c # "refresh" /\ ~(c \in Openers /\ IssueTokens(c))
  BY <1>1, <1>5, ServesQuietly, QuietKeeps DEF Serve, CauseInv
<1> QED
  BY <1>3, <1>4, <1>5 DEF Openers

(* The person and the environment. *)
LEMMA OutsideQuietly ==
  ASSUME SessionsOK, CauseInv, Person \/ Environment
  PROVE  QuietStep
<1>1. SUFFICES ASSUME Calm' PROVE QuietStep
  BY DEF QuietStep
<1>2. ASSUME NEW c, NEW pw, NEW code, Send(c, pw, code), c \notin {"logout", "reset", "refresh"},
             c \in Queries => page = "dashboard",
             UNCHANGED <<tokens, faults, cookie, store, page, cause>>
      PROVE  QuietStep
  <2>1. /\ InFlight' = InFlight \cup {c} /\ \A d \in InFlight : calls'[d] = calls[d]
        /\ c \notin InFlight /\ calls'[c] = Request(pw, code)
    BY <1>2 DEF Send, InFlight
  <2>2. calls'[c].set = Null /\ ~calls'[c].orphan /\ calls'[c].at = "arrive"
    BY <2>1 DEF Request, NewCall
  <2>3. Calm /\ (c \in Queries => store.auth)
    BY <1>1, <1>2, CalmFacts DEF Calm, SignedInWork
  <2>4. QuietCall(c) /\ \A d \in InFlight : QuietCall(d)
    BY <1>2, <2>1, <2>2, <2>3 DEF QuietCall
  <2>5. QuietRefresh
    BY <1>2, <2>1 DEF QuietRefresh
  <2> QED
    BY <1>2, <2>1, <2>3, <2>4, <2>5 DEF QuietStep, Live
<1>3. CASE Person
  <2>1. ASSUME NEW c \in {"login", "signup", "verify", "forgot", "resend", "recode"}, NEW pw, NEW code,
               Submit(c, pw, code), UNCHANGED cause
        PROVE  QuietStep
    <3>1. c \notin Queries
      BY QueriesAssumption DEF Forms
    <3> QED
      BY <1>2, <2>1, <3>1 DEF Submit
  <2>2. ~(SubmitReset \/ HandleLogout)
    BY <1>1 DEF Calm, SubmitReset, HandleLogout
  <2>3. ASSUME NEW q \in Queries, SendQuery(q) PROVE QuietStep
    <3>1. q \notin {"logout", "reset", "refresh"}
      BY QueriesAssumption DEF Forms
    <3> QED
      BY <1>2, <2>3, <3>1 DEF SendQuery, clientVars
  <2>4. CASE FollowLink
    <3>1. UNCHANGED <<tokens, faults, calls, cookie, store, cause>> /\ page' # "dashboard"
      BY <2>4 DEF FollowLink, authVars, Links, StepsBack
    <3>2. Calm /\ InFlight' = InFlight
      BY <1>1, <3>1 DEF Calm, InFlight
    <3> QED
      BY <3>1, <3>2 DEF QuietStep, QuietCall, QuietRefresh, Live
  <2>5. \/ SubmitReset \/ HandleLogout \/ FollowLink \/ \E q \in Queries : SendQuery(q)
        \/ \E c \in {"login", "signup", "verify", "forgot", "resend", "recode"} :
              \E pw, code : Submit(c, pw, code) /\ UNCHANGED cause
    BY <1>3 DEF Person, SubmitLogin, SubmitSignup, SubmitOtp, SubmitRequestReset,
                HandleResendOtp, HandleResendCode
  <2> QED
    BY <2>1, <2>2, <2>3, <2>4, <2>5
<1>4. CASE Environment
  <2>1. faults \in Nat
    BY BoundsAssumption DEF SessionsOK, ServerOK
  <2>2. ~(SessionExpires \/ Reload \/ \E c \in Calls : ServerError(c) \/ LoseAnswer(c))
    <3>1. SessionExpires => cause'
      BY DEF SessionExpires
    <3>2. Reload => faults' = faults + 1
      BY DEF Reload
    <3>3. \A c \in Calls : ServerError(c) \/ LoseAnswer(c) => faults' = faults + 1
      BY DEF ServerError, LoseAnswer
    <3>4. ~cause' /\ faults' # faults + 1
      BY <1>1, <2>1 DEF Calm
    <3> QED
      BY <3>1, <3>2, <3>3, <3>4
  <2>3. UNCHANGED <<tokens, faults, calls, cookie, store, cause, page>>
    BY <1>4, <2>2 DEF Environment, ProcessMail, ExpireCode, AccessExpires, CountdownEnds,
                      clientVars, authVars
  <2>4. Calm /\ InFlight' = InFlight
    BY <1>1, <2>3 DEF Calm, InFlight
  <2> QED
    BY <2>3, <2>4 DEF QuietStep, QuietCall, QuietRefresh, Live
<1> QED
  BY <1>3, <1>4

(* A refresh is started by a query alone, with the cookie there is. *)
LEMMA StartsCalmly ==
  ASSUME SessionsOK, CauseInv, NEW c \in Calls, StartRefresh(c), Calm'
  PROVE  CauseInv'
<1>0. Calm /\ c \in Queries /\ UNCHANGED <<tokens, cookie, store, page>>
  BY DEF StartRefresh, Calm
<1>1. /\ InFlight' = InFlight \cup {"refresh"} /\ "refresh" \notin InFlight /\ c \in InFlight
      /\ calls'["refresh"] = Request(Null, 0)
      /\ calls'[c] = [calls[c] EXCEPT !.at = "queued", !.retried = TRUE]
      /\ \A d \in InFlight \ {c} : calls'[d] = calls[d]
  BY DEF StartRefresh, Arrived, At, InFlight
<1>2. /\ CalmCalls /\ CookieIsGood /\ SignedInWork
      /\ c \notin Openers /\ calls[c].set = Null /\ ~calls[c].orphan
  BY <1>0, <1>1, CalmFacts, QueriesAssumption DEF Openers, Forms
<1>3. store.auth /\ Live(cookie)
  BY <1>0, <1>1, <1>2 DEF SignedInWork, CookieIsGood, At
<1>4. calls'[c].set = Null /\ ~calls'[c].orphan
  BY <1>1, <1>2, CookieTypes DEF CallType
<1>5. /\ calls'["refresh"].at = "arrive" /\ calls'["refresh"].set = Null
      /\ calls'["refresh"].cookie = cookie /\ ~calls'["refresh"].orphan
  BY <1>1 DEF Request, NewCall
<1>6. CalmCalls'
  <2>1. CalmCall(c)' /\ CalmCall("refresh")'
    BY <1>1, <1>2, <1>4, <1>5, CalmFacts, <1>0 DEF CalmCall, CarriesLive
  <2>2. ASSUME NEW d \in InFlight, d # c PROVE CalmCall(d)'
    BY <1>0, <1>1, <1>2, <2>2 DEF CalmCalls, CalmCall, CarriesLive, Live
  <2>3. ASSUME NEW d \in InFlight', NEW e \in InFlight', d # e, calls'[d].set # Null
        PROVE  calls'[d].set # calls'[e].set
    <3>1. d \in InFlight \ {c} /\ calls'[d] = calls[d]
      BY <1>1, <1>4, <1>5, <2>3
    <3>2. CASE calls'[e].set = Null
      BY <2>3, <3>2
    <3>3. CASE calls'[e].set # Null
      <4>1. e \in InFlight \ {c} /\ calls'[e] = calls[e]
        BY <1>1, <1>4, <1>5, <3>3
      <4> QED
        BY <1>2, <2>3, <3>1, <4>1 DEF CalmCalls
    <3> QED
      BY <3>2, <3>3
  <2> QED
    BY <1>1, <2>1, <2>2, <2>3 DEF CalmCalls
<1>7. CookieIsGood' /\ SignedInWork'
  <2>1. "refresh" \notin Queries
    BY QueriesAssumption
  <2> QED
    BY <1>0, <1>1, <1>2, <1>3, <2>1 DEF CookieIsGood, SignedInWork, Live
<1>8. RefreshIsGood'
  <2>1. ASSUME NEW d \in InFlight', d # "refresh" PROVE calls'[d].set # cookie
    <3>1. cookie # Null
      BY NullAssumption, SessionFrames DEF SessionsOK, ClientOK, Ids, Counts
    <3>2. calls[d].set # Null => calls[d].set # cookie
      BY <1>1, <1>2, <2>1 DEF CalmCalls, CalmCall, CarriesLive
    <3> QED
      BY <1>1, <1>4, <2>1, <3>1, <3>2
  <2> QED
    BY <1>0, <1>3, <1>5, <2>1 DEF RefreshIsGood, Live
<1> QED
  BY <1>6, <1>7, <1>8 DEF CauseInv

(* The refresh has succeeded: its cookie replaces the one it consumed. *)
LEMMA RefreshedCalmly ==
  ASSUME SessionsOK, CauseInv, Calm, RefreshDone
  PROVE  store'.auth = store.auth /\ CauseInv'
<1> DEFINE new == calls["refresh"].set
<1>1. /\ "refresh" \in InFlight /\ calls["refresh"].at = "done"
      /\ CalmCalls /\ SignedInWork /\ RefreshIsGood
  BY CalmFacts DEF RefreshDone, Arrived, At
<1>2. calls["refresh"].status = "ok" /\ store.auth
  BY <1>1 DEF RefreshIsGood
<1>3. new # Null /\ Live(new)
  BY <1>1, <1>2 DEF CalmCalls, CalmCall, CarriesLive, Openers
<1>4. /\ cookie' = new /\ store' = [store EXCEPT !.token = calls["refresh"].grant]
      /\ calls' = Replayed(calls["refresh"].grant, cookie') /\ UNCHANGED <<page, tokens>>
  BY <1>2, <1>3 DEF RefreshDone, Succeeded, CookieAfter
<1>5. store'.auth = store.auth
  BY <1>4 DEF SessionsOK, ClientOK
<1>6. InFlight' = InFlight \ {"refresh"}
  BY <1>4 DEF Replayed, InFlight
<1>7. ASSUME NEW d \in InFlight'
      PROVE  \/ calls'[d] = calls[d]
             \/ calls'[d].set = Null /\ ~calls'[d].orphan /\ calls'[d].at = "arrive"
  <2> DEFINE old == Request(calls[d].pw, calls[d].code)
             token == calls["refresh"].grant
  <2>1. calls'[d] = IF At(d, "queued")
                    THEN [old EXCEPT !.access = token, !.cookie = cookie', !.retried = calls[d].retried]
                    ELSE calls[d]
    BY <1>4, <1>6, <1>7 DEF Replayed
  <2>2. calls[d].pw \in Passwords \cup {Null} /\ calls[d].code \in 0 .. codes
    BY <1>6, <1>7, CookieTypes DEF CallType
  <2>3. old \in CallType
    BY <2>2, RequestTypes
  <2>4. old.set = Null /\ ~old.orphan /\ old.at = "arrive"
    BY DEF Request, NewCall
  <2> HIDE DEF old
  <2> QED
    BY <2>1, <2>3, <2>4 DEF CallType
<1>8. CalmCalls'
  <2>1. ASSUME NEW d \in InFlight' PROVE CalmCall(d)'
    <3>0. CalmCall(d) /\ d # "refresh" /\ d \in InFlight
      BY <1>1, <1>6, <2>1 DEF CalmCalls
    <3>1. CASE calls'[d] = calls[d]
      <4>1. calls[d].set # Null => calls[d].set # new
        BY <1>1, <3>0 DEF CalmCalls
      <4> QED
        BY <1>4, <3>0, <3>1, <4>1 DEF CalmCall, CarriesLive, Live
    <3>2. CASE calls'[d].set = Null /\ ~calls'[d].orphan /\ calls'[d].at = "arrive"
      BY <3>0, <3>2 DEF CalmCall, CarriesLive
    <3> QED
      BY <1>7, <2>1, <3>1, <3>2
  <2>2. \A d \in InFlight' : calls'[d].set \in {Null, calls[d].set}
    BY <1>7
  <2>3. ASSUME NEW d \in InFlight', NEW e \in InFlight', d # e, calls'[d].set # Null
        PROVE  calls'[d].set # calls'[e].set
    <3>1. calls'[d].set = calls[d].set /\ d \in InFlight /\ e \in InFlight
      BY <1>6, <2>2, <2>3
    <3>2. calls'[e].set = Null \/ calls'[e].set = calls[e].set
      BY <2>2
    <3> QED
      BY <1>1, <2>3, <3>1, <3>2 DEF CalmCalls
  <2> QED
    BY <2>1, <2>3 DEF CalmCalls
<1>9. CookieIsGood'
  BY <1>3, <1>4 DEF CookieIsGood, Live
<1>10. RefreshIsGood' /\ SignedInWork'
  BY <1>1, <1>4, <1>5, <1>6 DEF RefreshIsGood, SignedInWork
<1> QED
  BY <1>5, <1>8, <1>9, <1>10 DEF CauseInv

(* A sign-in that succeeded brings a live cookie of its own. *)
LEMMA SignsInCalmly ==
  ASSUME SessionsOK, CauseInv, Calm, NEW c \in {"login", "verify"}, SignInAnswered(c), Succeeded(c)
  PROVE  CauseInv'
<1>1. /\ c \in InFlight /\ calls[c].at = "done" /\ calls[c].status = "ok"
      /\ CalmCalls /\ SignedInWork /\ RefreshIsGood
  BY CalmFacts DEF SignInAnswered, Settle, Arrived, At, Succeeded
<1>2. calls[c].set # Null /\ Live(calls[c].set)
  BY <1>1 DEF CalmCalls, CalmCall, CarriesLive, Openers
<1>3. /\ cookie' = calls[c].set /\ store'.auth /\ UNCHANGED tokens
      /\ InFlight' = InFlight \ {c} /\ \A d \in InFlight' : calls'[d] = calls[d]
  BY <1>2 DEF SignInAnswered, SetAuth, Settle, CookieAfter, Without, InFlight
<1>4. CalmCalls'
  <2>1. ASSUME NEW d \in InFlight' PROVE CalmCall(d)'
    <3>1. CalmCall(d) /\ calls'[d] = calls[d] /\ (calls[d].set # Null => calls[d].set # calls[c].set)
      BY <1>1, <1>3, <2>1 DEF CalmCalls
    <3> QED
      BY <1>3, <3>1 DEF CalmCall, CarriesLive, Live
  <2> QED
    BY <1>1, <1>3, <2>1 DEF CalmCalls
<1>5. RefreshIsGood'
  BY <1>1, <1>3 DEF RefreshIsGood, Live
<1>6. CookieIsGood' /\ SignedInWork'
  BY <1>2, <1>3 DEF CookieIsGood, SignedInWork, Live
<1> QED
  BY <1>4, <1>5, <1>6 DEF CauseInv

(* The answers that carry no cookie. *)
LEMMA ReceivesQuietly ==
  ASSUME SessionsOK, CauseInv, Calm, Calm', NEW c \in Calls, Receive(c), ~StartRefresh(c),
         ~(c = "refresh" /\ RefreshDone),
         ~(c \in {"login", "verify"} /\ SignInAnswered(c) /\ Succeeded(c))
  PROVE  QuietStep /\ store'.auth = store.auth
<1> USE DEF At
<1>1. c \in InFlight /\ ~calls[c].orphan /\ c \notin {"logout", "reset"} /\ UNCHANGED tokens
        /\ calls[c] \in CallType
  BY CalmFacts, CookieTypes
     DEF Receive, AwaitRefresh, OrphanAnswered, QueryAnswered, SignInAnswered, CodeAnswered,
         ResetAnswered, LogoutAnswered, Settle, Arrived
<1>2. CASE AwaitRefresh(c)
  <2>1. /\ UNCHANGED <<tokens, cookie, store, page>> /\ calls[c].status = "401" /\ c # "refresh"
        /\ calls' = [calls EXCEPT ![c].at = "queued"]
    BY <1>2 DEF AwaitRefresh, Intercepted, Go, clientVars
  <2>2. /\ InFlight' = InFlight /\ calls'[c] = [calls[c] EXCEPT !.at = "queued"]
        /\ \A d \in InFlight : d # c => calls'[d] = calls[d]
    BY <1>1, <2>1 DEF InFlight
  <2>3. calls'[c].set = Null /\ ~calls'[c].orphan /\ calls'[c].at = "queued"
    BY <1>1, <2>1, <2>2, CalmFacts DEF CallType
  <2>4. QuietCall(c)
    BY <1>1, <2>1, <2>3, CalmFacts DEF QuietCall, SignedInWork
  <2>5. (\A d \in InFlight' : QuietCall(d)) /\ QuietRefresh
    BY <2>1, <2>2, <2>4 DEF QuietCall, QuietRefresh
  <2> QED
    BY <2>1, <2>5 DEF QuietStep, Live
<1>3. CASE ~AwaitRefresh(c)
  <2>1. /\ c # "refresh" /\ calls' = Without({c}) /\ cookie' = CookieAfter(c)
        /\ (c \in {"login", "verify"} => calls[c].status # "ok")
    BY <1>1, <1>3, QueriesAssumption
       DEF Receive, OrphanAnswered, QueryAnswered, SignInAnswered, CodeAnswered,
           ResetAnswered, LogoutAnswered, Settle, Arrived, Succeeded, Forms
  <2>2. calls[c].set = Null
    BY <1>1, <2>1, CalmFacts DEF Openers
  <2>3. InFlight' = InFlight \ {c} /\ \A d \in InFlight' : calls'[d] = calls[d]
    BY <2>1 DEF Without, InFlight
  <2>4. (\A d \in InFlight' : QuietCall(d)) /\ QuietRefresh
    BY <2>1, <2>3 DEF QuietCall, QuietRefresh
  <2>5. store'.auth = store.auth /\ (page' = "dashboard" => page = "dashboard")
    <3>1. CASE c \in Queries /\ QueryAnswered(c)
      <4>1. store.auth /\ store \in [auth : BOOLEAN, token : Ids]
        BY <1>1, <3>1, CalmFacts DEF SignedInWork, SessionsOK, ClientOK
      <4>2. store' = store \/ store' = [store EXCEPT !.auth = TRUE]
        BY <3>1 DEF QueryAnswered
      <4> QED
        BY <3>1, <4>1, <4>2 DEF QueryAnswered
    <3>2. CASE c \in {"login", "verify"} /\ SignInAnswered(c)
      BY <2>1, <3>2 DEF SignInAnswered, Succeeded
    <3>3. CASE c \in {"signup", "resend", "forgot", "recode"} /\ CodeAnswered(c)
      <4>1. UNCHANGED store /\ page' \in {page, "verify", "reset"}
        BY <3>3 DEF CodeAnswered
      <4> QED
        BY <4>1
    <3> QED
      BY <1>1, <1>3, <2>1, <3>1, <3>2, <3>3 DEF Receive, OrphanAnswered
  <2> QED
    BY <1>1, <2>1, <2>2, <2>4, <2>5 DEF QuietStep, Live, CookieAfter
<1> QED
  BY <1>2, <1>3

LEMMA CauseStep == SessionsOK /\ CauseInv /\ [NextPortal]_portalVars => CauseInv'
<1> SUFFICES ASSUME SessionsOK, CauseInv, [NextPortal]_portalVars, Calm' PROVE CauseInv'
  BY DEF CauseInv
<1>1. ASSUME NEW c \in Calls, Serve(c) PROVE CauseInv'
  BY <1>1, ServesCalmly
<1>2. CASE Person \/ Environment
  BY <1>2, OutsideQuietly, QuietKeeps DEF CauseInv
<1>3. ASSUME NEW c \in Calls, Receive(c) PROVE CauseInv'
  <2>1. Calm
    <3>1. CASE StartRefresh(c)
      <4>1. UNCHANGED faults /\ (cause => cause')
        BY <3>1 DEF StartRefresh
      <4> QED
        BY <4>1 DEF Calm
    <3>2. CASE ~StartRefresh(c)
      <4>1. UNCHANGED <<cause, faults>>
        BY <1>3, <3>2
           DEF Receive, AwaitRefresh, OrphanAnswered, RefreshDone, QueryAnswered, SignInAnswered,
               CodeAnswered, ResetAnswered, LogoutAnswered, Settle, clientVars
      <4> QED
        BY <4>1 DEF Calm
    <3> QED
      BY <3>1, <3>2
  <2>2. CASE StartRefresh(c)
    BY <2>2, StartsCalmly
  <2>3. CASE c = "refresh" /\ RefreshDone
    BY <2>1, <2>3, RefreshedCalmly
  <2>4. CASE c \in {"login", "verify"} /\ SignInAnswered(c) /\ Succeeded(c)
    BY <2>1, <2>4, SignsInCalmly
  <2> QED
    BY <1>3, <2>1, <2>2, <2>3, <2>4, ReceivesQuietly, QuietKeeps DEF CauseInv
<1>4. CASE UNCHANGED portalVars
  <2>1. QuietStep
    BY <1>4 DEF portalVars, authVars, clientVars, QuietStep, QuietCall, QuietRefresh, Calm, Live, InFlight
  <2> QED
    BY <2>1, QuietKeeps DEF CauseInv
<1> QED
  BY <1>1, <1>2, <1>3, <1>4 DEF NextPortal

LEMMA CalmKeepsTheSession ==
  ASSUME SessionsOK, CauseInv, Calm, [NextPortal]_portalVars, store.auth
  PROVE  store'.auth
<1>1. ASSUME NEW c \in Calls, Receive(c) PROVE store'.auth
  <2>1. CASE StartRefresh(c)
    BY <2>1 DEF StartRefresh
  <2>2. CASE c = "refresh" /\ RefreshDone
    BY <2>2, RefreshedCalmly
  <2>3. CASE c \in {"login", "verify"} /\ SignInAnswered(c) /\ Succeeded(c)
    BY <2>3 DEF SignInAnswered, SetAuth
  <2>4. CASE ~StartRefresh(c) /\ ~(c = "refresh" /\ RefreshDone)
             /\ ~(c \in {"login", "verify"} /\ SignInAnswered(c) /\ Succeeded(c))
    <3>1. UNCHANGED <<cause, faults>>
      BY <1>1, <2>4 DEF Receive, AwaitRefresh, OrphanAnswered, QueryAnswered, SignInAnswered,
                        CodeAnswered, ResetAnswered, LogoutAnswered, Settle, clientVars
    <3>2. Calm'
      BY <3>1 DEF Calm
    <3> QED
      BY <1>1, <2>4, <3>2, ReceivesQuietly
  <2> QED
    BY <2>1, <2>2, <2>3, <2>4
<1>2. CASE Person \/ Environment \/ (\E c \in Calls : Serve(c)) \/ UNCHANGED portalVars
  <2>1. UNCHANGED store
    BY <1>2 DEF Person, Environment, Serve, portalVars, clientVars, SendQuery, Submit, SubmitLogin,
                SubmitSignup, SubmitOtp, SubmitRequestReset, SubmitReset, HandleResendOtp,
                HandleResendCode, HandleLogout, FollowLink, AccessExpires, SessionExpires, Reload,
                CountdownEnds
  <2> QED
    BY <2>1
<1> QED
  BY <1>1, <1>2 DEF NextPortal

(* The client signs nobody out by itself, unless something happened that may *)
(* end a session or something failed.                                        *)
THEOREM ForcedCorrect == Spec => ForcedOutForCause
<1>1. Init => CauseInv
  <2> SUFFICES ASSUME InitPortal PROVE CauseInv
    BY DEF Init
  <2>0. DOMAIN <<>> = {}
    OBVIOUS
  <2>1. InFlight = {}
    BY <2>0 DEF InitPortal, InFlight
  <2>2. CASE store = SignedOut /\ page = "signup"
    BY <2>1, <2>2 DEF SignedOut, CauseInv, CalmCalls, CookieIsGood, RefreshIsGood, SignedInWork
  <2>3. ASSUME NEW pw \in Passwords, cookie = 1, store = [auth |-> TRUE, token |-> 1],
               tokens = <<[status |-> "live", pw |-> pw, late |-> FALSE]>>
        PROVE  CauseInv
    <3>1. store.auth /\ Live(cookie)
      BY <2>3 DEF Live
    <3> QED
      BY <2>1, <3>1 DEF CauseInv, CalmCalls, CookieIsGood, RefreshIsGood, SignedInWork
  <2> QED
    BY <2>2, <2>3 DEF InitPortal
<1>2. SessionsOK /\ CauseInv /\ [Next]_vars => CauseInv'
  BY CauseStep, PortalSteps
<1>3. SessionsOK /\ CauseInv /\ [Next]_vars
         => [(At("refresh", "done") /\ store.auth /\ ~store'.auth) => (cause \/ faults > 0)]_portalVars
  <2> SUFFICES ASSUME SessionsOK, CauseInv, [NextPortal]_portalVars,
                      store.auth, ~store'.auth, ~cause
               PROVE  faults > 0
    BY PortalSteps
  <2>1. ~Calm
    BY CalmKeepsTheSession
  <2> QED
    BY <2>1, BoundsAssumption DEF Calm, SessionsOK, ServerOK
<1> QED
  BY <1>1, <1>2, <1>3, AlwaysSessionsOK, PTL DEF Spec, ForcedOutForCause
=============================================================================
