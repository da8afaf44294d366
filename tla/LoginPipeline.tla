---------------------------- MODULE LoginPipeline ----------------------------
(***************************************************************************)
(* Signing in (browser/): the staged login test the session supervisor     *)
(* runs, the one-shot live login and the browser worker's login command,   *)
(* three callers of one submission of the credentials, on a page that is   *)
(* external: it changes, or dies, between any two of their reads.  A       *)
(* classification reads it twice; a check of several awaits is one step    *)
(* where one page could show all that it may find.  A selector list is     *)
(* what it looks for.                                                      *)
(***************************************************************************)
EXTENDS Integers, Sequences

CONSTANTS MaxRetries,   \* retries of robustNavigate: 2
          LoginUrls     \* URLs the submission tries: 2 with the default URL

ASSUME LoginAssumption == MaxRetries \in Nat /\ LoginUrls \in Nat \ {0}

VARIABLES loginPage,     \* what it shows, whether it is open and on the login path
          caller, withSession,
          loginStep,     \* where the run is
          tries, urls,   \* attempts of this navigation; URLs left to the submission
          pageState,     \* detectedPageState, as the pipeline keeps it
          stages,        \* stages, in order: name and ok
          typedIn,       \* BcGameLoginResult: what the submission answered
          answer,        \* the report's classification, the outcome or the response code
          failedStage,
          sessionFile,   \* session-state.enc was written in this run
          typed, sawAccount, alwaysGeo  \* history: submissions of the form; what the page showed

loginVars == <<loginPage, caller, withSession, loginStep, tries, urls, pageState, stages, typedIn, answer,
               failedStage, sessionFile, typed, sawAccount, alwaysGeo>>

(* A page of "denied" has wording only the region detector knows; one of   *)
(* "account" has the markers of a signed-in user and no password field.    *)
Pages == [shows : {"form", "account", "geo", "denied", "challenge", "blank"},
          onLogin : BOOLEAN, open : BOOLEAN]

LoginStages == <<"BrowserNavigation", "LoginPageDetector", "RegionRestrictionDetector",
                 "LoginFormDetector", "CredentialSubmission", "AuthenticationVerifier",
                 "SessionPersistence">>

LoginInit ==
  /\ loginPage \in {p \in Pages : p.open /\ p.shows \in {"blank", "account"}}
  /\ caller \in {"pipeline", "live", "worker"} /\ withSession \in BOOLEAN
  /\ loginStep = "start" /\ tries = 0 /\ urls = 0 /\ pageState = "UNKNOWN" /\ stages = <<>>
  /\ typedIn = "none" /\ answer = "none" /\ failedStage = "none" /\ sessionFile = FALSE
  /\ typed = 0 /\ sawAccount = FALSE /\ alwaysGeo = TRUE
-----------------------------------------------------------------------------
(* What is read of the page.  A closed one has its last URL and no text.   *)
(* GeoUnheard is a mutant.                                                 *)
Shown(p) == IF p.open THEN p.shows ELSE "blank"
GeoUnheard(p) == FALSE
GeoShown(p) == Shown(p) = "geo"
NoPassword(p) == Shown(p) # "form"

(* classifyLoginPage: the URL and the text of the page first, its fields   *)
(* and markers after several awaits, when the page may be another one.     *)
Classified(first, last) ==
  CASE GeoShown(first) -> "GEO_RESTRICTED"
    [] Shown(first) = "challenge" -> "SECURITY_CHALLENGE"
    [] Shown(last) = "form" -> "LOGIN_FORM"
    [] Shown(last) = "account" /\ ~first.onLogin -> "AUTHENTICATED"
    [] OTHER -> "UNKNOWN"

RegionRestricted(p) ==
  GeoShown(p) \/ Shown(p) = "denied" \/ (p.onLogin /\ Shown(p) \in {"challenge", "blank"})

(* The page moves on its own (external); once it was read in a run, the    *)
(* histories follow what it shows.                                         *)
SeenOn(p) ==
  /\ loginPage' = p
  /\ sawAccount' = (sawAccount \/ Shown(p) = "account")
  /\ alwaysGeo' = (alwaysGeo /\ Shown(p) = "geo")

PageChanges ==
  /\ loginPage.open /\ loginStep \notin {"start", "navigate", "over"} /\ \E p \in Pages : SeenOn(p)
  /\ UNCHANGED <<caller, withSession, loginStep, tries, urls, pageState, stages, typedIn, answer,
                 failedStage, sessionFile, typed>>
pageSeen == <<loginPage, sawAccount, alwaysGeo>>
(* A read of several awaits: it begins on loginPage and ends on last.      *)
ReadUntil(last) == (loginPage.open \/ last = loginPage) /\ SeenOn(last)

Go(next) == loginStep' = next
(* The report, the outcome or the response is given.                       *)
LoginOver(code, stage) == Go("over") /\ answer' = code /\ failedStage' = stage
Reported(stage, ok) == stages' = Append(stages, [stage |-> stage, ok |-> ok])
Fails(stage, code) == Reported(stage, FALSE) /\ LoginOver(code, stage)
Passes(stage, next) == Reported(stage, TRUE) /\ Go(next) /\ UNCHANGED <<answer, failedStage>>
-----------------------------------------------------------------------------
(* robustNavigate: a transient error is retried; anything else, an answer  *)
(* without a response included, ends the navigation.                       *)
NavRetry ==
  /\ loginPage.open /\ tries < MaxRetries /\ tries' = tries + 1
  /\ UNCHANGED <<loginStep, urls, stages, answer, failedStage>> /\ UNCHANGED pageSeen
NavArrives(next) ==
  /\ loginPage.open /\ tries' = 0 /\ UNCHANGED urls
  /\ \E p \in {q \in Pages : q.open} : SeenOn(p)
  /\ next

StartTest ==
  /\ loginStep = "start" /\ caller = "pipeline" /\ loginPage.open /\ Go("navigate")
  /\ UNCHANGED <<tries, urls, pageState, stages, typedIn, answer, failedStage, sessionFile, typed>>
  /\ UNCHANGED pageSeen
StartClosed ==
  /\ loginStep = "start" /\ caller = "pipeline" /\ Fails("BrowserNavigation", "BROWSER_FAILED")
  /\ loginPage' = [loginPage EXCEPT !.open = FALSE] /\ alwaysGeo' = FALSE
  /\ UNCHANGED <<tries, urls, pageState, typedIn, sessionFile, typed, sawAccount>>

OpenLoginUrl ==
  /\ loginStep = "navigate" /\ UNCHANGED <<pageState, typedIn, sessionFile, typed>>
  /\ \/ NavRetry
     \/ NavArrives(Passes("BrowserNavigation", "classify"))
     \/ /\ Fails("BrowserNavigation", "NAVIGATION_FAILED")
        /\ UNCHANGED <<tries, urls>> /\ UNCHANGED pageSeen

(* The detector of the login page, then that of the region, whose failure  *)
(* would be reported and passed over (its reads all have a default).       *)
Classify ==
  /\ loginStep = "classify" /\ Passes("LoginPageDetector", "region")
  /\ \E p \in Pages : ReadUntil(p) /\ pageState' = Classified(loginPage, p)
  /\ UNCHANGED <<tries, urls, typedIn, sessionFile, typed>>

Region ==
  /\ loginStep = "region" /\ UNCHANGED <<tries, urls, pageState, typedIn, sessionFile, typed>>
  /\ UNCHANGED pageSeen
  /\ IF RegionRestricted(loginPage) \/ pageState = "GEO_RESTRICTED"
     THEN Fails("RegionRestrictionDetector", "REGION_RESTRICTION")
     ELSE Passes("RegionRestrictionDetector",
                 CASE pageState = "LOGIN_FORM" -> "form"
                   [] pageState \in {"AUTHENTICATED", "SECURITY_CHALLENGE"} -> "form"
                   [] OTHER -> "settle")

(* The form detector on what was classified: no await since the region's.  *)
Form ==
  /\ loginStep = "form"
  /\ CASE pageState = "SECURITY_CHALLENGE" -> Fails("LoginFormDetector", "SECURITY_CHALLENGE")
       [] pageState = "LOGIN_FORM" -> Passes("LoginFormDetector", "url")
       [] OTHER -> /\ stages' = stages \o [i \in 1..3 |-> [stage |-> LoginStages[i + 3], ok |-> TRUE]]
                   /\ Go("verify") /\ UNCHANGED <<answer, failedStage>>
  /\ UNCHANGED <<tries, pageState, typedIn, sessionFile, typed>> /\ UNCHANGED pageSeen
  /\ urls' = LoginUrls

(* Nothing known: the region once more after a while, then the page; the   *)
(* wait throws on a closed page.                                           *)
Settle ==
  /\ loginStep = "settle" /\ UNCHANGED <<tries, urls, pageState, typedIn, sessionFile, typed>>
  /\ UNCHANGED pageSeen
  /\ \/ ~loginPage.open /\ Fails("LoginFormDetector", "LOGIN_FORM_UNAVAILABLE")
     \/ /\ loginPage.open /\ Go(IF RegionRestricted(loginPage) THEN "settled restricted" ELSE "settled")
        /\ UNCHANGED <<stages, answer, failedStage>>
Reclassify ==
  /\ loginStep \in {"settled", "settled restricted"} /\ UNCHANGED <<tries, typedIn, sessionFile, typed>>
  /\ urls' = LoginUrls
  /\ \E p \in Pages : LET now == Classified(loginPage, p) IN
     /\ ReadUntil(p)
     /\ CASE loginStep = "settled restricted" \/ now = "GEO_RESTRICTED" ->
               Fails("LoginFormDetector", "REGION_RESTRICTION")
          [] now = "LOGIN_FORM" -> Passes("LoginFormDetector", "url")
          [] now = "AUTHENTICATED" -> Passes("LoginFormDetector", "verify")
          [] now = "SECURITY_CHALLENGE" -> Fails("LoginFormDetector", "SECURITY_CHALLENGE")
          [] OTHER -> Fails("LoginFormDetector", "LOGIN_FORM_UNAVAILABLE")
     /\ pageState' = IF loginStep' \in {"url", "verify"} THEN now ELSE pageState
-----------------------------------------------------------------------------
(* The other callers: the live login launches a browser of its own, the    *)
(* worker takes the one it has; either may fail before the submission.     *)
StartLive ==
  /\ loginStep = "start" /\ caller = "live" /\ UNCHANGED pageSeen
  /\ \/ Go("url") /\ urls' = LoginUrls /\ UNCHANGED <<answer, failedStage>>
     \/ LoginOver("PREFLIGHT_FAILED", "none") /\ UNCHANGED urls
     \/ LoginOver("LOGIN_FLOW_ERROR", "none") /\ UNCHANGED urls
  /\ UNCHANGED <<tries, pageState, stages, typedIn, sessionFile, typed>>
StartLoginWorker ==
  /\ loginStep = "start" /\ caller = "worker" /\ UNCHANGED pageSeen
  /\ \/ Go("url") /\ urls' = LoginUrls /\ UNCHANGED <<answer, failedStage>>
     \/ LoginOver("BROWSER_FAILED", "none") /\ UNCHANGED urls
  /\ UNCHANGED <<tries, pageState, stages, typedIn, sessionFile, typed>>

(* submitBcGameLogin.  What throws in it is its answer as well: "error".   *)
Answers(detail) == typedIn' = detail /\ Go("answered")
Step(from) ==
  /\ loginStep = from /\ UNCHANGED <<pageState, stages, answer, failedStage, sessionFile>>

SubmitUrl ==
  /\ Step("url") /\ Go(IF loginPage.onLogin THEN "wait" ELSE "submit navigate")
  /\ UNCHANGED <<tries, urls, typedIn, typed>> /\ UNCHANGED pageSeen
SubmitNavigate ==
  /\ loginStep = "submit navigate"
  /\ UNCHANGED <<pageState, stages, answer, failedStage, sessionFile, typed>>
  /\ \/ NavRetry /\ UNCHANGED typedIn
     \/ NavArrives(Go("wait")) /\ UNCHANGED typedIn
     \/ /\ urls > 1 /\ urls' = urls - 1 /\ tries' = 0 /\ UNCHANGED <<loginStep, typedIn>>
        /\ UNCHANGED pageSeen
     \/ urls = 1 /\ Answers("LOGIN_NAVIGATION_FAILED") /\ UNCHANGED <<tries, urls>> /\ UNCHANGED pageSeen
SubmitWait ==
  /\ Step("wait") /\ UNCHANGED <<tries, urls, typed>> /\ UNCHANGED pageSeen
  /\ IF loginPage.open THEN Go("submit classify") /\ UNCHANGED typedIn ELSE Answers("error")
SubmitClassify ==
  /\ Step("submit classify") /\ UNCHANGED <<tries, urls, typed>>
  /\ \E p \in Pages : LET now == Classified(loginPage, p) IN
     /\ ReadUntil(p)
     /\ CASE now = "GEO_RESTRICTED" -> Answers("GEO_RESTRICTION_DETECTED")
          [] now = "SECURITY_CHALLENGE" -> Answers("SECURITY_CHALLENGE")
          [] now = "AUTHENTICATED" -> Answers("ALREADY_AUTHENTICATED")
          [] now = "UNKNOWN" -> Answers("LOGIN_PAGE_UNKNOWN")
          [] OTHER -> Go("fields") /\ UNCHANGED typedIn
SubmitFields ==
  /\ Step("fields") /\ UNCHANGED <<tries, urls, typed>> /\ UNCHANGED pageSeen
  /\ IF NoPassword(loginPage) THEN Answers("LOGIN_FORM_UNSTABLE") ELSE Go("type") /\ UNCHANGED typedIn
(* Typing and the click, or what throws when a field is gone by then.      *)
SubmitType ==
  /\ Step("type") /\ UNCHANGED <<tries, urls>> /\ UNCHANGED pageSeen
  /\ IF NoPassword(loginPage)
     THEN Answers("error") /\ UNCHANGED typed
     ELSE Go("poll") /\ typed' = typed + 1 /\ UNCHANGED typedIn
(* A poll: the wait, the page's state, then the fields, the URL and the    *)
(* text; nothing decided, it polls again until the deadline (SubmitsAgain  *)
(* is a mutant).                                                           *)
SubmitsAgain == Go("fields") /\ UNCHANGED typedIn
WhenTimeIsUp == Answers("AUTH_TIMEOUT")

SubmitPoll ==
  /\ Step("poll") /\ UNCHANGED <<tries, urls, typed>> /\ UNCHANGED pageSeen
  /\ \/ IF loginPage.open THEN Go("polled") /\ UNCHANGED typedIn ELSE Answers("error")
     \/ WhenTimeIsUp
SubmitRead ==
  /\ Step("polled") /\ UNCHANGED <<tries, urls, typed>>
  /\ \E p \in Pages : LET now == Classified(loginPage, p) IN
     /\ ReadUntil(p)
     /\ CASE now = "GEO_RESTRICTED" -> Answers("GEO_RESTRICTION_DETECTED")
          [] now = "SECURITY_CHALLENGE" -> Answers("SECURITY_CHALLENGE")
          [] now = "AUTHENTICATED" -> Answers("AUTH_UI_VISIBLE")
          [] OTHER -> Go("look") /\ UNCHANGED typedIn
SubmitLook ==
  /\ Step("look") /\ UNCHANGED <<tries, urls, typed>> /\ UNCHANGED pageSeen
  /\ \/ NoPassword(loginPage) /\ ~loginPage.onLogin /\ Answers("NAVIGATED_AWAY_FROM_LOGIN")
     \/ loginPage.open /\ ~(NoPassword(loginPage) /\ ~loginPage.onLogin) /\ Answers("AUTH_FAILED")
     \/ ~(NoPassword(loginPage) /\ ~loginPage.onLogin) /\ Go("poll") /\ UNCHANGED typedIn

SignedIn == {"ALREADY_AUTHENTICATED", "AUTH_UI_VISIBLE", "NAVIGATED_AWAY_FROM_LOGIN"}
-----------------------------------------------------------------------------
(* What the pipeline makes of the submission's answer.                     *)
RejectedAs(detail) ==
  CASE detail = "GEO_RESTRICTION_DETECTED" -> "REGION_RESTRICTION"
    [] detail = "SECURITY_CHALLENGE" -> "SECURITY_CHALLENGE"
    [] detail \in {"LOGIN_FORM_UNSTABLE", "LOGIN_PAGE_UNKNOWN"} -> "LOGIN_FORM_UNAVAILABLE"
    [] OTHER -> "INVALID_CREDENTIALS"
PipelineAnswered ==
  /\ loginStep = "answered" /\ caller = "pipeline"
  /\ IF typedIn \in SignedIn
     THEN Passes("CredentialSubmission", "verify")
     ELSE Fails("CredentialSubmission", RejectedAs(typedIn))
  /\ UNCHANGED <<tries, urls, pageState, typedIn, sessionFile, typed>> /\ UNCHANGED pageSeen

(* The worker's response codes, and the live login's outcome: signed in    *)
(* it captures the context, which a dead browser refuses, and saves none.  *)
WorkerCode(detail) ==
  CASE detail \in SignedIn -> "OK"
    [] detail = "GEO_RESTRICTION_DETECTED" -> "BC_GAME_ACCESS_BLOCKED"
    [] detail \in {"SECURITY_CHALLENGE", "AUTH_TIMEOUT", "LOGIN_PAGE_UNKNOWN"} -> detail
    [] OTHER -> "AUTH_FAILED"
WorkerAnswered ==
  /\ loginStep = "answered" /\ caller = "worker" /\ LoginOver(WorkerCode(typedIn), "none")
  /\ UNCHANGED <<tries, urls, pageState, stages, typedIn, sessionFile, typed>> /\ UNCHANGED pageSeen
LiveAnswered ==
  /\ loginStep = "answered" /\ caller = "live"
  /\ \/ typedIn \in SignedIn /\ LoginOver("OK", "none")
     \/ typedIn \in SignedIn /\ LoginOver("SESSION_PERSIST_FAILED", "none")
     \/ typedIn \notin SignedIn /\ LoginOver(typedIn, "none")
  /\ UNCHANGED <<tries, urls, pageState, stages, typedIn, sessionFile, typed>> /\ UNCHANGED pageSeen

(* The verifier.  With a session store the page is checked, the region     *)
(* first; without one, leaving the login path is enough.  VerifiedAnyway   *)
(* and SubmissionBelieved are mutants.                                     *)
VerifiedAnyway(ok) ==
  Reported("AuthenticationVerifier", ok) /\ Go("persist") /\ UNCHANGED <<answer, failedStage>>
Verified(ok) ==
  IF ok THEN Passes("AuthenticationVerifier", "persist")
        ELSE Fails("AuthenticationVerifier", "AUTH_VERIFICATION_FAILED")
SubmissionBelieved == typedIn \in SignedIn \/ Shown(loginPage) = "account"
AccountShown == Shown(loginPage) = "account"

Verify ==
  /\ loginStep = "verify" /\ UNCHANGED <<tries, urls, pageState, typedIn, sessionFile, typed>>
  /\ UNCHANGED pageSeen
  /\ \/ ~withSession
        /\ Verified(\/ pageState = "AUTHENTICATED"
                    \/ loginPage.open /\ NoPassword(loginPage) /\ ~loginPage.onLogin)
     \/ withSession /\ loginPage.open /\ RegionRestricted(loginPage)
        /\ Fails("AuthenticationVerifier", "REGION_RESTRICTION")
     \/ withSession /\ loginPage.open /\ ~RegionRestricted(loginPage)
        /\ Go("check account") /\ UNCHANGED <<stages, answer, failedStage>>
     \/ withSession /\ ~loginPage.open /\ Verified(pageState = "AUTHENTICATED")
CheckAccount ==
  /\ loginStep = "check account" /\ Verified(AccountShown \/ pageState = "AUTHENTICATED")
  /\ UNCHANGED <<tries, urls, pageState, typedIn, sessionFile, typed>> /\ UNCHANGED pageSeen

(* Without a session store there is nothing to keep; captureAndSave reads  *)
(* the context, then writes the file, and either may fail.                 *)
NothingToKeep ==
  /\ loginStep = "persist" /\ ~withSession /\ Reported("SessionPersistence", TRUE)
  /\ LoginOver("SUCCESS", "none")
  /\ UNCHANGED <<tries, urls, pageState, typedIn, sessionFile, typed>> /\ UNCHANGED pageSeen
Capture ==
  /\ loginStep = "persist" /\ withSession
  /\ \/ Go("save") /\ UNCHANGED <<stages, answer, failedStage>>
     \/ Fails("SessionPersistence", "SESSION_PERSISTENCE_FAILED")
  /\ UNCHANGED <<tries, urls, pageState, typedIn, sessionFile, typed>> /\ UNCHANGED pageSeen
Save ==
  /\ loginStep = "save" /\ UNCHANGED <<tries, urls, pageState, typedIn, typed>> /\ UNCHANGED pageSeen
  /\ \/ /\ Reported("SessionPersistence", TRUE) /\ LoginOver("SUCCESS", "none")
        /\ sessionFile' = TRUE
     \/ Fails("SessionPersistence", "SESSION_PERSISTENCE_FAILED") /\ UNCHANGED sessionFile
-----------------------------------------------------------------------------
LoginSteps ==
  \/ StartTest \/ StartClosed \/ OpenLoginUrl \/ Classify \/ Region \/ Form \/ Settle \/ Reclassify
  \/ StartLive \/ StartLoginWorker \/ SubmitUrl \/ SubmitNavigate \/ SubmitWait \/ SubmitClassify
  \/ SubmitFields \/ SubmitType \/ SubmitPoll \/ SubmitRead \/ SubmitLook
  \/ PipelineAnswered \/ WorkerAnswered \/ LiveAnswered \/ Verify \/ CheckAccount
  \/ NothingToKeep \/ Capture \/ Save
LoginNext == PageChanges \/ (LoginSteps /\ UNCHANGED <<caller, withSession>>)
-----------------------------------------------------------------------------
LoginTypeOK ==
  LET names == {LoginStages[i] : i \in DOMAIN LoginStages} IN
  /\ loginPage \in Pages /\ caller \in {"pipeline", "live", "worker"} /\ withSession \in BOOLEAN
  /\ tries \in 0..MaxRetries /\ urls \in 0..LoginUrls /\ typed \in Nat
  /\ pageState \in {"LOGIN_FORM", "AUTHENTICATED", "GEO_RESTRICTED", "SECURITY_CHALLENGE", "UNKNOWN"}
  /\ stages \in Seq([stage : names, ok : BOOLEAN])
  /\ failedStage \in names \cup {"none"}
  /\ sessionFile \in BOOLEAN /\ sawAccount \in BOOLEAN /\ alwaysGeo \in BOOLEAN

(* Whatever the page does, one login types the credentials at most once.   *)
(* (browser/bc-game-login.ts:2 "submit email/password once")               *)
CredentialsOnce == typed <= 1

(* The report and its stages agree: they are in the pipeline's order (that *)
(* of the verifier is there twice for a page signed in already), only the  *)
(* last can have failed, and it is the one the report names.               *)
(* (browser/login-test-pipeline.ts runLoginTestPipeline)                   *)
ReportMatchesStages ==
  loginStep = "over" /\ caller = "pipeline" =>
    LET n == Len(stages)
        Place(i) == CHOOSE k \in 1..Len(LoginStages) : LoginStages[k] = stages[i].stage
    IN
    /\ \A i \in 1..(n - 1) : stages[i].ok /\ Place(i) <= Place(i + 1)
    /\ IF answer = "SUCCESS"
       THEN stages[n] = [stage |-> "SessionPersistence", ok |-> TRUE] /\ failedStage = "none"
       ELSE ~stages[n].ok /\ failedStage = stages[n].stage

(* With a session store, a login is a success, and its session saved, only *)
(* if the page showed the account at some time of the run.                 *)
(* (AuthenticationVerifier, SessionPersistence)                            *)
SuccessWasSeen == caller = "pipeline" /\ withSession /\ (answer = "SUCCESS" \/ sessionFile) => sawAccount

(* A page that tells of its region all along is reported as blocked, never *)
(* as a failed login.  (browser/region-restriction-detector.ts:3           *)
(* "geo-blocks must not be reported as login failures")                    *)
GeoIsNamed ==
  loginStep = "over" /\ caller = "pipeline" /\ alwaysGeo =>
    answer \in {"REGION_RESTRICTION", "NAVIGATION_FAILED"}

LoginIsHonest == CredentialsOnce /\ ReportMatchesStages /\ SuccessWasSeen /\ GeoIsNamed
=============================================================================
