-------------------------------- MODULE Session --------------------------------
(***************************************************************************)
(* Signing up, signing in, staying signed in and logging out: SignInBloc,   *)
(* the submit handlers of the two authentication pages, the copy of the     *)
(* user UserBloc keeps, the logout of ProfilePage, and the pages that lead   *)
(* from one to the other.                                                   *)
(*                                                                         *)
(* Dart runs one turn of the event loop at a time, so an action is one turn: *)
(* everything between two awaits of a platform call or of the network.  A   *)
(* `flow` is one run of a submit handler; two run at once when the user      *)
(* taps twice, or leaves a page while its submission is on its way.          *)
(*                                                                         *)
(* Field values are abstracted to the user they belong to, and `null` and    *)
(* "absent" are both NoUser.  Three services are external and modelled from  *)
(* how the code uses them: Firebase Auth (accounts, authUser), Firestore     *)
(* (docs, and the device's queue of unsent writes, outbox) and               *)
(* SharedPreferences (a cache that setters change at once, a disk, and the   *)
(* first-in first-out queue of writes between them).                         *)
(*                                                                         *)
(* An operator named Bug... is a mistake one could make in the operator that *)
(* follows it; nothing here uses it.  The mutation runs put it in place of   *)
(* the right one to see that a property notices.                             *)
(***************************************************************************)
EXTENDS Naturals, Sequences

CONSTANTS
    Users,       \* people who may register
    NoUser,      \* a missing value, or nobody
    Flows,       \* slots for submissions that are under way
    NoFlow,      \* the writer of a preference nobody awaits
    Impatient,   \* may the user act before the app has finished what it began?
    MaxPending   \* bound: no logout is confirmed with more writes queued

ASSUME SessionAssumption ==
    /\ NoUser \notin Users
    /\ NoFlow \notin Flows
    /\ Impatient \in BOOLEAN
    /\ MaxPending \in Nat

VARIABLES
    accounts,    \* users known to Firebase Auth
    docs,        \* Firestore: users/<uid>, as the server has it
    outbox,      \* Firestore: users/<uid>, written here and not yet acknowledged
    authUser,    \* FirebaseAuth.currentUser
    bloc,        \* SignInBloc: _name, _email, _imageUrl, _uid
    ub,          \* UserBloc: the same four, as the pages show them
    cache,       \* SharedPreferences in memory
    disk,        \* SharedPreferences on disk
    pending,     \* writes on their way from the one to the other
    flows,       \* the submissions under way
    screen       \* the page shown, and what the pages wait for

cloud  == <<accounts, docs, outbox>>
memory == <<authUser, bloc, ub>>
prefs  == <<cache, disk, pending>>
vars   == <<cloud, memory, prefs, flows, screen>>

--------------------------------------------------------------------------------
\* Profiles and preferences

Keys == {"name", "email", "image url", "uid"}

\* The order in which saveDataToSP awaits its four writes.
BugKeyOrderWithoutUid == <<"name", "email", "image url">>
KeyOrder == <<"name", "email", "image url", "uid">>

Profile      == [Keys -> Users \cup {NoUser}]
EmptyProfile == [k \in Keys |-> NoUser]
ProfileOf(u) == [k \in Keys |-> u]
Complete(p)  == \A k \in Keys : p[k] # NoUser

Prefs   == [signedIn : BOOLEAN, profile : Profile]
NoPrefs == [signedIn |-> FALSE, profile |-> EmptyProfile]

Write == [op : {"set", "flag", "clear"}, key : Keys,
          val : Users \cup {NoUser}, by : Flows \cup {NoFlow}]

SetWrite(f, i, p) == [op |-> "set", key |-> KeyOrder[i], val |-> p[KeyOrder[i]], by |-> f]
FlagWrite  == [op |-> "flag",  key |-> "uid", val |-> NoUser, by |-> NoFlow]
ClearWrite == [op |-> "clear", key |-> "uid", val |-> NoUser, by |-> NoFlow]

\* What a write does to the preferences, in the cache and later on disk.
Apply(w, p) ==
    CASE w.op = "set"   -> [p EXCEPT !.profile[w.key] = w.val]
      [] w.op = "flag"  -> [p EXCEPT !.signedIn = TRUE]
      [] w.op = "clear" -> NoPrefs

\* A setter changes the cache at once and sends the write behind the queue q.
Submit(q, w) ==
    /\ cache' = Apply(w, cache)
    /\ pending' = Append(q, w)

\* What a read of users/<u> finds here: the device's own unsent write first.
Visible(u) == IF outbox[u] # EmptyProfile THEN outbox[u] ELSE docs[u]

--------------------------------------------------------------------------------
\* Flows and pages

FlowPcs == {"idle", "check1", "check2", "auth", "created", "profile",
            "prefs", "saving", "nav"}

Flow == [pc : FlowPcs, kind : {"signup", "signin"}, user : Users \cup {NoUser},
         at : 0 .. 4, mounted : BOOLEAN]

IdleFlow == [pc |-> "idle", kind |-> "signin", user |-> NoUser, at |-> 0,
             mounted |-> FALSE]

Active(f) == flows[f].pc # "idle"

Pages     == {"SignUp", "SignIn", "Welcome", "Home", "Bottom", "Blank"}
AuthPages == {"SignUp", "SignIn"}
HomePages == {"Home", "Bottom"}

Screen == [page : Pages, profile : BOOLEAN, overWelcome : BOOLEAN,
           checking : BOOLEAN, homeInit : BOOLEAN, signingOut : BOOLEAN]

\* MyHomePage shows SignUpPage until checkSignIn has read the preferences.
StartScreen == [page |-> "SignUp", profile |-> FALSE, overWelcome |-> FALSE,
                checking |-> TRUE, homeInit |-> FALSE, signingOut |-> FALSE]

\* A patient user waits for the launch check and for submissions to end.
MayAct == Impatient \/ (~screen.checking /\ \A f \in Flows : ~Active(f))

End(f)       == flows' = [flows EXCEPT ![f] = IdleFlow]
Goto(f, pc)  == flows' = [flows EXCEPT ![f].pc = pc]
Await(f, i)  == flows' = [flows EXCEPT ![f] = [@ EXCEPT !.pc = "prefs", !.at = i]]
LeavePage    == [f \in Flows |-> [flows[f] EXCEPT !.mounted = FALSE]]

--------------------------------------------------------------------------------
Init ==
    /\ accounts \in SUBSET Users       \* registered earlier, from other devices
    /\ docs = [u \in Users |-> IF u \in accounts THEN ProfileOf(u) ELSE EmptyProfile]
    /\ outbox = [u \in Users |-> EmptyProfile]
    /\ authUser = NoUser
    /\ bloc = EmptyProfile
    /\ ub = EmptyProfile
    /\ cache = NoPrefs
    /\ disk = NoPrefs
    /\ pending = <<>>
    /\ flows = [f \in Flows |-> IdleFlow]
    /\ screen = StartScreen

\* The launch: checkSignIn answers, and the root page follows isSignedIn.
BugCheckSignInByUid ==
    /\ screen.checking
    /\ screen' = IF cache.profile["uid"] # NoUser /\ screen.page = "SignUp"
                 THEN [screen EXCEPT !.checking = FALSE, !.page = "Bottom", !.homeInit = TRUE]
                 ELSE [screen EXCEPT !.checking = FALSE]
    /\ UNCHANGED <<cloud, memory, prefs, flows>>
CheckSignIn ==
    /\ screen.checking
    /\ screen' = IF cache.signedIn /\ screen.page = "SignUp"
                 THEN [screen EXCEPT !.checking = FALSE, !.page = "Bottom", !.homeInit = TRUE]
                 ELSE [screen EXCEPT !.checking = FALSE]
    /\ UNCHANGED <<cloud, memory, prefs, flows>>

\* The user submits the form of the page shown.  The launch check is a local
\* read and is over before a form can be filled in.
Tap(f, u) ==
    /\ ~Active(f)
    /\ MayAct
    /\ ~screen.checking
    /\ screen.page \in AuthPages
    /\ flows' = [flows EXCEPT ![f] =
                    [pc |-> "check1", at |-> 0, mounted |-> TRUE, user |-> u,
                     kind |-> IF screen.page = "SignUp" THEN "signup" ELSE "signin"]]
    /\ UNCHANGED <<cloud, memory, prefs, screen>>

\* The first checkInternet is back.  Its answer is not used: the form is
\* validated, and a form that is gone ends the flow with an exception.
CheckOne(f) ==
    /\ flows[f].pc = "check1"
    /\ \E valid \in BOOLEAN :
          IF valid /\ flows[f].mounted THEN Goto(f, "check2") ELSE End(f)
    /\ UNCHANGED <<cloud, memory, prefs, screen>>

\* The second checkInternet is back.  setState of a page that is gone throws.
BugCheckTwoRetries(f) ==
    /\ flows[f].pc = "check2"
    /\ \E online \in BOOLEAN :
          IF online /\ flows[f].mounted THEN Goto(f, "auth") ELSE Goto(f, "check1")
    /\ UNCHANGED <<cloud, memory, prefs, screen>>
CheckTwo(f) ==
    /\ flows[f].pc = "check2"
    /\ \E online \in BOOLEAN :
          IF online /\ flows[f].mounted THEN Goto(f, "auth") ELSE End(f)
    /\ UNCHANGED <<cloud, memory, prefs, screen>>

\* createUserWithEmailAndPassword took effect; the answer is on its way.
ServerCreates(f) ==
    /\ flows[f].pc = "auth"
    /\ flows[f].kind = "signup"
    /\ flows[f].user \notin accounts
    /\ accounts' = accounts \cup {flows[f].user}
    /\ Goto(f, "created")
    /\ UNCHANGED <<docs, outbox, memory, prefs, screen>>

\* saveDataToSP begins, with what the bloc holds in the turn after p is stored.
BugBeginPrefsStaleEmail(f, p) ==
    /\ bloc' = [p EXCEPT !["email"] = bloc["email"]]
    /\ Await(f, 1)
    /\ Submit(pending, SetWrite(f, 1, p))
    /\ UNCHANGED disk
BeginPrefs(f, p) ==
    /\ bloc' = p
    /\ Await(f, 1)
    /\ Submit(pending, SetWrite(f, 1, p))
    /\ UNCHANGED disk

\* The answer of createUserWithEmailAndPassword.
SignUpSucceeds(f) ==
    /\ flows[f].pc = "created"
    /\ authUser' = flows[f].user
    /\ BeginPrefs(f, ProfileOf(flows[f].user))
    /\ UNCHANGED <<cloud, ub, screen>>

\* The answer of signInWithEmailAndPassword; getUserData(sb.uid) is sent.
BugSignInSetsDocument(f) ==
    /\ flows[f].pc = "auth"
    /\ flows[f].kind = "signin"
    /\ flows[f].user \in accounts
    /\ authUser' = flows[f].user
    /\ bloc' = [bloc EXCEPT !["uid"] = flows[f].user]
    /\ outbox' = [outbox EXCEPT ![flows[f].user] = ProfileOf(flows[f].user)]
    /\ Goto(f, "profile")
    /\ UNCHANGED <<accounts, docs, ub, prefs, screen>>
SignInSucceeds(f) ==
    /\ flows[f].pc = "auth"
    /\ flows[f].kind = "signin"
    /\ flows[f].user \in accounts
    /\ authUser' = flows[f].user
    /\ bloc' = [bloc EXCEPT !["uid"] = flows[f].user]
    /\ Goto(f, "profile")
    /\ UNCHANGED <<cloud, ub, prefs, screen>>

\* An error: address in use, unknown user, wrong password, or an answer lost
\* on the way, which leaves behind the account it was about.
AuthFails(f) ==
    /\ flows[f].pc \in {"auth", "created"}
    /\ End(f)
    /\ UNCHANGED <<cloud, memory, prefs, screen>>

\* getUserData: the document is there.
ProfileLoaded(f) ==
    /\ flows[f].pc = "profile"
    /\ Visible(flows[f].user) # EmptyProfile
    /\ BeginPrefs(f, Visible(flows[f].user))
    /\ UNCHANGED <<cloud, authUser, ub, screen>>

\* getUserData: no document (`snap.data()` is null), or the read failed.  The
\* exception ends the flow, and nothing takes the progress indicator away.
ProfileMissing(f) ==
    /\ flows[f].pc = "profile"
    /\ End(f)
    /\ UNCHANGED <<cloud, memory, prefs, screen>>

\* setSignIn: the flag is sent behind the queue q and not awaited; setState
\* of a page that is gone throws before handleAfterSignup is called.
BugSetSignInUnsaved(f, q) ==
    /\ cache' = Apply(FlagWrite, cache)
    /\ pending' = q
    /\ IF flows[f].mounted THEN Goto(f, "nav") ELSE End(f)
SetSignIn(f, q) ==
    /\ Submit(q, FlagWrite)
    /\ IF flows[f].mounted THEN Goto(f, "nav") ELSE End(f)

\* saveToFirebase: users/<uid> is set from the fields of the bloc; the await
\* ends when the server has acknowledged it.
SaveToFirebase(f) ==
    /\ outbox' = [outbox EXCEPT ![bloc["uid"]] = bloc]
    /\ flows' = [flows EXCEPT ![f] = [@ EXCEPT !.pc = "saving", !.user = bloc["uid"]]]

\* The oldest write reaches the disk and the flow awaiting it goes on: with
\* the next key, and after the last one with what its handler chained.
PrefWritten(f) ==
    /\ flows[f].pc = "prefs"
    /\ pending # <<>>
    /\ Head(pending).by = f
    /\ disk' = Apply(Head(pending), disk)
    /\ LET at == flows[f].at IN
          \/ /\ at < Len(KeyOrder)
             /\ Submit(Tail(pending), SetWrite(f, at + 1, bloc))
             /\ Await(f, at + 1)
             /\ UNCHANGED outbox
          \/ /\ at = Len(KeyOrder)
             /\ flows[f].kind = "signup"
             /\ SaveToFirebase(f)
             /\ pending' = Tail(pending)
             /\ UNCHANGED cache
          \/ /\ at = Len(KeyOrder)
             /\ flows[f].kind = "signin"
             /\ SetSignIn(f, Tail(pending))
             /\ UNCHANGED outbox
    /\ UNCHANGED <<accounts, docs, memory, screen>>

\* The oldest write reaches the disk; nobody awaits it.
FlushUnawaited ==
    /\ pending # <<>>
    /\ Head(pending).by = NoFlow
    /\ disk' = Apply(Head(pending), disk)
    /\ pending' = Tail(pending)
    /\ UNCHANGED <<cloud, memory, cache, flows, screen>>

\* The server takes the unsent write of users/<u>.
CommitDoc(u) ==
    /\ outbox[u] # EmptyProfile
    /\ docs' = [docs EXCEPT ![u] = outbox[u]]
    /\ outbox' = [outbox EXCEPT ![u] = EmptyProfile]
    /\ UNCHANGED <<accounts, memory, prefs, flows, screen>>

\* The server refuses it: the device forgets it, and the await throws.
RejectDoc(u) ==
    /\ outbox[u] # EmptyProfile
    /\ outbox' = [outbox EXCEPT ![u] = EmptyProfile]
    /\ flows' = [f \in Flows |-> IF flows[f].pc = "saving" /\ flows[f].user = u
                                 THEN IdleFlow ELSE flows[f]]
    /\ UNCHANGED <<accounts, docs, memory, prefs, screen>>

SaveAcked(f) ==
    /\ flows[f].pc = "saving"
    /\ outbox[flows[f].user] = EmptyProfile
    /\ SetSignIn(f, pending)
    /\ UNCHANGED <<cloud, memory, disk, screen>>

\* handleAfterSignup, one second later: HomePage replaces the page of the
\* flow, unless that page is gone and its context with it.
BugNavigateHomeGoesOn(f) ==
    /\ flows[f].pc = "nav"
    /\ flows[f].mounted
    /\ screen' = [screen EXCEPT !.page = "Home", !.profile = FALSE, !.homeInit = TRUE]
    /\ flows' = LeavePage
    /\ UNCHANGED <<cloud, memory, prefs>>
NavigateHome(f) ==
    /\ flows[f].pc = "nav"
    /\ IF flows[f].mounted
       THEN /\ screen' = [screen EXCEPT !.page = "Home", !.profile = FALSE, !.homeInit = TRUE]
            /\ flows' = [LeavePage EXCEPT ![f] = IdleFlow]
       ELSE /\ End(f)
            /\ UNCHANGED screen
    /\ UNCHANGED <<cloud, memory, prefs>>

--------------------------------------------------------------------------------
\* The user walks through the pages

GoToSignIn ==
    /\ screen.page = "SignUp"
    /\ MayAct
    /\ screen' = [screen EXCEPT !.page = "SignIn"]
    /\ flows' = LeavePage
    /\ UNCHANGED <<cloud, memory, prefs>>

\* The arrow of SignUpPage, or the system's gesture over a page below.  The
\* arrow also pops the only page there is, and leaves a blank window.
BackFromAuth ==
    /\ \/ screen.page = "SignUp"
       \/ screen.page = "SignIn" /\ screen.overWelcome
    /\ MayAct
    /\ screen' = [screen EXCEPT !.page = IF screen.overWelcome THEN "Welcome" ELSE "Blank",
                                !.overWelcome = FALSE]
    /\ flows' = LeavePage
    /\ UNCHANGED <<cloud, memory, prefs>>

WelcomeToSignUp ==
    /\ screen.page = "Welcome"
    /\ screen' = [screen EXCEPT !.page = "SignUp", !.overWelcome = TRUE]
    /\ UNCHANGED <<cloud, memory, prefs, flows>>

OpenProfile ==
    /\ screen.page \in HomePages
    /\ ~screen.profile
    /\ screen' = [screen EXCEPT !.profile = TRUE]
    /\ UNCHANGED <<cloud, memory, prefs, flows>>

CloseProfile ==
    /\ screen.profile
    /\ screen' = [screen EXCEPT !.profile = FALSE]
    /\ UNCHANGED <<cloud, memory, prefs, flows>>

\* Another tab of the bottom bar: its page is built anew, initState and all.
SwitchTab ==
    /\ screen.page = "Bottom"
    /\ ~screen.profile
    /\ screen' = [screen EXCEPT !.homeInit = TRUE]
    /\ UNCHANGED <<cloud, memory, prefs, flows>>

\* UserBloc.getUserData, which initState of Home and Obstetrics schedules.
BugLoadUserFromBloc ==
    /\ screen.homeInit
    /\ ub' = bloc
    /\ screen' = [screen EXCEPT !.homeInit = FALSE]
    /\ UNCHANGED <<cloud, authUser, bloc, prefs, flows>>
BugLoadUserWithoutImage ==
    /\ screen.homeInit
    /\ ub' = [k \in Keys \ {"image url"} |-> cache.profile[k]]
    /\ screen' = [screen EXCEPT !.homeInit = FALSE]
    /\ UNCHANGED <<cloud, authUser, bloc, prefs, flows>>
LoadUser ==
    /\ screen.homeInit
    /\ ub' = cache.profile
    /\ screen' = [screen EXCEPT !.homeInit = FALSE]
    /\ UNCHANGED <<cloud, authUser, bloc, prefs, flows>>

\* `Yes` in the logout dialog, up to the await of signOut.  A second `Yes`
\* before signOut has answered, a local call, is left out.
LogoutTap ==
    /\ screen.profile
    /\ ~screen.signingOut
    /\ Len(pending) < MaxPending
    /\ authUser' = NoUser
    /\ screen' = [screen EXCEPT !.signingOut = TRUE]
    /\ UNCHANGED <<cloud, bloc, ub, prefs, flows>>

\* After the await: clearAllData, not awaited, and the way to WelcomePage
\* through the context of the dialog, which may be gone by now.
BugLogoutWithoutClear ==
    /\ screen.signingOut
    /\ screen' = [StartScreen EXCEPT !.page = "Welcome", !.checking = FALSE]
    /\ flows' = LeavePage
    /\ UNCHANGED <<cloud, memory, prefs>>
SignedOut ==
    /\ screen.signingOut
    /\ Submit(pending, ClearWrite)
    /\ \/ /\ screen' = [StartScreen EXCEPT !.page = "Welcome", !.checking = FALSE]
          /\ flows' = LeavePage
       \/ /\ screen' = [screen EXCEPT !.signingOut = FALSE]
          /\ UNCHANGED flows
    /\ UNCHANGED <<cloud, memory, disk>>

--------------------------------------------------------------------------------
\* The process dies and is started again: Firebase keeps the user and the
\* unsent documents, SharedPreferences what had reached the disk.
Restart ==
    /\ cache' = disk
    /\ pending' = <<>>
    /\ bloc' = EmptyProfile
    /\ ub' = EmptyProfile
    /\ flows' = [f \in Flows |-> IdleFlow]
    /\ screen' = StartScreen
    /\ UNCHANGED <<cloud, authUser, disk>>

FlowStep(f) ==
    \/ CheckOne(f)
    \/ CheckTwo(f)
    \/ ServerCreates(f)
    \/ SignUpSucceeds(f)
    \/ SignInSucceeds(f)
    \/ AuthFails(f)
    \/ ProfileLoaded(f)
    \/ ProfileMissing(f)
    \/ PrefWritten(f)
    \/ SaveAcked(f)
    \/ NavigateHome(f)

UserStep ==
    \/ \E f \in Flows, u \in Users : Tap(f, u)
    \/ GoToSignIn
    \/ BackFromAuth
    \/ WelcomeToSignUp
    \/ OpenProfile
    \/ CloseProfile
    \/ SwitchTab
    \/ LogoutTap

Next ==
    \/ \E f \in Flows : FlowStep(f)
    \/ UserStep
    \/ \E u \in Users : CommitDoc(u) \/ RejectDoc(u)
    \/ CheckSignIn
    \/ FlushUnawaited
    \/ LoadUser
    \/ SignedOut
    \/ Restart

Spec == Init /\ [][Next]_vars

\* Timers fire, platform calls answer, and requests are answered or time out.
\* Nothing makes the server take an unsent document: the device may be offline
\* for good.  Nothing makes the user act.
Fairness ==
    /\ \A f \in Flows : WF_vars(FlowStep(f))
    /\ WF_vars(CheckSignIn)
    /\ WF_vars(FlushUnawaited)
    /\ WF_vars(LoadUser)
    /\ WF_vars(SignedOut)

FairSpec == Spec /\ Fairness

--------------------------------------------------------------------------------
(* Properties *)

TypeOK ==
    /\ accounts \in SUBSET Users
    /\ docs \in [Users -> Profile]
    /\ outbox \in [Users -> Profile]
    /\ authUser \in Users \cup {NoUser}
    /\ bloc \in Profile
    /\ ub \in Profile
    /\ cache \in Prefs
    /\ disk \in Prefs
    /\ pending \in Seq(Write)
    /\ flows \in [Flows -> Flow]
    /\ screen \in Screen

\* A device that will start signed in has the whole profile of somebody on
\* disk: the flag never gets there before the four values do, whatever dies
\* in between (the order of saveDataToSP, setSignIn and clearAllData).
PersistedSessionComplete == disk.signedIn => Complete(disk.profile)

\* ... and it is the profile of one registered user, not a mixture of two.
PersistedSessionOneUser ==
    disk.signedIn => \E u \in accounts : disk.profile = ProfileOf(u)

\* The app and Firebase agree on who is signed in, or Firebase has nobody ...
AuthAgrees == cache.signedIn => authUser \in {cache.profile["uid"], NoUser}

\* ... and only the loss of an unwritten clear() separates them: no step but a
\* restart makes the app show one user and write as another.
OnlyRestartSplitsAuth == [][AuthAgrees => AuthAgrees' \/ Restart]_vars

\* While a home page is shown no submission is under way that could still
\* write preferences behind the user's back.
NoFlowBehindHome == screen.page \in HomePages => \A f \in Flows : ~Active(f)

\* Logging out is final: WelcomePage is shown to nobody who is signed in or
\* is about to be.
WelcomeMeansSignedOut ==
    screen.page = "Welcome" => ~cache.signedIn /\ \A f \in Flows : ~Active(f)

\* Once initState's getUserData has run, the pages show the user who is signed
\* in, and comments are signed with that user's name.
UserBlocFresh ==
    screen.page \in HomePages /\ ~screen.homeInit /\ cache.signedIn
        => ub = cache.profile

\* The home page is entered with a session, never without: neither by a flow
\* that comes late nor by the launch check.
HomeEntryHasSession ==
    [][screen.page \notin HomePages /\ screen'.page \in HomePages => cache'.signedIn]_vars

\* users/<uid> is written by the sign-up that made the account and never again:
\* no write is under way that would replace the document, and the bookmarks
\* in it, of a user who has one.
ProfileWrittenOnce ==
    \A u \in Users : docs[u] = EmptyProfile \/ outbox[u] = EmptyProfile

\* The writes nobody awaits get there too: unless the process dies or the user
\* is quicker, the disk comes to say what the app believes, signed in or not.
DiskCatchesUp ==
    \A b \in BOOLEAN :
        (cache.signedIn = b) ~> (disk.signedIn = b \/ cache.signedIn # b)

\* A submission ends, in the home page or with an error, unless it waits for
\* the server to acknowledge users/<uid>, which it may do for good.
SubmissionEnds ==
    \A f \in Flows : Active(f) ~> (~Active(f) \/ flows[f].pc = "saving")

\* What the device has on disk goes through the sessions of the contract.
Contract == INSTANCE SessionContract
                WITH session <- IF disk.signedIn THEN disk.profile["uid"] ELSE NoUser
SessionRefinesContract == Contract!ContractSpec
================================================================================
