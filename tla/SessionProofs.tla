----------------------------- MODULE SessionProofs -----------------------------
(***************************************************************************)
(* What holds of Session for every set of people, every bound on the queue  *)
(* of writes and a user of any impatience: first the types, the disk and the*)
(* queue; then the submissions, the pages and the session, where some       *)
(* theorems ask for a user who waits; last the refinement of                *)
(* SessionContract.                                                         *)
(***************************************************************************)
EXTENDS Session, SequenceTheorems, TLAPS

--------------------------------------------------------------------------------
\* saveDataToSP writes four keys of the profile.
LEMMA KeyOrderType == \A i \in 1 .. 4 : KeyOrder[i] \in Keys
<1>. SUFFICES ASSUME NEW i \in 1 .. 4 PROVE KeyOrder[i] \in Keys
  OBVIOUS
<1>1. i = 1 \/ i = 2 \/ i = 3 \/ i = 4
  OBVIOUS
<1>2. /\ KeyOrder[1] = "name"
      /\ KeyOrder[2] = "email"
      /\ KeyOrder[3] = "image url"
      /\ KeyOrder[4] = "uid"
  BY DEF KeyOrder
<1>. QED
  BY <1>1, <1>2 DEF Keys

\* Applying a well-formed write to well-formed preferences gives preferences:
\* the setters of SharedPreferences keep the type of what they change.
LEMMA ApplyType ==
    ASSUME NEW w \in Write, NEW p \in Prefs
    PROVE  Apply(w, p) \in Prefs
<1>1. CASE w.op = "set"
  <2>1. w.key \in Keys /\ w.val \in Users \cup {NoUser}
    BY DEF Write
  <2>2. [p.profile EXCEPT ![w.key] = w.val] \in Profile
    BY <2>1 DEF Prefs, Profile
  <2>3. Apply(w, p) = [p EXCEPT !.profile = [p.profile EXCEPT ![w.key] = w.val]]
    BY <1>1 DEF Apply, Prefs
  <2>. QED
    BY <2>2, <2>3 DEF Prefs
<1>2. CASE w.op = "flag"
  BY <1>2 DEF Apply, Prefs
<1>3. CASE w.op = "clear"
  BY <1>3 DEF Apply, Prefs, NoPrefs, EmptyProfile, Profile
<1>. QED
  BY <1>1, <1>2, <1>3 DEF Write

\* The writes the program issues are well-formed: the four of saveDataToSP,
\* the one of setSignIn and the one of clearAllData.
LEMMA WriteType ==
    /\ FlagWrite \in Write
    /\ ClearWrite \in Write
    /\ \A f \in Flows, i \in 1 .. 4, p \in Profile : SetWrite(f, i, p) \in Write
<1>1. "uid" \in Keys
  BY DEF Keys
<1>2. FlagWrite \in Write /\ ClearWrite \in Write
  BY <1>1 DEF FlagWrite, ClearWrite, Write
<1>3. ASSUME NEW f \in Flows, NEW i \in 1 .. 4, NEW p \in Profile
      PROVE  SetWrite(f, i, p) \in Write
  <2>1. KeyOrder[i] \in Keys
    BY KeyOrderType
  <2>2. p[KeyOrder[i]] \in Users \cup {NoUser}
    BY <2>1 DEF Profile
  <2>. QED
    BY <2>1, <2>2 DEF SetWrite, Write
<1>. QED
  BY <1>2, <1>3

\* A setter keeps the cache and the queue of writes well-formed.
LEMMA SubmitType ==
    ASSUME NEW q \in Seq(Write), NEW w \in Write, cache \in Prefs, Submit(q, w)
    PROVE  cache' \in Prefs /\ pending' \in Seq(Write)
  BY ApplyType DEF Submit

\* Ending a flow or moving it on keeps the table of flows well-formed.
LEMMA FlowsType ==
    ASSUME flows \in [Flows -> Flow], NEW f \in Flows
    PROVE  /\ End(f) => flows' \in [Flows -> Flow]
           /\ \A pc \in FlowPcs : Goto(f, pc) => flows' \in [Flows -> Flow]
           /\ \A i \in 1 .. 4 : Await(f, i) => flows' \in [Flows -> Flow]
           /\ LeavePage \in [Flows -> Flow]
           /\ IdleFlow \in Flow
<1>1. IdleFlow \in Flow
  BY DEF IdleFlow, Flow, FlowPcs
<1>2. End(f) => flows' \in [Flows -> Flow]
  BY <1>1 DEF End
<1>3. ASSUME NEW pc \in FlowPcs, Goto(f, pc) PROVE flows' \in [Flows -> Flow]
  <2>1. [flows[f] EXCEPT !.pc = pc] \in Flow
    BY DEF Flow
  <2>. QED
    BY <1>3, <2>1 DEF Goto
<1>4. LeavePage \in [Flows -> Flow]
  <2>1. \A g \in Flows : [flows[g] EXCEPT !.mounted = FALSE] \in Flow
    BY DEF Flow
  <2>. QED
    BY <2>1 DEF LeavePage
<1>5. ASSUME NEW i \in 1 .. 4, Await(f, i) PROVE flows' \in [Flows -> Flow]
  <2>1. flows[f] \in Flow /\ "prefs" \in FlowPcs /\ i \in 0 .. 4
    BY DEF FlowPcs
  <2>2. [flows[f] EXCEPT !.pc = "prefs", !.at = i] \in Flow
    BY <2>1 DEF Flow
  <2>. QED
    BY <1>5, <2>2 DEF Await
<1>. QED
  BY <1>1, <1>2, <1>3, <1>4, <1>5

\* A first write of saveDataToSP keeps everything well-formed.
LEMMA BeginPrefsType ==
    ASSUME TypeOK, NEW f \in Flows, NEW p \in Profile, BeginPrefs(f, p)
    PROVE  /\ bloc' \in Profile
           /\ flows' \in [Flows -> Flow]
           /\ cache' \in Prefs
           /\ disk' \in Prefs
           /\ pending' \in Seq(Write)
<1>1. SetWrite(f, 1, p) \in Write
  BY WriteType
<1>2. cache' \in Prefs /\ pending' \in Seq(Write)
  BY <1>1, SubmitType DEF BeginPrefs, TypeOK
<1>3. flows' \in [Flows -> Flow]
  BY FlowsType DEF BeginPrefs, TypeOK
<1>. QED
  BY <1>2, <1>3 DEF BeginPrefs, TypeOK

\* So does setSignIn.
LEMMA SetSignInType ==
    ASSUME TypeOK, NEW f \in Flows, NEW q \in Seq(Write), SetSignIn(f, q)
    PROVE  /\ flows' \in [Flows -> Flow]
           /\ cache' \in Prefs
           /\ pending' \in Seq(Write)
<1>1. cache' \in Prefs /\ pending' \in Seq(Write)
  BY WriteType, SubmitType DEF SetSignIn, TypeOK
<1>2. "nav" \in FlowPcs
  BY DEF FlowPcs
<1>. QED
  BY <1>1, <1>2, FlowsType DEF SetSignIn, TypeOK

--------------------------------------------------------------------------------
\* TypeOK is not inductive: that a submission names a person, and that the
\* bloc names one when it saves, rests on what users/<uid> holds.
Named(d) == \A u \in Users : d[u] = EmptyProfile \/ d[u]["uid"] = u

TypeInv ==
    /\ TypeOK
    /\ \A f \in Flows : Active(f) => flows[f].user \in Users
    /\ \A f \in Flows : flows[f].pc = "prefs" => /\ bloc["uid"] \in Users
                                                /\ flows[f].at \in 1 .. 4
    /\ Named(docs)
    /\ Named(outbox)

LEMMA TypeInit == Init => TypeInv
<1>. SUFFICES ASSUME Init PROVE TypeInv
  OBVIOUS
<1>1. EmptyProfile \in Profile /\ \A u \in Users : ProfileOf(u) \in Profile
  BY DEF EmptyProfile, ProfileOf, Profile
<1>2. NoPrefs \in Prefs
  BY <1>1 DEF NoPrefs, Prefs
<1>3. IdleFlow \in Flow /\ StartScreen \in Screen
  BY DEF IdleFlow, Flow, FlowPcs, StartScreen, Screen, Pages
<1>4. IdleFlow.pc = "idle"
  BY DEF IdleFlow
<1>5. TypeOK
  BY <1>1, <1>2, <1>3 DEF Init, TypeOK
<1>6. \A u \in Users : ProfileOf(u)["uid"] = u
  BY DEF ProfileOf, Keys
<1>7. Named(docs) /\ Named(outbox)
  BY <1>6 DEF Init, Named
<1>. QED
  BY <1>4, <1>5, <1>7 DEF Init, TypeInv, Active

\* What a step of the flow f does to the table leaves the other flows alone.
LEMMA OtherFlows ==
    ASSUME flows \in [Flows -> Flow], NEW f \in Flows, NEW g \in Flows, g # f
    PROVE  /\ End(f) => flows'[g] = flows[g]
           /\ \A pc : Goto(f, pc) => flows'[g] = flows[g]
           /\ \A i : Await(f, i) => flows'[g] = flows[g]
  BY DEF End, Goto, Await

LEMMA TypeFlowStep ==
    ASSUME TypeInv, NEW f \in Flows, FlowStep(f)
    PROVE  TypeInv'
<1>. USE DEF TypeInv, TypeOK, cloud, memory, prefs
<1>0. /\ flows[f] \in Flow
      /\ flows[f].pc # "idle" => flows[f].user \in Users
      /\ IdleFlow.pc = "idle"
      /\ {"check2", "auth", "created", "profile", "nav"} \subseteq FlowPcs
  BY DEF Active, IdleFlow, FlowPcs
<1>1. ASSUME End(f), UNCHANGED <<cloud, memory, prefs, screen>> PROVE TypeInv'
  <2>1. flows' \in [Flows -> Flow]
    BY <1>1, FlowsType
  <2>2. \A g \in Flows : flows'[g] = flows[g] \/ flows'[g].pc = "idle"
    BY <1>0, <1>1 DEF End
  <2>. QED
    BY <1>1, <2>1, <2>2 DEF Active, Named
<1>2. ASSUME NEW pc \in {"check2", "auth", "created", "profile", "nav"},
             flows[f].pc # "idle", Goto(f, pc)
      PROVE  /\ flows' \in [Flows -> Flow]
             /\ \A g \in Flows : Active(g)' => flows'[g].user \in Users
             /\ \A g \in Flows : flows'[g].pc = "prefs" => flows'[g] = flows[g]
  <2>1. flows' \in [Flows -> Flow]
    BY <1>0, <1>2, FlowsType
  <2>2. /\ flows'[f].user = flows[f].user
        /\ flows'[f].pc = pc
        /\ \A g \in Flows : g # f => flows'[g] = flows[g]
    BY <1>0, <1>2 DEF Goto, Flow
  <2>. QED
    BY <1>0, <1>2, <2>1, <2>2 DEF Active
<1>3. CASE CheckOne(f)
  BY <1>1, <1>2, <1>3 DEF CheckOne, Named
<1>4. CASE CheckTwo(f)
  BY <1>1, <1>2, <1>4 DEF CheckTwo, Named
<1>5. CASE ServerCreates(f)
  BY <1>0, <1>2, <1>5 DEF ServerCreates, Named
<1>6. ASSUME NEW p \in Profile, p["uid"] \in Users, flows[f].pc # "idle",
             BeginPrefs(f, p), authUser' \in Users \cup {NoUser},
             UNCHANGED <<cloud, ub, screen>>
      PROVE  TypeInv'
  <2>1. TypeOK'
    BY <1>6, BeginPrefsType
  <2>2. /\ flows'[f].user = flows[f].user
        /\ flows'[f].at = 1
        /\ \A g \in Flows : g # f => flows'[g] = flows[g]
    BY <1>0, <1>6 DEF BeginPrefs, Await, Flow
  <2>3. bloc' = p
    BY <1>6 DEF BeginPrefs
  <2>. QED
    BY <1>0, <1>6, <2>1, <2>2, <2>3 DEF Active, Named
<1>7. CASE SignUpSucceeds(f)
  <2>1. flows[f].user \in Users
    BY <1>0, <1>7 DEF SignUpSucceeds
  <2>2. ProfileOf(flows[f].user) \in Profile /\ ProfileOf(flows[f].user)["uid"] = flows[f].user
    BY <2>1 DEF ProfileOf, Profile, Keys
  <2>. QED
    BY <1>6, <1>7, <2>1, <2>2 DEF SignUpSucceeds
<1>8. CASE SignInSucceeds(f)
  <2>1. flows[f].user \in Users
    BY <1>0, <1>8 DEF SignInSucceeds
  <2>2. bloc' \in Profile /\ bloc'["uid"] = flows[f].user
    BY <1>8, <2>1 DEF SignInSucceeds, Profile, Keys
  <2>. QED
    BY <1>0, <1>2, <1>8, <2>1, <2>2 DEF SignInSucceeds, Named
<1>9. CASE AuthFails(f)
  BY <1>1, <1>9 DEF AuthFails
<1>10. CASE ProfileLoaded(f)
  <2>1. flows[f].user \in Users
    BY <1>0, <1>10 DEF ProfileLoaded
  <2>2. /\ Visible(flows[f].user) \in Profile
        /\ Visible(flows[f].user)["uid"] \in Users
    BY <1>10, <2>1 DEF ProfileLoaded, Visible, Named
  <2>. QED
    BY <1>6, <1>10, <2>2 DEF ProfileLoaded
<1>11. CASE ProfileMissing(f)
  BY <1>1, <1>11 DEF ProfileMissing
<1>12. ASSUME NEW q \in Seq(Write), SetSignIn(f, q), flows[f].pc # "idle",
              disk' \in Prefs, UNCHANGED <<cloud, memory, screen>>
       PROVE  TypeInv'
  <2>1. TypeOK'
    BY <1>12, SetSignInType
  <2>2. End(f) \/ Goto(f, "nav")
    BY <1>12 DEF SetSignIn
  <2>3. CASE End(f)
    <3>1. \A g \in Flows : flows'[g] = flows[g] \/ flows'[g].pc = "idle"
      BY <1>0, <2>3 DEF End
    <3>. QED
      BY <1>12, <2>1, <3>1 DEF Active, Named
  <2>4. CASE Goto(f, "nav")
    BY <1>2, <1>12, <2>1, <2>4 DEF Named
  <2>. QED
    BY <2>2, <2>3, <2>4
<1>13. CASE PrefWritten(f)
  <2>1. /\ Head(pending) \in Write
        /\ Tail(pending) \in Seq(Write)
        /\ disk' \in Prefs
        /\ UNCHANGED <<accounts, docs, memory, screen>>
    BY <1>13, ApplyType DEF PrefWritten
  <2>2. flows[f].at \in 1 .. 4 /\ bloc["uid"] \in Users /\ Len(KeyOrder) = 4
    BY <1>13 DEF PrefWritten, KeyOrder
  <2>3. CASE /\ flows[f].at < Len(KeyOrder)
             /\ Submit(Tail(pending), SetWrite(f, flows[f].at + 1, bloc))
             /\ Await(f, flows[f].at + 1)
             /\ UNCHANGED outbox
    <3>1. flows[f].at + 1 \in 1 .. 4
      BY <2>2, <2>3
    <3>2. cache' \in Prefs /\ pending' \in Seq(Write)
      BY <2>1, <2>3, <3>1, WriteType, SubmitType
    <3>3. flows' \in [Flows -> Flow]
      BY <2>3, <3>1, FlowsType
    <3>4. /\ flows'[f].user = flows[f].user
          /\ flows'[f].at = flows[f].at + 1
          /\ \A g \in Flows : g # f => flows'[g] = flows[g]
      BY <1>0, <2>3 DEF Await, Flow
    <3>. QED
      BY <1>0, <1>13, <2>1, <2>3, <3>1, <3>2, <3>3, <3>4 DEF Active, Named, PrefWritten
  <2>4. CASE SaveToFirebase(f) /\ pending' = Tail(pending) /\ UNCHANGED cache
    <3>1. outbox' \in [Users -> Profile] /\ Named(outbox)'
      BY <2>2, <2>4 DEF SaveToFirebase, Named
    <3>2. "saving" \in FlowPcs
      BY DEF FlowPcs
    <3>3. [flows[f] EXCEPT !.pc = "saving", !.user = bloc["uid"]] \in Flow
      BY <1>0, <2>2, <3>2 DEF Flow
    <3>4. flows' \in [Flows -> Flow]
      BY <2>4, <3>3 DEF SaveToFirebase
    <3>5. /\ flows'[f].pc = "saving"
          /\ flows'[f].user = bloc["uid"]
          /\ \A g \in Flows : g # f => flows'[g] = flows[g]
      BY <1>0, <2>4 DEF SaveToFirebase, Flow
    <3>. QED
      BY <2>1, <2>2, <2>4, <3>1, <3>4, <3>5 DEF Active, Named
  <2>5. CASE SetSignIn(f, Tail(pending)) /\ UNCHANGED outbox
    BY <1>12, <1>13, <2>1, <2>5 DEF PrefWritten
  <2>. QED
    BY <1>13, <2>3, <2>4, <2>5 DEF PrefWritten
<1>14. CASE SaveAcked(f)
  BY <1>12, <1>14 DEF SaveAcked
<1>15. CASE NavigateHome(f)
  <2>1. LeavePage \in [Flows -> Flow] /\ IdleFlow \in Flow
    BY FlowsType
  <2>2. CASE End(f) /\ UNCHANGED screen
    BY <1>1, <1>15, <2>2 DEF NavigateHome
  <2>3. CASE /\ screen' = [screen EXCEPT !.page = "Home", !.profile = FALSE, !.homeInit = TRUE]
             /\ flows' = [LeavePage EXCEPT ![f] = IdleFlow]
    <3>1. screen' \in Screen
      BY <2>3 DEF Screen, Pages
    <3>2. flows' \in [Flows -> Flow]
      BY <2>1, <2>3
    <3>3. /\ flows'[f].pc = "idle"
          /\ \A g \in Flows : g # f => /\ flows'[g].pc = flows[g].pc
                                      /\ flows'[g].user = flows[g].user
                                      /\ flows'[g].at = flows[g].at
      BY <1>0, <2>3 DEF LeavePage, Flow
    <3>. QED
      BY <1>15, <3>1, <3>2, <3>3 DEF Active, Named, NavigateHome
  <2>. QED
    BY <1>15, <2>2, <2>3 DEF NavigateHome
<1>. QED
  BY <1>3, <1>4, <1>5, <1>7, <1>8, <1>9, <1>10, <1>11, <1>13, <1>14, <1>15 DEF FlowStep

LEMMA TypeUserStep ==
    ASSUME TypeInv, UserStep
    PROVE  TypeInv'
<1>. USE DEF TypeInv, TypeOK, cloud, memory, prefs
<1>1. ASSUME NEW s \in Screen, screen' = s, flows' = LeavePage,
             UNCHANGED <<cloud, memory, prefs>>
      PROVE  TypeInv'
  <2>1. flows' \in [Flows -> Flow]
    <3>1. \A g \in Flows : [flows[g] EXCEPT !.mounted = FALSE] \in Flow
      BY DEF Flow
    <3>. QED
      BY <1>1, <3>1 DEF LeavePage
  <2>2. \A g \in Flows : /\ flows'[g].pc = flows[g].pc
                         /\ flows'[g].user = flows[g].user
                         /\ flows'[g].at = flows[g].at
    BY <1>1 DEF LeavePage, Flow
  <2>. QED
    BY <1>1, <2>1, <2>2 DEF Active, Named
<1>2. ASSUME NEW s \in Screen, screen' = s, UNCHANGED <<cloud, bloc, ub, prefs, flows>>,
             authUser' \in Users \cup {NoUser}
      PROVE  TypeInv'
  BY <1>2 DEF Active, Named
<1>3. ASSUME NEW f \in Flows, NEW u \in Users, Tap(f, u) PROVE TypeInv'
  <2>1. PICK kind \in {"signup", "signin"} :
           flows' = [flows EXCEPT ![f] = [pc |-> "check1", at |-> 0, mounted |-> TRUE,
                                          user |-> u, kind |-> kind]]
    BY <1>3 DEF Tap
  <2>2. [pc |-> "check1", at |-> 0, mounted |-> TRUE, user |-> u, kind |-> kind] \in Flow
    BY DEF Flow, FlowPcs
  <2>3. flows' \in [Flows -> Flow]
    BY <2>1, <2>2
  <2>4. /\ flows'[f].pc = "check1" /\ flows'[f].user = u
        /\ \A g \in Flows : g # f => flows'[g] = flows[g]
    BY <2>1
  <2>. QED
    BY <1>3, <2>3, <2>4 DEF Tap, Active, Named
<1>4. CASE GoToSignIn
  <2>1. [screen EXCEPT !.page = "SignIn"] \in Screen
    BY DEF Screen, Pages
  <2>. QED
    BY <1>1, <1>4, <2>1 DEF GoToSignIn
<1>5. CASE BackFromAuth
  <2>1. [screen EXCEPT !.page = IF screen.overWelcome THEN "Welcome" ELSE "Blank",
                       !.overWelcome = FALSE] \in Screen
    BY DEF Screen, Pages
  <2>. QED
    BY <1>1, <1>5, <2>1 DEF BackFromAuth
<1>6. CASE WelcomeToSignUp
  <2>1. [screen EXCEPT !.page = "SignUp", !.overWelcome = TRUE] \in Screen
    BY DEF Screen, Pages
  <2>. QED
    BY <1>2, <1>6, <2>1 DEF WelcomeToSignUp
<1>7. CASE OpenProfile
  <2>1. [screen EXCEPT !.profile = TRUE] \in Screen
    BY DEF Screen
  <2>. QED
    BY <1>2, <1>7, <2>1 DEF OpenProfile
<1>8. CASE CloseProfile
  <2>1. [screen EXCEPT !.profile = FALSE] \in Screen
    BY DEF Screen
  <2>. QED
    BY <1>2, <1>8, <2>1 DEF CloseProfile
<1>9. CASE SwitchTab
  <2>1. [screen EXCEPT !.homeInit = TRUE] \in Screen
    BY DEF Screen
  <2>. QED
    BY <1>2, <1>9, <2>1 DEF SwitchTab
<1>10. CASE LogoutTap
  <2>1. [screen EXCEPT !.signingOut = TRUE] \in Screen
    BY DEF Screen
  <2>. QED
    BY <1>2, <1>10, <2>1 DEF LogoutTap
<1>. QED
  BY <1>3, <1>4, <1>5, <1>6, <1>7, <1>8, <1>9, <1>10 DEF UserStep

\* What the app, Firestore and the platform do outside a submission.
LEMMA TypeSystemStep ==
    ASSUME TypeInv,
           \/ \E u \in Users : CommitDoc(u) \/ RejectDoc(u)
           \/ CheckSignIn \/ FlushUnawaited \/ LoadUser \/ SignedOut \/ Restart
    PROVE  TypeInv'
<1>. USE DEF TypeInv, TypeOK, cloud, memory, prefs
<1>0. /\ EmptyProfile \in Profile
      /\ IdleFlow \in Flow /\ IdleFlow.pc = "idle"
      /\ StartScreen \in Screen
  BY DEF EmptyProfile, Profile, IdleFlow, Flow, FlowPcs, StartScreen, Screen, Pages
<1>1. ASSUME NEW u \in Users, CommitDoc(u) PROVE TypeInv'
  BY <1>0, <1>1 DEF CommitDoc, Active, Named
<1>2. ASSUME NEW u \in Users, RejectDoc(u) PROVE TypeInv'
  <2>1. flows' \in [Flows -> Flow]
    BY <1>0, <1>2 DEF RejectDoc
  <2>2. \A g \in Flows : flows'[g] = flows[g] \/ flows'[g].pc = "idle"
    BY <1>0, <1>2 DEF RejectDoc
  <2>. QED
    BY <1>0, <1>2, <2>1, <2>2 DEF RejectDoc, Active, Named
<1>3. CASE CheckSignIn
  <2>1. screen' \in Screen
    BY <1>3 DEF CheckSignIn, Screen, Pages
  <2>. QED
    BY <1>3, <2>1 DEF CheckSignIn, Active, Named
<1>4. CASE FlushUnawaited
  <2>1. Head(pending) \in Write /\ Tail(pending) \in Seq(Write)
    BY <1>4 DEF FlushUnawaited
  <2>. QED
    BY <1>4, <2>1, ApplyType DEF FlushUnawaited, Active, Named
<1>5. CASE LoadUser
  <2>1. cache.profile \in Profile /\ screen' \in Screen
    BY <1>5 DEF LoadUser, Prefs, Screen
  <2>. QED
    BY <1>5, <2>1 DEF LoadUser, Active, Named
<1>6. CASE SignedOut
  <2>1. cache' \in Prefs /\ pending' \in Seq(Write)
    BY <1>6, WriteType, SubmitType DEF SignedOut
  <2>2. screen' \in Screen
    BY <1>6 DEF SignedOut, StartScreen, Screen, Pages
  <2>3. \A g \in Flows : [flows[g] EXCEPT !.mounted = FALSE] \in Flow
    BY DEF Flow
  <2>4. /\ flows' \in [Flows -> Flow]
        /\ \A g \in Flows : /\ flows'[g].pc = flows[g].pc
                            /\ flows'[g].user = flows[g].user
                            /\ flows'[g].at = flows[g].at
    BY <1>6, <2>3 DEF SignedOut, LeavePage, Flow
  <2>. QED
    BY <1>6, <2>1, <2>2, <2>4 DEF SignedOut, Active, Named
<1>7. CASE Restart
  <2>1. flows' \in [Flows -> Flow] /\ \A g \in Flows : flows'[g].pc = "idle"
    BY <1>0, <1>7 DEF Restart
  <2>. QED
    BY <1>0, <1>7, <2>1 DEF Restart, Active, Named
<1>. QED
  BY <1>1, <1>2, <1>3, <1>4, <1>5, <1>6, <1>7

\* The three above, and the step that changes nothing.
LEMMA TypeStep == TypeInv /\ [Next]_vars => TypeInv'
<1>. SUFFICES ASSUME TypeInv, [Next]_vars PROVE TypeInv'
  OBVIOUS
<1>1. CASE UNCHANGED vars
  BY <1>1 DEF TypeInv, TypeOK, Active, Named, vars, cloud, memory, prefs
<1>2. CASE Next
  BY <1>2, TypeFlowStep, TypeUserStep, TypeSystemStep DEF Next
<1>. QED
  BY <1>1, <1>2

\* What TypeInv says holds of every reachable state.
THEOREM TypeInvariant == Spec => []TypeInv
  BY TypeInit, TypeStep, PTL DEF Spec

\* Type correctness: no handler of the two authentication pages, of the blocs
\* or of the logout leaves a field with a value of the wrong kind, whatever
\* submissions overlap.
THEOREM TypeCorrect == Spec => []TypeOK
<1>1. TypeInv => TypeOK
  BY DEF TypeInv
<1>. QED
  BY <1>1, TypeInvariant, PTL

--------------------------------------------------------------------------------
\* One submission at a time: what a user does who neither taps twice nor
\* starts a sign-in while the sign-up runs.  Leaving the page is allowed.
Serial == \A f, g \in Flows : f = g

Whole(d) == \A u \in Users : d[u] = EmptyProfile \/ Complete(d[u])

\* Home pages and submissions exclude each other, and a logout is a thing of
\* the home pages: nothing clears the preferences while a flow writes them.
PageInv ==
    /\ \A f \in Flows : Active(f) => screen.page \notin HomePages /\ ~screen.checking
    /\ screen.profile => screen.page \in HomePages
    /\ screen.signingOut => screen.page \in HomePages

\* The queue: clears nobody awaits, behind a flag at most, before the one write
\* of the flow that saves.  A flag in the queue finds four values on disk.
QueueInv ==
    \A i \in 1 .. Len(pending) :
        /\ pending[i].op = "set" => /\ i = Len(pending)
                                   /\ pending[i].by \in Flows
                                   /\ flows[pending[i].by].pc = "prefs"
        /\ pending[i].op # "set" => pending[i].by = NoFlow
        /\ pending[i].op = "flag" => i = 1 /\ Complete(disk.profile)

\* The flow that saves: its write is the last of the queue, and from the second
\* on the only one; what it wrote before is on disk.
SavingInv ==
    \A f \in Flows :
        /\ flows[f].pc = "prefs" =>
              /\ Complete(bloc)
              /\ pending # <<>>
              /\ pending[Len(pending)] = SetWrite(f, flows[f].at, bloc)
              /\ flows[f].at > 1 => Len(pending) = 1
              /\ \A j \in 1 .. flows[f].at - 1 : disk.profile[KeyOrder[j]] # NoUser
        /\ flows[f].pc = "saving" => pending = <<>> /\ Complete(disk.profile)

SessionInv ==
    /\ TypeInv
    /\ Whole(docs)
    /\ Whole(outbox)
    /\ PageInv
    /\ QueueInv
    /\ SavingInv
    /\ PersistedSessionComplete

--------------------------------------------------------------------------------
\* The four keys of saveDataToSP are all there are: who wrote them all wrote a
\* whole profile.
LEMMA FourKeys ==
    ASSUME NEW p \in Profile, \A j \in 1 .. 4 : p[KeyOrder[j]] # NoUser
    PROVE  Complete(p)
<1>1. /\ KeyOrder[1] = "name"
      /\ KeyOrder[2] = "email"
      /\ KeyOrder[3] = "image url"
      /\ KeyOrder[4] = "uid"
  BY DEF KeyOrder
<1>2. p[KeyOrder[1]] # NoUser /\ p[KeyOrder[2]] # NoUser
  OBVIOUS
<1>3. p[KeyOrder[3]] # NoUser /\ p[KeyOrder[4]] # NoUser
  OBVIOUS
<1>. QED
  BY <1>1, <1>2, <1>3 DEF Complete, Keys

\* The write of a value adds to a profile and takes nothing away.
LEMMA ApplySet ==
    ASSUME NEW w \in Write, NEW p \in Prefs, w.op = "set", w.val # NoUser
    PROVE  /\ Apply(w, p).signedIn = p.signedIn
           /\ Apply(w, p).profile[w.key] # NoUser
           /\ \A k \in Keys : p.profile[k] # NoUser => Apply(w, p).profile[k] # NoUser
<1>1. /\ p.profile \in [Keys -> Users \cup {NoUser}]
      /\ w.key \in Keys
  BY DEF Prefs, Profile, Write
<1>2. Apply(w, p) = [p EXCEPT !.profile = [p.profile EXCEPT ![w.key] = w.val]]
  BY DEF Apply, Prefs
<1>3. /\ Apply(w, p).signedIn = p.signedIn
      /\ Apply(w, p).profile = [p.profile EXCEPT ![w.key] = w.val]
  BY <1>2 DEF Prefs
<1>. QED
  BY <1>1, <1>3

\* A step of a submission that neither saves nor waits for its document leaves
\* what is said of queue and disk as it was.
LEMMA Bystander ==
    ASSUME Serial, SessionInv, NEW f \in Flows,
           flows[f].pc # "prefs", flows'[f].pc \notin {"prefs", "saving"},
           UNCHANGED prefs
    PROVE  QueueInv' /\ SavingInv' /\ PersistedSessionComplete'
<1>1. \A g \in Flows : g = f
  BY DEF Serial
<1>2. SavingInv'
  BY <1>1 DEF SavingInv
<1>3. QueueInv'
  BY <1>1 DEF SessionInv, QueueInv, prefs
<1>4. PersistedSessionComplete'
  BY DEF SessionInv, PersistedSessionComplete, prefs
<1>. QED
  BY <1>2, <1>3, <1>4

\* saveDataToSP begins behind a queue of clears and perhaps a flag.
LEMMA BeginPrefsInv ==
    ASSUME Serial, SessionInv, TypeInv', NEW f \in Flows, NEW p \in Profile,
           Complete(p), flows[f].pc \notin {"idle", "prefs", "saving"},
           BeginPrefs(f, p), UNCHANGED <<docs, outbox, screen>>
    PROVE  SessionInv'
<1>1. \A g \in Flows : g = f
  BY DEF Serial
<1>2. /\ pending \in Seq(Write)
      /\ disk' = disk
      /\ bloc' = p
      /\ pending' = Append(pending, SetWrite(f, 1, p))
      /\ flows'[f].pc = "prefs"
      /\ flows'[f].at = 1
  BY DEF SessionInv, TypeInv, TypeOK, BeginPrefs, Submit, Await, Flow
<1>3. \A i \in 1 .. Len(pending) : pending[i].op # "set"
  BY <1>1 DEF SessionInv, QueueInv
<1>4. /\ SetWrite(f, 1, p).op = "set"
      /\ SetWrite(f, 1, p).by = f
  BY DEF SetWrite
<1>5. /\ Len(pending') = Len(pending) + 1
      /\ pending'[Len(pending')] = SetWrite(f, 1, p)
      /\ \A i \in 1 .. Len(pending) : pending'[i] = pending[i]
      /\ pending' # <<>>
  BY <1>2
<1>6. QueueInv'
  <2>. SUFFICES ASSUME NEW i \in 1 .. Len(pending')
                PROVE  /\ pending'[i].op = "set" => /\ i = Len(pending')
                                                   /\ pending'[i].by \in Flows
                                                   /\ flows'[pending'[i].by].pc = "prefs"
                       /\ pending'[i].op # "set" => pending'[i].by = NoFlow
                       /\ pending'[i].op = "flag" => i = 1 /\ Complete(disk'.profile)
    BY DEF QueueInv
  <2>1. CASE i = Len(pending')
    BY <1>2, <1>4, <1>5, <2>1
  <2>2. CASE i \in 1 .. Len(pending)
    BY <1>2, <1>3, <1>5, <2>2 DEF SessionInv, QueueInv
  <2>. QED
    BY <1>2, <1>5, <2>1, <2>2
<1>7. SavingInv'
  BY <1>1, <1>2, <1>5 DEF SavingInv
<1>8. PageInv'
  BY <1>1 DEF SessionInv, PageInv, Active
<1>9. PersistedSessionComplete' /\ Whole(docs)' /\ Whole(outbox)'
  BY <1>2 DEF SessionInv, PersistedSessionComplete, Whole
<1>. QED
  BY <1>6, <1>7, <1>8, <1>9 DEF SessionInv

\* setSignIn, called when the queue is empty and the profile is on disk.
LEMMA SetSignInInv ==
    ASSUME Serial, SessionInv, TypeInv', NEW f \in Flows,
           flows[f].pc # "idle", SetSignIn(f, <<>>), Complete(disk'.profile),
           disk'.signedIn => disk.signedIn, UNCHANGED <<docs, outbox, screen>>
    PROVE  SessionInv'
<1>1. \A g \in Flows : g = f
  BY DEF Serial
<1>2. /\ pending' = <<FlagWrite>>
      /\ flows'[f].pc \in {"nav", "idle"}
  BY DEF SessionInv, TypeInv, TypeOK, SetSignIn, Submit, Goto, End, IdleFlow, Flow
<1>3. FlagWrite.op = "flag" /\ FlagWrite.by = NoFlow
  BY DEF FlagWrite
<1>4. Len(pending') = 1 /\ pending'[1] = FlagWrite
  BY <1>2
<1>5. QueueInv'
  BY <1>3, <1>4 DEF QueueInv
<1>6. SavingInv'
  BY <1>1, <1>2 DEF SavingInv
<1>7. PageInv'
  BY <1>1 DEF SessionInv, PageInv, Active
<1>8. PersistedSessionComplete' /\ Whole(docs)' /\ Whole(outbox)'
  BY DEF SessionInv, PersistedSessionComplete, Whole
<1>. QED
  BY <1>5, <1>6, <1>7, <1>8 DEF SessionInv

\* The awaited write is alone in the queue when it reaches the disk.
LEMMA AloneInQueue ==
    ASSUME SessionInv, NEW f \in Flows, PrefWritten(f)
    PROVE  /\ Len(pending) = 1 /\ pending[1] = SetWrite(f, flows[f].at, bloc)
           /\ Tail(pending) = <<>>
           /\ disk' = Apply(SetWrite(f, flows[f].at, bloc), disk)
<1>1. flows[f].pc = "prefs" /\ pending \in Seq(Write) /\ pending # <<>>
  BY DEF PrefWritten, SessionInv, TypeInv, TypeOK
\* Nothing but the flow's own write has the flow as its writer.
<1>2. Len(pending) = 1 /\ pending[1] = SetWrite(f, flows[f].at, bloc)
  <2>1. Head(pending) = pending[1] /\ 1 \in 1 .. Len(pending)
    BY <1>1
  <2>2. pending[1].by # NoFlow
    BY <2>1, SessionAssumption DEF PrefWritten
  <2>3. pending[1].op = "set"
    BY <2>1, <2>2 DEF SessionInv, QueueInv
  <2>4. 1 = Len(pending)
    BY <2>1, <2>3 DEF SessionInv, QueueInv
  <2>. QED
    BY <1>1, <2>4 DEF SessionInv, SavingInv
<1>3. Tail(pending) = <<>> /\ Head(pending) = pending[1]
  <2>1. Tail(pending) \in Seq(Write) /\ Len(Tail(pending)) = 0
    BY <1>1, <1>2
  <2>2. Tail(pending) = <<>>
    BY <2>1, EmptySeq
  <2>. QED
    BY <1>1, <2>2
<1>. QED
  BY <1>2, <1>3 DEF PrefWritten

\* What follows it keeps the invariant.
LEMMA PrefWrittenInv ==
    ASSUME Serial, SessionInv, TypeInv', NEW f \in Flows, PrefWritten(f)
    PROVE  SessionInv'
<1>. DEFINE at == flows[f].at
            w  == SetWrite(f, at, bloc)
<1>1. \A g \in Flows : g = f
  BY DEF Serial
<1>2. /\ flows[f].pc = "prefs" /\ at \in 1 .. 4
      /\ pending \in Seq(Write) /\ pending # <<>>
      /\ bloc \in Profile /\ disk \in Prefs
      /\ Complete(bloc)
      /\ KeyOrder[at] \in Keys
      /\ UNCHANGED <<docs, screen, bloc>>
  BY KeyOrderType
     DEF PrefWritten, SessionInv, TypeInv, TypeOK, SavingInv, memory
<1>3. /\ w \in Write
      /\ w.op = "set" /\ w.key = KeyOrder[at] /\ w.val # NoUser
  BY <1>2, WriteType DEF SetWrite, Complete
<1>4. Len(pending) = 1 /\ pending[1] = w
  BY AloneInQueue
<1>5. Tail(pending) = <<>>
  BY AloneInQueue
<1>6. disk' = Apply(w, disk)
  BY AloneInQueue
<1>7. /\ disk'.signedIn = disk.signedIn
      /\ disk'.profile \in Profile
      /\ \A j \in 1 .. at : disk'.profile[KeyOrder[j]] # NoUser
      /\ Complete(disk.profile) => Complete(disk'.profile)
  <2>1. /\ disk'.signedIn = disk.signedIn
        /\ disk'.profile[KeyOrder[at]] # NoUser
        /\ \A k \in Keys : disk.profile[k] # NoUser => disk'.profile[k] # NoUser
    BY <1>2, <1>3, <1>6, ApplySet
  <2>2. \A j \in 1 .. at - 1 : disk.profile[KeyOrder[j]] # NoUser
    BY <1>2 DEF SessionInv, SavingInv
  <2>3. \A j \in 1 .. at - 1 : disk'.profile[KeyOrder[j]] # NoUser
    <3>. SUFFICES ASSUME NEW j \in 1 .. at - 1 PROVE disk'.profile[KeyOrder[j]] # NoUser
      OBVIOUS
    <3>1. j \in 1 .. 4
      BY <1>2
    <3>. QED
      BY <2>1, <2>2, <3>1, KeyOrderType
  <2>4. \A j \in 1 .. at : j = at \/ j \in 1 .. at - 1
    BY <1>2
  <2>5. disk'.profile \in Profile
    BY DEF TypeInv, TypeOK, Prefs
  <2>. QED
    BY <2>1, <2>3, <2>4, <2>5 DEF Complete
<1>8. PersistedSessionComplete' /\ Whole(docs)'
  BY <1>2, <1>7 DEF SessionInv, PersistedSessionComplete, Whole
<1>9. Len(KeyOrder) = 4
  BY DEF KeyOrder
<1>10. CASE /\ at < Len(KeyOrder)
            /\ Submit(Tail(pending), SetWrite(f, at + 1, bloc))
            /\ Await(f, at + 1)
            /\ UNCHANGED outbox
  <2>1. /\ pending' = <<SetWrite(f, at + 1, bloc)>>
        /\ flows'[f].pc = "prefs" /\ flows'[f].at = at + 1
    <3>1. pending' = Append(<<>>, SetWrite(f, at + 1, bloc))
      BY <1>5, <1>10 DEF Submit
    <3>2. flows[f] \in Flow /\ flows \in [Flows -> Flow]
      BY DEF SessionInv, TypeInv, TypeOK
    <3>3. flows'[f].pc = "prefs" /\ flows'[f].at = at + 1
      BY <1>10, <3>2 DEF Await, Flow
    <3>. QED
      BY <3>1, <3>3
  <2>2. SetWrite(f, at + 1, bloc).op = "set" /\ SetWrite(f, at + 1, bloc).by = f
    BY DEF SetWrite
  <2>3. Len(pending') = 1 /\ pending'[1] = SetWrite(f, at + 1, bloc) /\ pending' # <<>>
    BY <2>1
  <2>4. QueueInv'
    BY <2>1, <2>2, <2>3 DEF QueueInv
  <2>5. SavingInv'
    <3>1. at + 1 - 1 = at
      BY <1>2
    <3>2. bloc' = bloc
      BY <1>2
    <3>. QED
      BY <1>1, <1>2, <1>7, <2>1, <2>3, <3>1, <3>2 DEF SavingInv
  <2>6. PageInv'
    BY <1>1, <1>2 DEF SessionInv, PageInv, Active
  <2>. QED
    BY <1>8, <1>10, <2>4, <2>5, <2>6 DEF SessionInv, Whole
<1>11. ASSUME at = Len(KeyOrder) PROVE Complete(disk'.profile)
  BY <1>7, <1>9, <1>11, FourKeys
<1>12. CASE /\ at = Len(KeyOrder)
            /\ SaveToFirebase(f)
            /\ pending' = Tail(pending)
  <2>1. /\ pending' = <<>>
        /\ flows'[f].pc = "saving"
        /\ Complete(disk'.profile)
    BY <1>5, <1>11, <1>12 DEF SaveToFirebase, SessionInv, TypeInv, TypeOK, Flow
  <2>2. QueueInv' /\ SavingInv'
    BY <1>1, <2>1 DEF QueueInv, SavingInv
  <2>3. PageInv'
    BY <1>1, <1>2 DEF SessionInv, PageInv, Active
  <2>4. Whole(outbox)'
    BY <1>2, <1>12 DEF SaveToFirebase, SessionInv, TypeInv, TypeOK, Whole
  <2>. QED
    BY <1>8, <2>2, <2>3, <2>4 DEF SessionInv
<1>13. CASE /\ at = Len(KeyOrder)
            /\ SetSignIn(f, Tail(pending))
            /\ UNCHANGED outbox
  BY <1>2, <1>5, <1>7, <1>11, <1>13, SetSignInInv
<1>. QED
  BY <1>10, <1>12, <1>13 DEF PrefWritten

LEMMA SessionFlowStep ==
    ASSUME Serial, SessionInv, TypeInv', NEW f \in Flows, FlowStep(f)
    PROVE  SessionInv'
<1>. USE DEF cloud, memory, prefs
<1>0. /\ \A g \in Flows : g = f
      /\ flows \in [Flows -> Flow] /\ flows[f] \in Flow
      /\ flows[f].pc # "idle" => flows[f].user \in Users
      /\ IdleFlow.pc = "idle"
  BY DEF Serial, SessionInv, TypeInv, TypeOK, Active, IdleFlow
\* The steps before and after the saving.
<1>1. ASSUME flows[f].pc \notin {"idle", "prefs"}, flows'[f].pc \notin {"prefs", "saving"},
             UNCHANGED <<docs, outbox, prefs>>,
             \/ UNCHANGED screen
             \/ /\ screen' = [screen EXCEPT !.page = "Home", !.profile = FALSE, !.homeInit = TRUE]
                /\ flows'[f].pc = "idle"
      PROVE  SessionInv'
  <2>1. QueueInv' /\ SavingInv' /\ PersistedSessionComplete'
    BY <1>1, Bystander
  <2>2. PageInv'
    BY <1>0, <1>1 DEF SessionInv, TypeInv, TypeOK, PageInv, Active, Screen, HomePages
  <2>3. Whole(docs)' /\ Whole(outbox)'
    BY <1>1 DEF SessionInv, Whole
  <2>. QED
    BY <2>1, <2>2, <2>3 DEF SessionInv
<1>2. /\ End(f) => flows'[f].pc = "idle"
      /\ \A pc : Goto(f, pc) => flows'[f].pc = pc
  BY <1>0 DEF End, Goto, Flow
<1>3. CASE CheckOne(f)
  BY <1>1, <1>2, <1>3 DEF CheckOne
<1>4. CASE CheckTwo(f)
  BY <1>1, <1>2, <1>4 DEF CheckTwo
<1>5. CASE ServerCreates(f)
  BY <1>1, <1>2, <1>5 DEF ServerCreates
<1>6. CASE SignUpSucceeds(f)
  <2>1. flows[f].user \in Users
    BY <1>0, <1>6 DEF SignUpSucceeds
  <2>2. ProfileOf(flows[f].user) \in Profile /\ Complete(ProfileOf(flows[f].user))
    BY <2>1, SessionAssumption DEF ProfileOf, Profile, Complete
  <2>. QED
    BY <1>6, <2>2, BeginPrefsInv DEF SignUpSucceeds
<1>7. CASE SignInSucceeds(f)
  BY <1>1, <1>2, <1>7 DEF SignInSucceeds
<1>8. CASE AuthFails(f)
  BY <1>1, <1>2, <1>8 DEF AuthFails
<1>9. CASE ProfileLoaded(f)
  <2>1. flows[f].user \in Users
    BY <1>0, <1>9 DEF ProfileLoaded
  <2>2. Visible(flows[f].user) \in Profile /\ Complete(Visible(flows[f].user))
    BY <1>9, <2>1 DEF ProfileLoaded, Visible, SessionInv, TypeInv, TypeOK, Whole
  <2>. QED
    BY <1>9, <2>2, BeginPrefsInv DEF ProfileLoaded
<1>10. CASE ProfileMissing(f)
  BY <1>1, <1>2, <1>10 DEF ProfileMissing
<1>11. CASE PrefWritten(f)
  BY <1>11, PrefWrittenInv
<1>12. CASE SaveAcked(f)
  <2>1. pending = <<>> /\ Complete(disk.profile)
    BY <1>12 DEF SaveAcked, SessionInv, SavingInv
  <2>. QED
    BY <1>12, <2>1, SetSignInInv DEF SaveAcked
<1>13. CASE NavigateHome(f)
  <2>1. flows'[f].pc = "idle"
    <3>1. LeavePage \in [Flows -> Flow]
      BY <1>0, FlowsType
    <3>. QED
      BY <1>0, <1>2, <1>13, <3>1 DEF NavigateHome
  <2>. QED
    BY <1>1, <1>13, <2>1 DEF NavigateHome
<1>. QED
  BY <1>3, <1>4, <1>5, <1>6, <1>7, <1>8, <1>9, <1>10, <1>11, <1>12, <1>13 DEF FlowStep

LEMMA SessionUserStep ==
    ASSUME Serial, SessionInv, TypeInv', UserStep
    PROVE  SessionInv'
<1>. USE DEF cloud, memory, prefs
<1>0. flows \in [Flows -> Flow] /\ screen \in Screen
  BY DEF SessionInv, TypeInv, TypeOK
\* Walking about changes no flow but to unmount it.
<1>1. ASSUME UNCHANGED <<docs, outbox, bloc, prefs>>, PageInv',
             \A g \in Flows : flows'[g].pc = flows[g].pc /\ flows'[g].at = flows[g].at
      PROVE  SessionInv'
  <2>1. QueueInv' /\ SavingInv' /\ PersistedSessionComplete'
    BY <1>1 DEF SessionInv, QueueInv, SavingInv, PersistedSessionComplete
  <2>. QED
    BY <1>1, <2>1 DEF SessionInv, Whole
<1>2. \A g \in Flows : LeavePage[g].pc = flows[g].pc /\ LeavePage[g].at = flows[g].at
  BY <1>0 DEF LeavePage, Flow
<1>3. ASSUME NEW f \in Flows, NEW u \in Users, Tap(f, u) PROVE SessionInv'
  <2>1. flows[f].pc = "idle" /\ flows'[f].pc = "check1"
    BY <1>0, <1>3 DEF Tap, Active
  <2>2. QueueInv' /\ SavingInv' /\ PersistedSessionComplete'
    BY <1>3, <2>1, Bystander DEF Tap
  <2>3. PageInv'
    BY <1>3 DEF Tap, SessionInv, PageInv, AuthPages, HomePages
  <2>. QED
    BY <1>3, <2>2, <2>3 DEF Tap, SessionInv, Whole
<1>4. CASE GoToSignIn
  <2>1. PageInv'
    BY <1>0, <1>2, <1>4 DEF GoToSignIn, SessionInv, PageInv, Active, Screen, HomePages
  <2>. QED
    BY <1>1, <1>2, <1>4, <2>1 DEF GoToSignIn
<1>5. CASE BackFromAuth
  <2>1. PageInv'
    BY <1>0, <1>2, <1>5 DEF BackFromAuth, SessionInv, PageInv, Active, Screen, HomePages
  <2>. QED
    BY <1>1, <1>2, <1>5, <2>1 DEF BackFromAuth
<1>6. CASE WelcomeToSignUp
  <2>1. PageInv'
    BY <1>0, <1>6 DEF WelcomeToSignUp, SessionInv, PageInv, Active, Screen, HomePages
  <2>. QED
    BY <1>1, <1>6, <2>1 DEF WelcomeToSignUp
<1>7. CASE OpenProfile
  <2>1. PageInv'
    BY <1>0, <1>7 DEF OpenProfile, SessionInv, PageInv, Active, Screen, HomePages
  <2>. QED
    BY <1>1, <1>7, <2>1 DEF OpenProfile
<1>8. CASE CloseProfile
  <2>1. PageInv'
    BY <1>0, <1>8 DEF CloseProfile, SessionInv, PageInv, Active, Screen
  <2>. QED
    BY <1>1, <1>8, <2>1 DEF CloseProfile
<1>9. CASE SwitchTab
  <2>1. PageInv'
    BY <1>0, <1>9 DEF SwitchTab, SessionInv, PageInv, Active, Screen
  <2>. QED
    BY <1>1, <1>9, <2>1 DEF SwitchTab
<1>10. CASE LogoutTap
  <2>1. PageInv'
    BY <1>0, <1>10 DEF LogoutTap, SessionInv, PageInv, Active, Screen
  <2>. QED
    BY <1>1, <1>10, <2>1 DEF LogoutTap
<1>. QED
  BY <1>3, <1>4, <1>5, <1>6, <1>7, <1>8, <1>9, <1>10 DEF UserStep

LEMMA SessionSystemStep ==
    ASSUME Serial, SessionInv, TypeInv',
           \/ \E u \in Users : CommitDoc(u) \/ RejectDoc(u)
           \/ CheckSignIn \/ FlushUnawaited \/ LoadUser \/ SignedOut \/ Restart
    PROVE  SessionInv'
<1>. USE DEF cloud, memory, prefs
<1>0. /\ flows \in [Flows -> Flow] /\ screen \in Screen
      /\ docs \in [Users -> Profile] /\ outbox \in [Users -> Profile]
      /\ pending \in Seq(Write)
      /\ IdleFlow.pc = "idle"
  BY DEF SessionInv, TypeInv, TypeOK, IdleFlow
<1>1. ASSUME NEW u \in Users, CommitDoc(u) PROVE SessionInv'
  <2>1. Whole(docs)' /\ Whole(outbox)'
    BY <1>0, <1>1 DEF CommitDoc, SessionInv, Whole
  <2>. QED
    BY <1>1, <2>1 DEF CommitDoc, SessionInv, PageInv, QueueInv, SavingInv,
                      PersistedSessionComplete, Active
<1>2. ASSUME NEW u \in Users, RejectDoc(u) PROVE SessionInv'
  <2>1. Whole(docs)' /\ Whole(outbox)'
    BY <1>0, <1>2 DEF RejectDoc, SessionInv, Whole
  <2>2. \A g \in Flows : \/ flows'[g] = flows[g]
                         \/ flows'[g].pc = "idle" /\ flows[g].pc # "prefs"
    <3>. SUFFICES ASSUME NEW g \in Flows
                  PROVE  \/ flows'[g] = flows[g]
                         \/ flows'[g].pc = "idle" /\ flows[g].pc # "prefs"
      OBVIOUS
    <3>1. flows'[g] = IF flows[g].pc = "saving" /\ flows[g].user = u
                      THEN IdleFlow ELSE flows[g]
      BY <1>2 DEF RejectDoc
    <3>. QED
      BY <1>0, <3>1
  <2>3. QueueInv'
    BY <1>2, <2>2 DEF RejectDoc, SessionInv, QueueInv
  <2>4. SavingInv' /\ PageInv' /\ PersistedSessionComplete'
    BY <1>2, <2>2 DEF RejectDoc, SessionInv, SavingInv, PageInv, Active, PersistedSessionComplete
  <2>. QED
    BY <2>1, <2>3, <2>4 DEF SessionInv
<1>3. CASE CheckSignIn
  <2>1. PageInv'
    BY <1>0, <1>3 DEF CheckSignIn, SessionInv, PageInv, Active, Screen, HomePages
  <2>. QED
    BY <1>3, <2>1 DEF CheckSignIn, SessionInv, Whole, QueueInv, SavingInv,
                      PersistedSessionComplete
<1>4. CASE FlushUnawaited
  <2>1. /\ pending # <<>> /\ Head(pending) = pending[1] /\ 1 \in 1 .. Len(pending)
        /\ pending' = Tail(pending)
        /\ pending[1] \in Write
        /\ disk' = Apply(pending[1], disk)
    BY <1>0, <1>4 DEF FlushUnawaited
  <2>2. pending[1].op \in {"flag", "clear"}
    BY <1>4, <2>1, SessionAssumption DEF FlushUnawaited, SessionInv, QueueInv, Write
  <2>3. /\ Len(pending') = Len(pending) - 1
        /\ \A i \in 1 .. Len(pending') : /\ pending'[i] = pending[i + 1]
                                         /\ i + 1 \in 1 .. Len(pending)
    BY <1>0, <2>1
  <2>4. QueueInv'
    <3>1. \A i \in 1 .. Len(pending') : pending'[i].op # "flag"
      BY <2>3 DEF SessionInv, QueueInv
    <3>2. \A i \in 1 .. Len(pending') : i + 1 = Len(pending) => i = Len(pending')
      BY <2>3
    <3>. QED
      BY <1>4, <2>3, <3>1, <3>2 DEF FlushUnawaited, SessionInv, QueueInv
  \* A flow that saves is at its first write: its second would be alone in the
  \* queue, and the queue's head is nobody's.
  <2>5. SavingInv'
    <3>. SUFFICES ASSUME NEW g \in Flows, flows[g].pc \in {"prefs", "saving"}
                  PROVE  /\ flows[g].pc = "prefs"
                         /\ Complete(bloc)
                         /\ pending' # <<>>
                         /\ pending'[Len(pending')] = SetWrite(g, flows[g].at, bloc)
                         /\ flows[g].at = 1
      BY <1>4 DEF FlushUnawaited, SavingInv, SessionInv, TypeInv
    <3>1. flows[g].pc = "prefs" /\ flows[g].at \in 1 .. 4
      BY <2>1 DEF SessionInv, SavingInv, TypeInv
    <3>2. /\ pending[Len(pending)] = SetWrite(g, flows[g].at, bloc)
          /\ SetWrite(g, flows[g].at, bloc).op = "set"
          /\ Complete(bloc)
          /\ flows[g].at > 1 => Len(pending) = 1
      BY <3>1 DEF SessionInv, SavingInv, SetWrite
    <3>3. Len(pending) # 1
      BY <2>2, <3>2
    <3>4. Len(pending') \in 1 .. Len(pending') /\ Len(pending') + 1 = Len(pending)
      BY <1>0, <2>1, <2>3, <3>3
    <3>. QED
      BY <2>3, <3>1, <3>2, <3>3, <3>4
  <2>6. PersistedSessionComplete'
    <3>1. CASE pending[1].op = "flag"
      <4>1. Complete(disk.profile)
        BY <2>1, <3>1 DEF SessionInv, QueueInv
      <4>2. disk'.profile = disk.profile
        BY <2>1, <3>1 DEF Apply, SessionInv, TypeInv, TypeOK, Prefs
      <4>. QED
        BY <4>1, <4>2 DEF PersistedSessionComplete
    <3>2. CASE pending[1].op = "clear"
      BY <2>1, <3>2 DEF Apply, NoPrefs, PersistedSessionComplete
    <3>. QED
      BY <2>2, <3>1, <3>2
  <2>. QED
    BY <1>4, <2>4, <2>5, <2>6 DEF FlushUnawaited, SessionInv, Whole, PageInv, Active
<1>5. CASE LoadUser
  <2>1. PageInv'
    BY <1>0, <1>5 DEF LoadUser, SessionInv, PageInv, Active, Screen
  <2>. QED
    BY <1>5, <2>1 DEF LoadUser, SessionInv, Whole, QueueInv, SavingInv,
                      PersistedSessionComplete
<1>6. CASE SignedOut
  \* A logout happens on a home page, and there no flow is under way.
  <2>1. \A g \in Flows : flows[g].pc = "idle"
    BY <1>6 DEF SignedOut, SessionInv, PageInv, Active
  <2>2. \A g \in Flows : flows'[g].pc = "idle"
    BY <1>0, <1>6, <2>1 DEF SignedOut, LeavePage, Flow
  <2>3. pending' = Append(pending, ClearWrite) /\ disk' = disk
    BY <1>6 DEF SignedOut, Submit
  <2>4. \A i \in 1 .. Len(pending) : pending[i].op # "set"
    BY <2>1 DEF SessionInv, QueueInv
  <2>5. ClearWrite.op = "clear" /\ ClearWrite.by = NoFlow
    BY DEF ClearWrite
  <2>6. \A i \in 1 .. Len(pending') : \/ i \in 1 .. Len(pending) /\ pending'[i] = pending[i]
                                      \/ pending'[i] = ClearWrite
    BY <1>0, <2>3
  <2>7. QueueInv'
    BY <2>3, <2>4, <2>5, <2>6 DEF SessionInv, QueueInv
  <2>8. SavingInv'
    BY <2>2 DEF SavingInv
  <2>9. PageInv'
    BY <1>0, <1>6, <2>2
       DEF SignedOut, SessionInv, PageInv, Active, Screen, StartScreen, HomePages
  <2>. QED
    BY <1>6, <2>3, <2>7, <2>8, <2>9
       DEF SignedOut, SessionInv, Whole, PersistedSessionComplete
<1>7. CASE Restart
  <2>1. \A g \in Flows : flows'[g].pc = "idle"
    BY <1>0, <1>7 DEF Restart
  <2>2. QueueInv' /\ SavingInv'
    BY <1>7, <2>1 DEF Restart, QueueInv, SavingInv
  <2>3. PageInv'
    BY <1>7, <2>1 DEF Restart, PageInv, Active, StartScreen
  <2>. QED
    BY <1>7, <2>2, <2>3 DEF Restart, SessionInv, Whole, PersistedSessionComplete
<1>. QED
  BY <1>1, <1>2, <1>3, <1>4, <1>5, <1>6, <1>7

LEMMA SessionInit == Init => SessionInv
<1>. SUFFICES ASSUME Init PROVE SessionInv
  OBVIOUS
<1>1. IdleFlow.pc = "idle"
  BY DEF IdleFlow
<1>2. \A u \in Users : Complete(ProfileOf(u))
  BY SessionAssumption DEF Complete, ProfileOf
<1>3. Whole(docs) /\ Whole(outbox)
  BY <1>2 DEF Init, Whole
<1>4. QueueInv /\ SavingInv /\ PersistedSessionComplete
  BY <1>1 DEF Init, QueueInv, SavingInv, PersistedSessionComplete, NoPrefs
<1>5. PageInv
  BY <1>1 DEF Init, PageInv, Active, StartScreen
<1>. QED
  BY <1>3, <1>4, <1>5, TypeInit DEF SessionInv

LEMMA SessionStep ==
    ASSUME Serial
    PROVE  SessionInv /\ [Next]_vars => SessionInv'
<1>. SUFFICES ASSUME SessionInv, [Next]_vars PROVE SessionInv'
  OBVIOUS
<1>1. TypeInv'
  BY TypeStep DEF SessionInv
<1>2. CASE UNCHANGED vars
  BY <1>1, <1>2 DEF SessionInv, Whole, PageInv, QueueInv, SavingInv,
                    PersistedSessionComplete, Active, vars, cloud, memory, prefs
<1>3. CASE Next
  BY <1>1, <1>3, SessionFlowStep, SessionUserStep, SessionSystemStep DEF Next
<1>. QED
  BY <1>2, <1>3

\* One submission at a time, a device that will start signed in has the whole
\* profile of somebody on disk, wherever the process dies and whenever the user
\* leaves a page: the flag, though nobody awaits it, is never ahead of the four
\* values, and a clear is never between them.
THEOREM SessionComplete ==
    ASSUME Serial
    PROVE  Spec => []PersistedSessionComplete
<1>1. SessionInv => PersistedSessionComplete
  BY DEF SessionInv
<1>. QED
  BY <1>1, SessionInit, SessionStep, PTL DEF Spec

\* One submission at a time, none is under way while a home page is shown.
THEOREM HomeIsQuiet ==
    ASSUME Serial
    PROVE  Spec => []NoFlowBehindHome
<1>1. SessionInv => NoFlowBehindHome
  BY DEF SessionInv, PageInv, NoFlowBehindHome
<1>. QED
  BY <1>1, SessionInit, SessionStep, PTL DEF Spec

(***************************************************************************)
(* Submissions, pages and sessions of Session: that a home page is entered  *)
(* with a session whatever the user does; what holds besides for a user who *)
(* waits for a submission to end; and that, with one submission at a time by*)
(* such a user, Session implements SessionContract.                         *)
(***************************************************************************)

--------------------------------------------------------------------------------
(* What a step of a submission can do to the pages *)

\* The page stays, and only a page that is still there gets as far as setSignIn.
Moves(f) ==
    /\ UNCHANGED screen
    /\ Active(f)
    /\ \A g \in Flows : g # f => flows'[g] = flows[g]
    /\ flows'[f].pc # "idle" => flows'[f].mounted = flows[f].mounted
    /\ \/ /\ cache'.signedIn = cache.signedIn
          /\ flows'[f].pc # "nav"
          /\ flows[f].pc # "nav" \/ ~flows[f].mounted
       \/ /\ cache'.signedIn
          /\ flows[f].pc # "nav"
          /\ flows'[f].pc = IF flows[f].mounted THEN "nav" ELSE "idle"

\* HomePage replaces the page.
Arrives(f) ==
    /\ flows[f].pc = "nav" /\ flows[f].mounted
    /\ screen' = [screen EXCEPT !.page = "Home", !.profile = FALSE, !.homeInit = TRUE]
    /\ flows' = [LeavePage EXCEPT ![f] = IdleFlow]
    /\ UNCHANGED <<cloud, memory, prefs>>

\* A value that saveDataToSP writes leaves the flag alone.
LEMMA SetKeepsFlag ==
    ASSUME cache \in Prefs, NEW q, NEW f, NEW i, NEW p, Submit(q, SetWrite(f, i, p))
    PROVE  cache'.signedIn = cache.signedIn
  BY DEF Submit, SetWrite, Apply, Prefs

LEMMA FlowMoves ==
    ASSUME TypeInv, NEW f \in Flows, FlowStep(f)
    PROVE  Moves(f) \/ Arrives(f)
<1>. USE DEF prefs
<1>0. /\ flows \in [Flows -> Flow] /\ flows[f] \in Flow /\ cache \in Prefs
      /\ IdleFlow.pc = "idle"
  BY DEF TypeInv, TypeOK, IdleFlow
<1>1. /\ End(f) => /\ flows'[f].pc = "idle"
                   /\ \A g \in Flows : g # f => flows'[g] = flows[g]
      /\ \A pc : Goto(f, pc) => /\ flows'[f].pc = pc /\ flows'[f].mounted = flows[f].mounted
                                /\ \A g \in Flows : g # f => flows'[g] = flows[g]
      /\ \A i : Await(f, i) => /\ flows'[f].pc = "prefs" /\ flows'[f].mounted = flows[f].mounted
                               /\ \A g \in Flows : g # f => flows'[g] = flows[g]
  BY <1>0 DEF End, Goto, Await, Flow
<1>2. ASSUME flows[f].pc \notin {"idle", "nav"}, UNCHANGED <<screen, cache>>,
             End(f) \/ \E pc \in {"check2", "auth", "created", "profile"} : Goto(f, pc)
      PROVE  Moves(f)
  BY <1>1, <1>2 DEF Moves, Active
<1>3. ASSUME flows[f].pc \notin {"idle", "nav"}, UNCHANGED screen, NEW p, BeginPrefs(f, p)
      PROVE  Moves(f)
  BY <1>0, <1>1, <1>3, SetKeepsFlag DEF Moves, Active, BeginPrefs
<1>4. ASSUME flows[f].pc \notin {"idle", "nav"}, UNCHANGED screen, NEW q, SetSignIn(f, q)
      PROVE  Moves(f)
  <2>1. cache'.signedIn
    BY <1>0, <1>4 DEF SetSignIn, Submit, FlagWrite, Apply, Prefs
  <2>. QED
    BY <1>1, <1>4, <2>1 DEF Moves, Active, SetSignIn
<1>5. CASE CheckOne(f)
  BY <1>2, <1>5 DEF CheckOne
<1>6. CASE CheckTwo(f)
  BY <1>2, <1>6 DEF CheckTwo
<1>7. CASE ServerCreates(f)
  BY <1>2, <1>7 DEF ServerCreates
<1>8. CASE SignUpSucceeds(f)
  BY <1>3, <1>8 DEF SignUpSucceeds
<1>9. CASE SignInSucceeds(f)
  BY <1>2, <1>9 DEF SignInSucceeds
<1>10. CASE AuthFails(f)
  BY <1>2, <1>10 DEF AuthFails
<1>11. CASE ProfileLoaded(f)
  BY <1>3, <1>11 DEF ProfileLoaded
<1>12. CASE ProfileMissing(f)
  BY <1>2, <1>12 DEF ProfileMissing
<1>13. CASE PrefWritten(f)
  <2>1. flows[f].pc = "prefs" /\ UNCHANGED screen
    BY <1>13 DEF PrefWritten
  <2>2. CASE Submit(Tail(pending), SetWrite(f, flows[f].at + 1, bloc)) /\ Await(f, flows[f].at + 1)
    BY <1>0, <1>1, <2>1, <2>2, SetKeepsFlag DEF Moves, Active
  <2>3. CASE SaveToFirebase(f) /\ UNCHANGED cache
    <3>1. /\ flows'[f].pc = "saving" /\ flows'[f].mounted = flows[f].mounted
          /\ \A g \in Flows : g # f => flows'[g] = flows[g]
      BY <1>0, <2>3 DEF SaveToFirebase, Flow
    <3>. QED
      BY <2>1, <2>3, <3>1 DEF Moves, Active
  <2>4. CASE SetSignIn(f, Tail(pending))
    BY <1>4, <2>1, <2>4
  <2>. QED
    BY <1>13, <2>2, <2>3, <2>4 DEF PrefWritten
<1>14. CASE SaveAcked(f)
  BY <1>4, <1>14 DEF SaveAcked
<1>15. CASE NavigateHome(f)
  <2>1. CASE flows[f].mounted
    BY <1>15, <2>1 DEF NavigateHome, Arrives
  <2>2. CASE ~flows[f].mounted
    BY <1>1, <1>15, <2>2 DEF NavigateHome, Moves, Active
  <2>. QED
    BY <2>1, <2>2
<1>. QED
  BY <1>5, <1>6, <1>7, <1>8, <1>9, <1>10, <1>11, <1>12, <1>13, <1>14, <1>15 DEF FlowStep

--------------------------------------------------------------------------------
(* The home page is entered with a session *)

\* A submission whose page is still there is alone with it: no home page can be
\* open below, and so no logout clears the flag that setSignIn set.
EntryInv ==
    /\ \A f \in Flows : Active(f) /\ flows[f].mounted =>
          screen.page \in AuthPages /\ ~screen.checking
    /\ screen.profile \/ screen.signingOut => screen.page \in HomePages
    /\ \A f \in Flows : flows[f].pc = "nav" /\ flows[f].mounted => cache.signedIn

\* Leaving a page unmounts every submission.
LEMMA LeavePageUnmounts ==
    ASSUME flows \in [Flows -> Flow]
    PROVE  /\ LeavePage \in [Flows -> Flow]
           /\ \A f \in Flows : ~LeavePage[f].mounted /\ LeavePage[f].pc = flows[f].pc
  BY FlowsType DEF LeavePage, Flow

LEMMA EntryFlowStep ==
    ASSUME TypeInv, EntryInv, NEW f \in Flows, FlowStep(f)
    PROVE  EntryInv' /\ (screen.page \notin HomePages /\ screen'.page \in HomePages => cache'.signedIn)
<1>1. CASE Moves(f)
  BY <1>1 DEF Moves, EntryInv, Active
<1>2. CASE Arrives(f)
  <2>1. /\ screen \in Screen /\ LeavePage \in [Flows -> Flow]
        /\ \A g \in Flows : ~LeavePage[g].mounted
    BY LeavePageUnmounts DEF TypeInv, TypeOK
  <2>2. \A g \in Flows : ~flows'[g].mounted
    BY <1>2, <2>1 DEF Arrives, IdleFlow
  <2>3. screen'.page = "Home" /\ cache' = cache /\ cache.signedIn
    BY <1>2, <2>1 DEF Arrives, Screen, prefs, EntryInv
  <2>. QED
    BY <2>2, <2>3 DEF EntryInv, HomePages
<1>. QED
  BY <1>1, <1>2, FlowMoves

LEMMA EntryOtherStep ==
    ASSUME TypeInv, EntryInv, [Next]_vars, ~(\E f \in Flows : FlowStep(f))
    PROVE  EntryInv' /\ (screen.page \notin HomePages /\ screen'.page \in HomePages => cache'.signedIn)
<1>. USE DEF prefs
<1>0. /\ screen \in Screen /\ flows \in [Flows -> Flow] /\ AuthPages \cap HomePages = {}
      /\ IdleFlow.pc = "idle"
  BY DEF TypeInv, TypeOK, AuthPages, HomePages, IdleFlow
<1>1. ASSUME UNCHANGED <<flows, cache>>, screen'.checking => screen.checking,
             screen'.page = screen.page \/ (screen.page \notin AuthPages /\ screen'.page \notin HomePages),
             screen'.profile \/ screen'.signingOut => screen'.page \in HomePages
      PROVE  /\ EntryInv'
             /\ screen.page \notin HomePages /\ screen'.page \in HomePages => cache'.signedIn
  BY <1>1 DEF EntryInv, Active
<1>2. ASSUME flows' = LeavePage, UNCHANGED cache, screen.page \in AuthPages,
             screen'.page \notin HomePages, ~screen'.profile, ~screen'.signingOut
      PROVE  /\ EntryInv'
             /\ screen.page \notin HomePages /\ screen'.page \in HomePages => cache'.signedIn
  BY <1>0, <1>2, LeavePageUnmounts DEF EntryInv, Active
<1>3. ASSUME NEW f \in Flows, NEW u \in Users, Tap(f, u)
      PROVE  /\ EntryInv'
             /\ screen.page \notin HomePages /\ screen'.page \in HomePages => cache'.signedIn
  <2>1. /\ flows'[f].pc = "check1" /\ \A g \in Flows : g # f => flows'[g] = flows[g]
        /\ screen.page \in AuthPages /\ ~screen.checking /\ UNCHANGED <<screen, cache>>
    BY <1>0, <1>3 DEF Tap
  <2>. QED
    BY <2>1 DEF EntryInv, Active
<1>4. CASE GoToSignIn
  <2>1. ~screen.profile /\ ~screen.signingOut /\ screen.page \in AuthPages
    BY <1>4 DEF GoToSignIn, EntryInv, HomePages, AuthPages
  <2>. QED
    BY <1>0, <1>2, <1>4, <2>1 DEF GoToSignIn, Screen, HomePages
<1>5. CASE BackFromAuth
  <2>1. ~screen.profile /\ ~screen.signingOut /\ screen.page \in AuthPages
    BY <1>5 DEF BackFromAuth, EntryInv, HomePages, AuthPages
  <2>. QED
    BY <1>0, <1>2, <1>5, <2>1 DEF BackFromAuth, Screen, HomePages
<1>6. CASE WelcomeToSignUp
  <2>1. ~screen.profile /\ ~screen.signingOut /\ screen.page \notin AuthPages
    BY <1>6 DEF WelcomeToSignUp, EntryInv, HomePages, AuthPages
  <2>. QED
    BY <1>0, <1>1, <1>6, <2>1 DEF WelcomeToSignUp, Screen, HomePages
<1>7. CASE OpenProfile \/ CloseProfile \/ SwitchTab \/ LogoutTap
  BY <1>0, <1>1, <1>7 DEF OpenProfile, CloseProfile, SwitchTab, LogoutTap, Screen, EntryInv
<1>8. CASE LoadUser
  BY <1>0, <1>1, <1>8 DEF LoadUser, Screen, EntryInv
<1>9. CASE FlushUnawaited \/ (\E u \in Users : CommitDoc(u)) \/ UNCHANGED vars
  BY <1>1, <1>9 DEF FlushUnawaited, CommitDoc, EntryInv, vars
<1>10. ASSUME NEW u \in Users, RejectDoc(u)
       PROVE  /\ EntryInv'
              /\ screen.page \notin HomePages /\ screen'.page \in HomePages => cache'.signedIn
  <2>1. \A g \in Flows : flows'[g] = flows[g] \/ flows'[g].pc = "idle"
    BY <1>0, <1>10 DEF RejectDoc
  <2>. QED
    BY <1>10, <2>1 DEF RejectDoc, EntryInv, Active
<1>11. CASE CheckSignIn
  <2>1. \A f \in Flows : ~(Active(f) /\ flows[f].mounted)
    BY <1>11 DEF CheckSignIn, EntryInv
  <2>2. \A f \in Flows : ~(flows[f].pc = "nav" /\ flows[f].mounted)
    BY <2>1 DEF Active
  <2>3. /\ UNCHANGED <<flows, cache>>
        /\ screen'.profile = screen.profile /\ screen'.signingOut = screen.signingOut
        /\ screen'.page = screen.page \/ (screen'.page = "Bottom" /\ cache.signedIn)
    BY <1>0, <1>11 DEF CheckSignIn, Screen
  <2>. QED
    BY <2>1, <2>2, <2>3 DEF EntryInv, Active, HomePages
<1>12. CASE SignedOut
  <2>1. screen.page \in HomePages /\ \A f \in Flows : ~(Active(f) /\ flows[f].mounted)
    BY <1>0, <1>12 DEF SignedOut, EntryInv
  <2>2. \A f \in Flows : ~(Active(f)' /\ flows'[f].mounted)
    BY <1>0, <1>12, <2>1, LeavePageUnmounts DEF SignedOut, Active
  <2>3. screen'.page = screen.page \/ (~screen'.profile /\ ~screen'.signingOut)
    BY <1>0, <1>12 DEF SignedOut, StartScreen, Screen
  <2>. QED
    BY <2>1, <2>2, <2>3 DEF EntryInv, Active
<1>13. CASE Restart
  <2>1. \A f \in Flows : flows'[f].pc = "idle"
    BY <1>0, <1>13 DEF Restart
  <2>2. screen'.page \notin HomePages /\ ~screen'.profile /\ ~screen'.signingOut
    BY <1>13 DEF Restart, StartScreen, HomePages
  <2>. QED
    BY <2>1, <2>2 DEF EntryInv, Active
<1>. QED
  BY <1>3, <1>4, <1>5, <1>6, <1>7, <1>8, <1>9, <1>10, <1>11, <1>12, <1>13 DEF Next, UserStep

LEMMA EntryInvariant == Spec => []EntryInv
<1>1. Init => EntryInv
  BY DEF Init, EntryInv, IdleFlow, Active, StartScreen, HomePages
<1>2. TypeInv /\ EntryInv /\ [Next]_vars => EntryInv'
  BY EntryFlowStep, EntryOtherStep
<1>. QED
  BY <1>1, <1>2, TypeInvariant, PTL DEF Spec

\* A home page is entered with a session, however many submissions overlap and
\* whatever page the user has gone to meanwhile (handleAfterSignup of both pages,
\* checkSignIn).
THEOREM EntryWithSession == Spec => HomeEntryHasSession
<1>1. TypeInv /\ EntryInv /\ [Next]_vars =>
          [screen.page \notin HomePages /\ screen'.page \in HomePages => cache'.signedIn]_vars
  BY EntryFlowStep, EntryOtherStep
<1>. QED
  BY <1>1, TypeInvariant, EntryInvariant, PTL DEF Spec, HomeEntryHasSession

--------------------------------------------------------------------------------
(* A user who waits *)

Patient == ~Impatient

\* One submission at a time, on the page it was made on; and whoever is signed in
\* is on a home page or on the way there.
AloneInv ==
    /\ \A f \in Flows : Active(f) =>
          flows[f].mounted /\ screen.page \in AuthPages /\ ~screen.checking
    /\ \A f, g \in Flows : Active(f) /\ Active(g) => f = g
    /\ screen.checking => screen.page = "SignUp"
    /\ cache.signedIn => \/ screen.page \in HomePages \/ screen.checking
                         \/ \E f \in Flows : flows[f].pc = "nav"

LEMMA AloneFlowStep ==
    ASSUME TypeInv, AloneInv, NEW f \in Flows, FlowStep(f)
    PROVE  AloneInv'
<1>1. CASE Moves(f)
  <2>1. flows[f].mounted /\ \A g \in Flows : Active(g) => g = f
    BY <1>1 DEF Moves, AloneInv
  <2>2. \A g \in Flows : Active(g)' => g = f
    BY <1>1, <2>1 DEF Moves, Active
  <2>3. cache'.signedIn => \/ flows'[f].pc = "nav"
                           \/ screen.page \in HomePages \/ screen.checking
    <3>1. flows[f].pc # "nav" => \A g \in Flows : flows[g].pc # "nav"
      BY <2>1 DEF Active
    <3>. QED
      BY <1>1, <2>1, <3>1 DEF Moves, AloneInv
  <2>. QED
    BY <1>1, <2>1, <2>2, <2>3 DEF Moves, AloneInv, Active
<1>2. CASE Arrives(f)
  <2>1. /\ screen \in Screen /\ LeavePage \in [Flows -> Flow] /\ IdleFlow.pc = "idle"
        /\ \A g \in Flows : LeavePage[g].pc = flows[g].pc
    BY LeavePageUnmounts DEF TypeInv, TypeOK, IdleFlow
  <2>2. Active(f) /\ flows'[f].pc = "idle"
    BY <1>2, <2>1 DEF Arrives, Active
  <2>3. \A g \in Flows : flows'[g].pc = "idle"
    BY <1>2, <2>1, <2>2 DEF Arrives, AloneInv, Active
  <2>4. screen'.page = "Home" /\ screen'.checking = screen.checking /\ ~screen.checking
    BY <1>2, <2>1, <2>2 DEF Arrives, Screen, AloneInv
  <2>. QED
    BY <2>3, <2>4 DEF AloneInv, Active, HomePages
<1>. QED
  BY <1>1, <1>2, FlowMoves

LEMMA AloneOtherStep ==
    ASSUME Patient, TypeInv, EntryInv, AloneInv, [Next]_vars, ~(\E f \in Flows : FlowStep(f))
    PROVE  AloneInv'
<1>. USE DEF prefs
<1>0. /\ screen \in Screen /\ flows \in [Flows -> Flow] /\ AuthPages \cap HomePages = {}
      /\ IdleFlow.pc = "idle"
  BY DEF TypeInv, TypeOK, AuthPages, HomePages, IdleFlow
\* Whoever acts on an authentication page has no submission and no session.
<1>1. ASSUME MayAct, ~screen.checking
      PROVE  /\ \A f \in Flows : flows[f].pc = "idle"
             /\ cache.signedIn => screen.page \in HomePages
  <2>1. \A f \in Flows : flows[f].pc = "idle"
    BY <1>1 DEF Patient, MayAct, Active
  <2>. QED
    BY <1>1, <2>1 DEF AloneInv
<1>2. ASSUME UNCHANGED <<flows, cache>>, screen'.page = screen.page,
             screen'.checking = screen.checking
      PROVE  AloneInv'
  BY <1>2 DEF AloneInv, Active
<1>3. ASSUME \A f \in Flows : flows'[f].pc = "idle", ~cache'.signedIn, ~screen'.checking
      PROVE  AloneInv'
  BY <1>3 DEF AloneInv, Active
<1>4. ASSUME NEW f \in Flows, NEW u \in Users, Tap(f, u) PROVE AloneInv'
  <2>1. /\ flows'[f].pc = "check1" /\ flows'[f].mounted
        /\ \A g \in Flows : g # f => flows'[g] = flows[g]
        /\ screen.page \in AuthPages /\ ~screen.checking /\ UNCHANGED <<screen, cache>>
    BY <1>0, <1>4 DEF Tap
  <2>2. (\A g \in Flows : flows[g].pc = "idle") /\ ~cache.signedIn
    BY <1>0, <1>1, <1>4, <2>1 DEF Tap
  <2>. QED
    BY <2>1, <2>2 DEF AloneInv, Active
<1>5. CASE GoToSignIn \/ BackFromAuth
  <2>1. MayAct /\ screen.page \in AuthPages /\ flows' = LeavePage /\ UNCHANGED cache
    BY <1>5 DEF GoToSignIn, BackFromAuth, AuthPages
  <2>2. ~screen.checking /\ screen'.checking = screen.checking
    BY <1>0, <1>5, <2>1 DEF Patient, MayAct, GoToSignIn, BackFromAuth, Screen
  <2>3. \A f \in Flows : flows'[f].pc = "idle"
    BY <1>0, <1>1, <2>1, <2>2, LeavePageUnmounts
  <2>4. ~cache.signedIn
    BY <1>0, <1>1, <2>1, <2>2
  <2>. QED
    BY <1>3, <2>1, <2>2, <2>3, <2>4
<1>6. CASE WelcomeToSignUp
  <2>1. screen.page \notin AuthPages \cup HomePages /\ screen.page # "SignUp"
    BY <1>6 DEF WelcomeToSignUp, AuthPages, HomePages
  <2>2. ~screen.checking /\ \A f \in Flows : flows[f].pc = "idle"
    BY <2>1 DEF AloneInv, Active
  <2>3. ~cache.signedIn
    BY <2>1, <2>2 DEF AloneInv
  <2>. QED
    BY <1>0, <1>3, <1>6, <2>2, <2>3 DEF WelcomeToSignUp, Screen
<1>7. CASE OpenProfile \/ CloseProfile \/ SwitchTab \/ LogoutTap
  BY <1>0, <1>2, <1>7 DEF OpenProfile, CloseProfile, SwitchTab, LogoutTap, Screen
<1>8. CASE LoadUser
  BY <1>0, <1>2, <1>8 DEF LoadUser, Screen
<1>9. CASE FlushUnawaited \/ (\E u \in Users : CommitDoc(u)) \/ UNCHANGED vars
  BY <1>2, <1>9 DEF FlushUnawaited, CommitDoc, vars
<1>10. ASSUME NEW u \in Users, RejectDoc(u) PROVE AloneInv'
  <2>1. \A g \in Flows : \/ flows'[g] = flows[g]
                         \/ flows'[g].pc = "idle" /\ flows[g].pc # "nav"
    <3>1. \A g \in Flows : flows'[g] = IF flows[g].pc = "saving" /\ flows[g].user = u
                                        THEN IdleFlow ELSE flows[g]
      BY <1>10 DEF RejectDoc
    <3>. QED
      BY <1>0, <3>1
  <2>2. UNCHANGED <<screen, cache>>
    BY <1>10 DEF RejectDoc
  <2>. QED
    BY <2>1, <2>2 DEF AloneInv, Active
<1>11. CASE CheckSignIn
  <2>1. screen.checking /\ screen.page = "SignUp" /\ \A f \in Flows : flows[f].pc = "idle"
    BY <1>11 DEF CheckSignIn, AloneInv, Active
  <2>2. CASE cache.signedIn
    <3>1. screen'.page = "Bottom" /\ ~screen'.checking /\ UNCHANGED <<flows, cache>>
      BY <1>0, <1>11, <2>1, <2>2 DEF CheckSignIn, Screen
    <3>. QED
      BY <2>1, <3>1 DEF AloneInv, Active, HomePages
  <2>3. CASE ~cache.signedIn
    BY <1>0, <1>3, <1>11, <2>1, <2>3 DEF CheckSignIn, Screen
  <2>. QED
    BY <2>2, <2>3
<1>12. CASE SignedOut
  <2>1. screen.page \in HomePages /\ ~screen.checking
    BY <1>12 DEF SignedOut, EntryInv, AloneInv, HomePages
  <2>2. \A f \in Flows : flows[f].pc = "idle"
    BY <1>0, <2>1 DEF AloneInv, Active
  <2>3. \A f \in Flows : flows'[f].pc = "idle"
    BY <1>0, <1>12, <2>2, LeavePageUnmounts DEF SignedOut
  <2>4. ~cache'.signedIn
    BY <1>12 DEF SignedOut, Submit, ClearWrite, Apply, NoPrefs
  <2>5. ~screen'.checking
    BY <1>0, <1>12, <2>1 DEF SignedOut, StartScreen, Screen
  <2>. QED
    BY <1>3, <2>3, <2>4, <2>5
<1>13. CASE Restart
  <2>1. \A f \in Flows : flows'[f].pc = "idle"
    BY <1>0, <1>13 DEF Restart
  <2>2. screen'.page = "SignUp" /\ screen'.checking
    BY <1>13 DEF Restart, StartScreen
  <2>. QED
    BY <2>1, <2>2 DEF AloneInv, Active
<1>. QED
  BY <1>4, <1>5, <1>6, <1>7, <1>8, <1>9, <1>10, <1>11, <1>12, <1>13 DEF Next, UserStep

LEMMA AloneInvariant ==
    ASSUME Patient
    PROVE  Spec => []AloneInv
<1>1. Init => AloneInv
  BY DEF Init, AloneInv, IdleFlow, Active, StartScreen, NoPrefs
<1>2. TypeInv /\ EntryInv /\ AloneInv /\ [Next]_vars => AloneInv'
  BY AloneFlowStep, AloneOtherStep
<1>. QED
  BY <1>1, <1>2, TypeInvariant, EntryInvariant, PTL DEF Spec

\* Logging out is final for a patient user: nobody who is signed in, or is about
\* to be, sees WelcomePage.
THEOREM WelcomeIsQuiet ==
    ASSUME Patient
    PROVE  Spec => []WelcomeMeansSignedOut
<1>1. AloneInv => WelcomeMeansSignedOut
  <2>. SUFFICES ASSUME AloneInv, screen.page = "Welcome"
                PROVE  ~cache.signedIn /\ \A f \in Flows : ~Active(f)
    BY DEF WelcomeMeansSignedOut
  <2>1. \A f \in Flows : ~Active(f)
    BY DEF AloneInv, AuthPages
  <2>2. ~screen.checking /\ screen.page \notin HomePages
    BY DEF AloneInv, HomePages
  <2>. QED
    BY <2>1, <2>2 DEF AloneInv, Active
<1>. QED
  BY <1>1, AloneInvariant, PTL
--------------------------------------------------------------------------------
(* Who is signed in *)

\* What Firebase Auth, the bloc and the cache say while a submission is under way.
AuthInv ==
    /\ \A f \in Flows : flows[f].pc = "profile" => authUser = flows[f].user
    /\ \A f \in Flows : flows[f].pc \in {"prefs", "saving"} => authUser = bloc["uid"]
    /\ \A f \in Flows : flows[f].pc = "saving" \/ (flows[f].pc = "prefs" /\ flows[f].at = 4) =>
          cache.profile["uid"] = bloc["uid"]

\* No step but a restart parts the app from Firebase.
AuthKept == AuthAgrees => AuthAgrees'

LEMMA AuthFlowStep ==
    ASSUME TypeInv, AloneInv, AuthInv, NEW f \in Flows, FlowStep(f)
    PROVE  AuthInv' /\ AuthKept
<1>. USE DEF prefs, memory, cloud
<1>0. /\ flows \in [Flows -> Flow] /\ flows[f] \in Flow /\ cache \in Prefs /\ bloc \in Profile
      /\ IdleFlow.pc = "idle" /\ "uid" \in Keys
      /\ Active(f) => flows[f].user \in Users
  BY DEF TypeInv, TypeOK, IdleFlow, Keys
<1>1. /\ Active(f)
      /\ \A g \in Flows : g # f => flows[g].pc = "idle"
      /\ flows[f].pc # "nav" => ~cache.signedIn
  <2>1. Active(f)
    BY FlowMoves, <1>0 DEF Moves, Arrives, Active
  <2>2. \A g \in Flows : g # f => flows[g].pc = "idle"
    BY <2>1 DEF AloneInv, Active
  <2>3. screen.page \notin HomePages /\ ~screen.checking
    BY <2>1 DEF AloneInv, AuthPages, HomePages
  <2>. QED
    BY <2>1, <2>2, <2>3 DEF AloneInv
\* Nobody is signed in, and only this submission is under way.
<1>2. ASSUME flows[f].pc # "nav", UNCHANGED cache,
             \A g \in Flows : g # f => flows'[g] = flows[g],
             flows'[f].pc = "profile" => authUser' = flows'[f].user,
             flows'[f].pc \in {"prefs", "saving"} => authUser' = bloc'["uid"],
             flows'[f].pc = "saving" \/ (flows'[f].pc = "prefs" /\ flows'[f].at = 4)
                 => cache'.profile["uid"] = bloc'["uid"]
      PROVE  AuthInv' /\ AuthKept
  BY <1>1, <1>2 DEF AuthInv, AuthKept, AuthAgrees
<1>3. /\ End(f) => /\ flows'[f].pc = "idle"
                   /\ \A g \in Flows : g # f => flows'[g] = flows[g]
      /\ \A pc : Goto(f, pc) => /\ flows'[f].pc = pc /\ flows'[f].user = flows[f].user
                                /\ \A g \in Flows : g # f => flows'[g] = flows[g]
      /\ \A i : Await(f, i) => /\ flows'[f].pc = "prefs" /\ flows'[f].at = i
                               /\ \A g \in Flows : g # f => flows'[g] = flows[g]
  <2>1. ASSUME End(f) PROVE flows'[f].pc = "idle"
    BY <1>0, <2>1 DEF End
  <2>2. ASSUME NEW pc, Goto(f, pc) PROVE flows'[f].pc = pc /\ flows'[f].user = flows[f].user
    BY <1>0, <2>2 DEF Goto, Flow
  <2>3. ASSUME NEW i, Await(f, i) PROVE flows'[f].pc = "prefs" /\ flows'[f].at = i
    BY <1>0, <2>3 DEF Await, Flow
  <2>4. ASSUME NEW g \in Flows, g # f
        PROVE  /\ End(f) => flows'[g] = flows[g]
               /\ \A pc : Goto(f, pc) => flows'[g] = flows[g]
               /\ \A i : Await(f, i) => flows'[g] = flows[g]
    BY <1>0, <2>4, OtherFlows
  <2>. QED
    BY <2>1, <2>2, <2>3, <2>4
<1>4. CASE CheckOne(f) \/ CheckTwo(f) \/ ServerCreates(f) \/ AuthFails(f) \/ ProfileMissing(f)
  <2>1. /\ flows[f].pc # "nav" /\ UNCHANGED cache
        /\ End(f) \/ \E pc \in {"check2", "auth", "created"} : Goto(f, pc)
    BY <1>4 DEF CheckOne, CheckTwo, ServerCreates, AuthFails, ProfileMissing
  <2>. QED
    BY <1>2, <1>3, <2>1
<1>5. CASE SignInSucceeds(f)
  BY <1>2, <1>3, <1>5 DEF SignInSucceeds
\* saveDataToSP begins for the user Firebase has.
<1>6. ASSUME flows[f].pc # "nav", NEW p \in Profile, BeginPrefs(f, p), authUser' = p["uid"]
      PROVE  AuthInv' /\ AuthKept
  <2>1. /\ flows'[f].pc = "prefs" /\ flows'[f].at = 1 /\ bloc' = p
        /\ \A g \in Flows : g # f => flows'[g] = flows[g]
    BY <1>3, <1>6 DEF BeginPrefs
  <2>2. ~cache'.signedIn
    BY <1>0, <1>1, <1>6, SetKeepsFlag DEF BeginPrefs
  <2>. QED
    BY <1>1, <1>6, <2>1, <2>2 DEF AuthInv, AuthKept, AuthAgrees
<1>7. CASE SignUpSucceeds(f)
  <2>1. /\ ProfileOf(flows[f].user) \in Profile
        /\ ProfileOf(flows[f].user)["uid"] = flows[f].user
    BY <1>0, <1>1 DEF ProfileOf, Profile
  <2>2. flows[f].pc # "nav" /\ authUser' = flows[f].user /\ BeginPrefs(f, ProfileOf(flows[f].user))
    BY <1>7 DEF SignUpSucceeds
  <2>. QED
    BY <1>6, <2>1, <2>2
<1>8. CASE ProfileLoaded(f)
  <2>1. /\ Visible(flows[f].user) \in Profile
        /\ Visible(flows[f].user)["uid"] = flows[f].user
    BY <1>0, <1>1, <1>8 DEF ProfileLoaded, Visible, TypeInv, TypeOK, Named
  <2>2. /\ flows[f].pc = "profile" /\ authUser' = authUser
        /\ BeginPrefs(f, Visible(flows[f].user))
    BY <1>8 DEF ProfileLoaded
  <2>3. authUser = flows[f].user
    BY <2>2 DEF AuthInv
  <2>. QED
    BY <1>6, <2>1, <2>2, <2>3
\* setSignIn comes when the cache has the uid Firebase has.
<1>9. ASSUME flows[f].pc \in {"prefs", "saving"}, cache.profile["uid"] = bloc["uid"],
             UNCHANGED memory, NEW q, SetSignIn(f, q)
      PROVE  AuthInv' /\ AuthKept
  <2>1. cache'.profile = cache.profile
    BY <1>0, <1>9 DEF SetSignIn, Submit, FlagWrite, Apply, Prefs
  <2>2. authUser' = cache'.profile["uid"]
    BY <1>9, <2>1 DEF AuthInv
  <2>3. /\ flows'[f].pc \in {"idle", "nav"}
        /\ \A g \in Flows : g # f => flows'[g] = flows[g]
    BY <1>3, <1>9 DEF SetSignIn
  <2>. QED
    BY <1>1, <2>2, <2>3 DEF AuthInv, AuthKept, AuthAgrees
<1>10. CASE PrefWritten(f)
  <2>1. /\ flows[f].pc = "prefs" /\ flows[f].at \in 1 .. 4 /\ UNCHANGED <<memory, screen>>
        /\ authUser = bloc["uid"] /\ Len(KeyOrder) = 4
    BY <1>10 DEF PrefWritten, TypeInv, AuthInv, KeyOrder
  <2>2. CASE /\ Submit(Tail(pending), SetWrite(f, flows[f].at + 1, bloc))
             /\ Await(f, flows[f].at + 1)
    <3>1. ~cache'.signedIn
      BY <1>0, <1>1, <2>1, <2>2, SetKeepsFlag
    <3>2. ASSUME flows[f].at + 1 = 4 PROVE cache'.profile["uid"] = bloc["uid"]
      <4>1. cache' = Apply(SetWrite(f, 4, bloc), cache) /\ KeyOrder[4] = "uid"
        BY <2>2, <3>2 DEF Submit, KeyOrder
      <4>2. cache' = [cache EXCEPT !.profile = [cache.profile EXCEPT !["uid"] = bloc["uid"]]]
        BY <1>0, <4>1 DEF SetWrite, Apply, Prefs
      <4>3. cache'.profile = [cache.profile EXCEPT !["uid"] = bloc["uid"]]
        BY <1>0, <4>2 DEF Prefs
      <4>. QED
        BY <1>0, <4>3 DEF Prefs, Profile
    <3>3. /\ flows'[f].pc = "prefs" /\ flows'[f].at = flows[f].at + 1
          /\ \A g \in Flows : g # f => flows'[g] = flows[g]
      BY <1>3, <2>2
    <3>. QED
      BY <1>1, <2>1, <3>1, <3>2, <3>3 DEF AuthInv, AuthKept, AuthAgrees
  <2>3. CASE flows[f].at = Len(KeyOrder) /\ SaveToFirebase(f) /\ UNCHANGED cache
    <3>1. /\ flows'[f].pc = "saving" /\ \A g \in Flows : g # f => flows'[g] = flows[g]
      BY <1>0, <2>3 DEF SaveToFirebase, Flow
    <3>2. cache.profile["uid"] = bloc["uid"]
      BY <2>1, <2>3 DEF AuthInv
    <3>. QED
      BY <1>2, <2>1, <2>3, <3>1, <3>2
  <2>4. CASE flows[f].at = Len(KeyOrder) /\ SetSignIn(f, Tail(pending))
    <3>1. cache.profile["uid"] = bloc["uid"]
      BY <2>1, <2>4 DEF AuthInv
    <3>. QED
      BY <1>9, <2>1, <2>4, <3>1
  <2>. QED
    BY <1>10, <2>2, <2>3, <2>4 DEF PrefWritten
<1>11. CASE SaveAcked(f)
  BY <1>9, <1>11 DEF SaveAcked, AuthInv
<1>12. CASE NavigateHome(f)
  <2>1. UNCHANGED <<authUser, bloc, cache>> /\ flows[f].pc = "nav"
    BY <1>12 DEF NavigateHome
  <2>2. \A g \in Flows : flows'[g].pc \notin {"profile", "prefs", "saving"}
    <3>1. \A g \in Flows : LeavePage[g].pc = flows[g].pc
      BY <1>0, LeavePageUnmounts
    <3>2. LeavePage \in [Flows -> Flow]
      BY <1>0, LeavePageUnmounts
    <3>. QED
      BY <1>0, <1>1, <1>3, <1>12, <3>1, <3>2 DEF NavigateHome
  <2>. QED
    BY <2>1, <2>2 DEF AuthInv, AuthKept, AuthAgrees
<1>. QED
  BY <1>4, <1>5, <1>7, <1>8, <1>10, <1>11, <1>12 DEF FlowStep

LEMMA AuthOtherStep ==
    ASSUME TypeInv, EntryInv, AloneInv, AuthInv, [Next]_vars, ~(\E f \in Flows : FlowStep(f))
    PROVE  AuthInv' /\ (AuthKept \/ Restart)
<1>. USE DEF prefs, memory
<1>0. /\ flows \in [Flows -> Flow] /\ IdleFlow.pc = "idle" /\ AuthPages \cap HomePages = {}
  BY DEF TypeInv, TypeOK, AuthPages, HomePages, IdleFlow
<1>1. ASSUME UNCHANGED <<authUser, bloc, cache>>,
             \A g \in Flows : \/ flows'[g].pc \notin {"profile", "prefs", "saving"}
                              \/ /\ flows'[g].pc = flows[g].pc /\ flows'[g].at = flows[g].at
                                 /\ flows'[g].user = flows[g].user
      PROVE  AuthInv' /\ AuthKept
  BY <1>1 DEF AuthInv, AuthKept, AuthAgrees
<1>2. ASSUME \A g \in Flows : flows'[g].pc = "idle" PROVE AuthInv'
  BY <1>2 DEF AuthInv
<1>3. ASSUME screen.page \in HomePages PROVE \A g \in Flows : flows[g].pc = "idle"
  BY <1>0, <1>3 DEF AloneInv, Active
<1>4. \A g \in Flows : /\ LeavePage[g].pc = flows[g].pc /\ LeavePage[g].at = flows[g].at
                       /\ LeavePage[g].user = flows[g].user
  BY <1>0 DEF LeavePage, Flow
<1>5. ASSUME NEW f \in Flows, NEW u \in Users, Tap(f, u) PROVE AuthInv' /\ AuthKept
  <2>1. flows'[f].pc = "check1" /\ \A g \in Flows : g # f => flows'[g] = flows[g]
    BY <1>0, <1>5 DEF Tap
  <2>. QED
    BY <1>1, <1>5, <2>1 DEF Tap
<1>6. CASE GoToSignIn \/ BackFromAuth
  BY <1>1, <1>4, <1>6 DEF GoToSignIn, BackFromAuth
<1>7. CASE WelcomeToSignUp \/ OpenProfile \/ CloseProfile \/ SwitchTab
  BY <1>1, <1>7 DEF WelcomeToSignUp, OpenProfile, CloseProfile, SwitchTab
<1>8. CASE LogoutTap
  <2>1. screen.page \in HomePages /\ flows' = flows /\ authUser' = NoUser
    BY <1>8 DEF LogoutTap, EntryInv
  <2>. QED
    BY <1>2, <1>3, <2>1 DEF AuthKept, AuthAgrees
<1>9. CASE LoadUser \/ FlushUnawaited \/ CheckSignIn \/ (\E u \in Users : CommitDoc(u)) \/ UNCHANGED vars
  BY <1>1, <1>9 DEF LoadUser, FlushUnawaited, CheckSignIn, CommitDoc, vars
<1>10. ASSUME NEW u \in Users, RejectDoc(u) PROVE AuthInv' /\ AuthKept
  <2>1. \A g \in Flows : flows'[g] = flows[g] \/ flows'[g].pc = "idle"
    BY <1>0, <1>10 DEF RejectDoc
  <2>. QED
    BY <1>1, <1>10, <2>1 DEF RejectDoc
<1>11. CASE SignedOut
  <2>1. \A g \in Flows : flows'[g].pc = "idle"
    BY <1>3, <1>4, <1>11 DEF SignedOut, EntryInv
  <2>2. ~cache'.signedIn
    BY <1>11 DEF SignedOut, Submit, ClearWrite, Apply, NoPrefs
  <2>. QED
    BY <1>2, <2>1, <2>2 DEF AuthKept, AuthAgrees
<1>12. CASE Restart
  BY <1>0, <1>2, <1>12 DEF Restart
<1>. QED
  BY <1>5, <1>6, <1>7, <1>8, <1>9, <1>10, <1>11, <1>12 DEF Next, UserStep

\* For a patient user only a restart, which loses a clear() nobody awaited, parts
\* the user the app shows from the one Firebase writes as.
THEOREM RestartAloneSplits ==
    ASSUME Patient
    PROVE  Spec => OnlyRestartSplitsAuth
<1>1. Init => AuthInv
  BY DEF Init, AuthInv, IdleFlow
<1>2. TypeInv /\ EntryInv /\ AloneInv /\ AuthInv /\ [Next]_vars => AuthInv'
  BY AuthFlowStep, AuthOtherStep
<1>3. TypeInv /\ EntryInv /\ AloneInv /\ AuthInv /\ [Next]_vars =>
          [AuthAgrees => AuthAgrees' \/ Restart]_vars
  BY AuthFlowStep, AuthOtherStep DEF AuthKept
<1>. QED
  BY <1>1, <1>2, <1>3, TypeInvariant, EntryInvariant, AloneInvariant, PTL
     DEF Spec, OnlyRestartSplitsAuth

--------------------------------------------------------------------------------
(* The user as the pages show them *)

LEMMA FreshStep ==
    ASSUME TypeInv, NoFlowBehindHome, UserBlocFresh, [Next]_vars
    PROVE  UserBlocFresh'
<1>. USE DEF prefs, memory
<1>0. screen \in Screen
  BY DEF TypeInv, TypeOK
<1>1. ASSUME UNCHANGED <<cache, ub>>, screen'.page = screen.page, screen'.homeInit = screen.homeInit
      PROVE  UserBlocFresh'
  BY <1>1 DEF UserBlocFresh
<1>2. ASSUME \/ screen'.page \notin HomePages \/ screen'.homeInit
             \/ ~cache'.signedIn \/ ub' = cache'.profile
      PROVE  UserBlocFresh'
  BY <1>2 DEF UserBlocFresh
<1>3. ASSUME NEW f \in Flows, FlowStep(f) PROVE UserBlocFresh'
  <2>1. CASE Moves(f)
    BY <1>2, <2>1 DEF Moves, NoFlowBehindHome
  <2>2. CASE Arrives(f)
    BY <1>0, <1>2, <2>2 DEF Arrives, Screen
  <2>. QED
    BY <1>3, <2>1, <2>2, FlowMoves
<1>4. CASE (\E f \in Flows, u \in Users : Tap(f, u)) \/ FlushUnawaited
           \/ (\E u \in Users : CommitDoc(u) \/ RejectDoc(u)) \/ UNCHANGED vars
  BY <1>1, <1>4 DEF Tap, FlushUnawaited, CommitDoc, RejectDoc, vars
<1>5. CASE GoToSignIn \/ BackFromAuth \/ WelcomeToSignUp \/ Restart
  <2>1. CASE GoToSignIn \/ WelcomeToSignUp
    BY <1>0, <1>2, <2>1 DEF GoToSignIn, WelcomeToSignUp, Screen, HomePages
  <2>2. CASE BackFromAuth
    BY <1>0, <1>2, <2>2 DEF BackFromAuth, Screen, HomePages
  <2>3. CASE Restart
    BY <1>2, <2>3 DEF Restart, StartScreen, HomePages
  <2>. QED
    BY <1>5, <2>1, <2>2, <2>3
<1>6. CASE OpenProfile \/ CloseProfile \/ LogoutTap
  BY <1>0, <1>1, <1>6 DEF OpenProfile, CloseProfile, LogoutTap, Screen
<1>7. CASE SwitchTab
  BY <1>0, <1>2, <1>7 DEF SwitchTab, Screen
<1>8. CASE CheckSignIn
  <2>1. CASE cache.signedIn /\ screen.page = "SignUp"
    BY <1>0, <1>2, <1>8, <2>1 DEF CheckSignIn, Screen
  <2>2. CASE ~(cache.signedIn /\ screen.page = "SignUp")
    BY <1>0, <1>1, <1>8, <2>2 DEF CheckSignIn, Screen
  <2>. QED
    BY <2>1, <2>2
<1>9. CASE LoadUser
  BY <1>2, <1>9 DEF LoadUser
<1>10. CASE SignedOut
  BY <1>2, <1>10 DEF SignedOut, Submit, ClearWrite, Apply, NoPrefs
<1>. QED
  BY <1>3, <1>4, <1>5, <1>6, <1>7, <1>8, <1>9, <1>10 DEF Next, UserStep

\* One submission at a time, the pages show the user who is signed in once
\* UserBloc.getUserData has run.
THEOREM UserShownIsCurrent ==
    ASSUME Serial
    PROVE  Spec => []UserBlocFresh
<1>1. Init => UserBlocFresh
  BY DEF Init, UserBlocFresh, StartScreen, HomePages
<1>. QED
  BY <1>1, FreshStep, TypeInvariant, HomeIsQuiet, PTL DEF Spec
--------------------------------------------------------------------------------
(* users/<uid> is written once *)

\* Submissions come one after the other, or are all about one person.
OneWriter == Serial \/ \A u, v \in Users : u = v

\* A sign-up whose document is still to be written.
Unwritten(x) == x.pc = "created" \/ (x.pc = "prefs" /\ x.kind = "signup")

\* Who has no account has no document; only one sign-up made the account, and
\* until it saves there is no document.
WrittenInv ==
    /\ \A u \in Users : u \notin accounts => docs[u] = EmptyProfile /\ outbox[u] = EmptyProfile
    /\ ProfileWrittenOnce
    /\ \A f \in Flows : Unwritten(flows[f]) =>
          LET u == flows[f].user
          IN  u \in accounts /\ docs[u] = EmptyProfile /\ outbox[u] = EmptyProfile
    /\ \A f, g \in Flows :
          Unwritten(flows[f]) /\ Unwritten(flows[g]) /\ flows[f].user = flows[g].user => f = g
    /\ \A f \in Flows : /\ flows[f].pc = "created" => flows[f].kind = "signup"
                        /\ flows[f].pc = "profile" => flows[f].kind = "signin"

\* The bloc still holds the user the sign-up is about.
UidInv ==
    \A f \in Flows : flows[f].pc = "prefs" /\ flows[f].kind = "signup" =>
        bloc["uid"] = flows[f].user

\* No document and no account changes, and no sign-up is new.
LEMMA WrittenKept ==
    ASSUME WrittenInv, UNCHANGED cloud,
           \A g \in Flows : /\ Unwritten(flows'[g]) => /\ Unwritten(flows[g])
                                                       /\ flows'[g].user = flows[g].user
                            /\ flows'[g].pc = "created" => flows'[g].kind = "signup"
                            /\ flows'[g].pc = "profile" => flows'[g].kind = "signin"
    PROVE  WrittenInv'
  BY DEF WrittenInv, ProfileWrittenOnce, cloud

\* What the steps of a submission do to its entry in the table.
LEMMA FlowEntry ==
    ASSUME flows \in [Flows -> Flow], NEW f \in Flows
    PROVE  /\ End(f) => flows'[f].pc = "idle"
           /\ \A pc : Goto(f, pc) => /\ flows'[f].pc = pc /\ flows'[f].user = flows[f].user
                                     /\ flows'[f].kind = flows[f].kind
           /\ \A i : Await(f, i) => /\ flows'[f].pc = "prefs" /\ flows'[f].at = i
                                    /\ flows'[f].user = flows[f].user
                                    /\ flows'[f].kind = flows[f].kind
           /\ SaveToFirebase(f) => /\ flows'[f].pc = "saving"
                                   /\ \A g \in Flows : g # f => flows'[g] = flows[g]
<1>1. ASSUME End(f) PROVE flows'[f].pc = "idle"
  BY <1>1 DEF End, IdleFlow
<1>2. ASSUME NEW pc, Goto(f, pc)
      PROVE  /\ flows'[f].pc = pc /\ flows'[f].user = flows[f].user
             /\ flows'[f].kind = flows[f].kind
  BY <1>2 DEF Goto, Flow
<1>3. ASSUME NEW i, Await(f, i)
      PROVE  /\ flows'[f].pc = "prefs" /\ flows'[f].at = i
             /\ flows'[f].user = flows[f].user /\ flows'[f].kind = flows[f].kind
  BY <1>3 DEF Await, Flow
<1>4. ASSUME SaveToFirebase(f)
      PROVE  flows'[f].pc = "saving" /\ \A g \in Flows : g # f => flows'[g] = flows[g]
  BY <1>4 DEF SaveToFirebase, Flow
<1>. QED
  BY <1>1, <1>2, <1>3, <1>4

LEMMA WrittenFlowStep ==
    ASSUME TypeInv, WrittenInv, UidInv, NEW f \in Flows, FlowStep(f)
    PROVE  WrittenInv'
<1>0. flows \in [Flows -> Flow] /\ outbox \in [Users -> Profile]
  BY DEF TypeInv, TypeOK
\* A step of f alone that writes no document.
<1>1. ASSUME UNCHANGED cloud, \A g \in Flows : g # f => flows'[g] = flows[g],
             Unwritten(flows'[f]) => Unwritten(flows[f]) /\ flows'[f].user = flows[f].user,
             flows'[f].pc = "created" => flows'[f].kind = "signup",
             flows'[f].pc = "profile" => flows'[f].kind = "signin"
      PROVE  WrittenInv'
  BY <1>1, WrittenKept DEF WrittenInv
<1>2. CASE CheckOne(f) \/ CheckTwo(f) \/ AuthFails(f) \/ ProfileMissing(f)
  <2>1. UNCHANGED cloud /\ (End(f) \/ Goto(f, "check2") \/ Goto(f, "auth"))
    BY <1>2 DEF CheckOne, CheckTwo, AuthFails, ProfileMissing
  <2>. QED
    BY <1>0, <1>1, <2>1, FlowEntry, OtherFlows DEF Unwritten
<1>3. CASE ServerCreates(f)
  <2>1. /\ flows'[f].pc = "created" /\ flows'[f].kind = "signup"
        /\ flows'[f].user = flows[f].user /\ flows[f].user \in Users
        /\ \A g \in Flows : g # f => flows'[g] = flows[g]
    BY <1>0, <1>3, FlowEntry, OtherFlows DEF ServerCreates, TypeInv, Active
  <2>2. /\ flows[f].user \notin accounts /\ accounts' = accounts \cup {flows[f].user}
        /\ UNCHANGED <<docs, outbox>>
    BY <1>3 DEF ServerCreates
  <2>3. \A g \in Flows : g # f /\ Unwritten(flows[g]) => flows[g].user # flows[f].user
    BY <2>2 DEF WrittenInv
  <2>. QED
    BY <2>1, <2>2, <2>3 DEF WrittenInv, ProfileWrittenOnce
<1>4. CASE SignUpSucceeds(f)
  <2>1. Await(f, 1) /\ flows[f].pc = "created" /\ UNCHANGED cloud
    BY <1>4 DEF SignUpSucceeds, BeginPrefs
  <2>. QED
    BY <1>0, <1>1, <2>1, FlowEntry, OtherFlows DEF Unwritten
<1>5. CASE SignInSucceeds(f)
  <2>1. Goto(f, "profile") /\ flows[f].kind = "signin" /\ UNCHANGED cloud
    BY <1>5 DEF SignInSucceeds
  <2>. QED
    BY <1>0, <1>1, <2>1, FlowEntry, OtherFlows DEF Unwritten
<1>6. CASE ProfileLoaded(f)
  <2>1. Await(f, 1) /\ flows[f].kind = "signin" /\ UNCHANGED cloud
    BY <1>6 DEF ProfileLoaded, BeginPrefs, WrittenInv
  <2>. QED
    BY <1>0, <1>1, <2>1, FlowEntry, OtherFlows DEF Unwritten
<1>7. ASSUME UNCHANGED cloud, NEW q, SetSignIn(f, q) PROVE WrittenInv'
  <2>1. End(f) \/ Goto(f, "nav")
    BY <1>7 DEF SetSignIn
  <2>. QED
    BY <1>0, <1>1, <1>7, <2>1, FlowEntry, OtherFlows DEF Unwritten
<1>8. CASE PrefWritten(f)
  <2>1. flows[f].pc = "prefs" /\ bloc["uid"] \in Users /\ UNCHANGED <<accounts, docs>>
    BY <1>8 DEF PrefWritten, TypeInv
  <2>2. CASE Await(f, flows[f].at + 1) /\ UNCHANGED outbox
    BY <1>0, <1>1, <2>1, <2>2, FlowEntry, OtherFlows DEF Unwritten, cloud
  <2>3. CASE flows[f].kind = "signup" /\ SaveToFirebase(f)
    <3>. DEFINE u == bloc["uid"]
    <3>1. Unwritten(flows[f]) /\ u = flows[f].user
      BY <2>1, <2>3 DEF Unwritten, UidInv
    <3>2. docs[u] = EmptyProfile /\ u \in accounts
      BY <3>1 DEF WrittenInv
    <3>3. outbox' = [outbox EXCEPT ![u] = bloc]
      BY <2>3 DEF SaveToFirebase
    <3>4. flows'[f].pc = "saving" /\ \A g \in Flows : g # f => flows'[g] = flows[g]
      BY <1>0, <2>3, FlowEntry
    <3>5. \A g \in Flows : g # f /\ Unwritten(flows[g]) => flows[g].user # u
      BY <3>1 DEF WrittenInv
    <3>. HIDE DEF u
    <3>6. \A v \in Users : v # u => outbox'[v] = outbox[v]
      BY <1>0, <3>3
    <3>7. ~Unwritten(flows'[f])
      BY <3>4 DEF Unwritten
    <3>8. \A v \in Users : v \notin accounts' => docs'[v] = EmptyProfile /\ outbox'[v] = EmptyProfile
      BY <2>1, <3>2, <3>6 DEF WrittenInv
    <3>9. ProfileWrittenOnce'
      BY <2>1, <3>2, <3>6 DEF WrittenInv, ProfileWrittenOnce
    <3>10. ASSUME NEW g \in Flows, Unwritten(flows'[g])
           PROVE  /\ g # f /\ flows'[g] = flows[g] /\ flows[g].user # u
                  /\ flows[g].user \in Users
      <4>1. g # f /\ flows'[g] = flows[g] /\ flows[g].user # u
        BY <3>4, <3>5, <3>7, <3>10
      <4>2. Active(g)
        BY <3>10, <4>1 DEF Unwritten, Active
      <4>. QED
        BY <4>1, <4>2 DEF TypeInv
    <3>. QED
      BY <2>1, <3>4, <3>6, <3>8, <3>9, <3>10 DEF WrittenInv
  <2>4. CASE SetSignIn(f, Tail(pending)) /\ UNCHANGED outbox
    BY <1>7, <2>1, <2>4 DEF cloud
  <2>. QED
    BY <1>8, <2>2, <2>3, <2>4 DEF PrefWritten
<1>9. CASE SaveAcked(f)
  BY <1>7, <1>9 DEF SaveAcked
<1>10. CASE NavigateHome(f)
  <2>1. CASE End(f)
    BY <1>0, <1>1, <1>10, <2>1, FlowEntry, OtherFlows DEF NavigateHome, Unwritten
  <2>2. CASE flows' = [LeavePage EXCEPT ![f] = IdleFlow]
    <3>1. \A g \in Flows : \/ flows'[g].pc = "idle"
                           \/ /\ flows'[g].pc = flows[g].pc /\ flows'[g].kind = flows[g].kind
                              /\ flows'[g].user = flows[g].user
      BY <1>0, <2>2, LeavePageUnmounts DEF LeavePage, IdleFlow, Flow
    <3>. QED
      BY <1>10, <3>1, WrittenKept DEF NavigateHome, Unwritten, WrittenInv
  <2>. QED
    BY <1>10, <2>1, <2>2 DEF NavigateHome
<1>. QED
  BY <1>2, <1>3, <1>4, <1>5, <1>6, <1>8, <1>9, <1>10 DEF FlowStep

\* Pages come and go, and the server takes documents or refuses them.
LEMMA WrittenOtherStep ==
    ASSUME TypeInv, WrittenInv, [Next]_vars, ~(\E f \in Flows : FlowStep(f))
    PROVE  WrittenInv' /\ \A g \in Flows : flows'[g].pc = "prefs" =>
                                /\ flows[g].pc = "prefs" /\ flows'[g].kind = flows[g].kind
                                /\ flows'[g].user = flows[g].user /\ bloc' = bloc
<1>. USE DEF memory
<1>0. /\ flows \in [Flows -> Flow] /\ IdleFlow.pc = "idle"
      /\ docs \in [Users -> Profile] /\ outbox \in [Users -> Profile]
  BY DEF TypeInv, TypeOK, IdleFlow
<1>. DEFINE Same(g) == /\ flows'[g].pc = flows[g].pc /\ flows'[g].kind = flows[g].kind
                       /\ flows'[g].user = flows[g].user
            Goal == WrittenInv' /\ \A g \in Flows : flows'[g].pc = "prefs" =>
                                /\ flows[g].pc = "prefs" /\ flows'[g].kind = flows[g].kind
                                /\ flows'[g].user = flows[g].user /\ bloc' = bloc
<1>1. ASSUME UNCHANGED cloud, \A g \in Flows : flows'[g].pc \in {"idle", "check1"} \/ Same(g),
             bloc' = bloc \/ \A g \in Flows : flows'[g].pc = "idle"
      PROVE  Goal
  BY <1>1, WrittenKept DEF Unwritten, WrittenInv
<1>2. \A g \in Flows : /\ LeavePage[g].pc = flows[g].pc /\ LeavePage[g].kind = flows[g].kind
                       /\ LeavePage[g].user = flows[g].user
  BY <1>0 DEF LeavePage, Flow
<1>3. ASSUME NEW f \in Flows, NEW u \in Users, Tap(f, u) PROVE Goal
  <2>1. flows'[f].pc = "check1" /\ \A g \in Flows : g # f => flows'[g] = flows[g]
    BY <1>0, <1>3 DEF Tap
  <2>. QED
    BY <1>1, <1>3, <2>1 DEF Tap
<1>4. CASE GoToSignIn \/ BackFromAuth \/ SignedOut
  BY <1>1, <1>2, <1>4 DEF GoToSignIn, BackFromAuth, SignedOut
<1>5. CASE \/ WelcomeToSignUp \/ OpenProfile \/ CloseProfile \/ SwitchTab \/ LogoutTap
           \/ CheckSignIn \/ FlushUnawaited \/ LoadUser \/ UNCHANGED vars
  BY <1>1, <1>5 DEF WelcomeToSignUp, OpenProfile, CloseProfile, SwitchTab, LogoutTap,
                    CheckSignIn, FlushUnawaited, LoadUser, vars
<1>6. CASE Restart
  <2>1. \A g \in Flows : flows'[g].pc = "idle"
    BY <1>0, <1>6 DEF Restart
  <2>. QED
    BY <1>1, <1>6, <2>1 DEF Restart
<1>7. ASSUME NEW u \in Users, CommitDoc(u) PROVE Goal
  <2>1. /\ outbox[u] # EmptyProfile /\ UNCHANGED <<accounts, flows, bloc>>
        /\ docs' = [docs EXCEPT ![u] = outbox[u]]
        /\ outbox' = [outbox EXCEPT ![u] = EmptyProfile]
    BY <1>7 DEF CommitDoc
  <2>2. /\ outbox'[u] = EmptyProfile
        /\ \A v \in Users : v # u => docs'[v] = docs[v] /\ outbox'[v] = outbox[v]
    BY <1>0, <2>1
  <2>3. \A g \in Flows : Unwritten(flows[g]) => flows[g].user # u /\ flows[g].user \in Users
    BY <2>1 DEF WrittenInv, TypeInv, Active, Unwritten
  <2>4. u \in accounts
    BY <2>1 DEF WrittenInv
  <2>. QED
    BY <2>1, <2>2, <2>3, <2>4 DEF WrittenInv, ProfileWrittenOnce
<1>8. ASSUME NEW u \in Users, RejectDoc(u) PROVE Goal
  <2>1. /\ outbox' = [outbox EXCEPT ![u] = EmptyProfile]
        /\ UNCHANGED <<accounts, docs, bloc>>
        /\ \A g \in Flows : flows'[g] = flows[g] \/ flows'[g].pc = "idle"
    BY <1>0, <1>8 DEF RejectDoc
  <2>2. \A v \in Users : outbox'[v] = outbox[v] \/ outbox'[v] = EmptyProfile
    BY <1>0, <2>1
  <2>3. \A g \in Flows : Unwritten(flows'[g]) => /\ flows'[g] = flows[g] /\ Unwritten(flows[g])
                                                 /\ flows[g].user \in Users
    BY <2>1 DEF Unwritten, TypeInv, Active
  <2>4. \A g \in Flows : /\ flows'[g].pc = "created" => flows'[g].kind = "signup"
                         /\ flows'[g].pc = "profile" => flows'[g].kind = "signin"
    BY <2>1 DEF WrittenInv
  <2>5. WrittenInv'
    BY <2>1, <2>2, <2>3, <2>4 DEF WrittenInv, ProfileWrittenOnce
  <2>. QED
    BY <2>1, <2>5
<1>. QED
  BY <1>3, <1>4, <1>5, <1>6, <1>7, <1>8 DEF Next, UserStep

LEMMA UidStep ==
    ASSUME OneWriter, TypeInv, TypeInv', WrittenInv, UidInv, [Next]_vars
    PROVE  UidInv'
<1>1. CASE \A u, v \in Users : u = v
  BY <1>1 DEF UidInv, TypeInv, Active
<1>2. ASSUME Serial, NEW f \in Flows, FlowStep(f) PROVE UidInv'
  <2>0. flows \in [Flows -> Flow] /\ \A g \in Flows : g = f
    BY <1>2 DEF TypeInv, TypeOK, Serial
  <2>1. CASE SignUpSucceeds(f)
    <3>1. /\ bloc' = ProfileOf(flows[f].user) /\ flows'[f].user = flows[f].user
      BY <2>0, <2>1, FlowEntry DEF SignUpSucceeds, BeginPrefs
    <3>. QED
      BY <2>0, <3>1 DEF UidInv, ProfileOf, Keys
  <2>2. CASE ProfileLoaded(f)
    <3>1. flows'[f].kind = "signin"
      BY <2>0, <2>2, FlowEntry DEF ProfileLoaded, BeginPrefs, WrittenInv
    <3>. QED
      BY <2>0, <3>1 DEF UidInv
  <2>3. CASE PrefWritten(f)
    <3>1. CASE Await(f, flows[f].at + 1)
      BY <2>0, <2>3, <3>1, FlowEntry DEF UidInv, PrefWritten, memory
    <3>2. CASE SaveToFirebase(f)
      BY <2>0, <3>2, FlowEntry DEF UidInv
    <3>3. CASE SetSignIn(f, Tail(pending))
      BY <2>0, <3>3, FlowEntry DEF UidInv, SetSignIn
    <3>. QED
      BY <2>3, <3>1, <3>2, <3>3 DEF PrefWritten
  <2>4. CASE NavigateHome(f)
    <3>1. flows'[f].pc = "idle"
      BY <2>0, <2>4, FlowEntry, LeavePageUnmounts DEF NavigateHome, IdleFlow
    <3>. QED
      BY <2>0, <3>1 DEF UidInv
  <2>5. CASE \/ CheckOne(f) \/ CheckTwo(f) \/ ServerCreates(f) \/ SignInSucceeds(f)
             \/ AuthFails(f) \/ ProfileMissing(f)
    <3>1. End(f) \/ \E pc \in {"check2", "auth", "created", "profile"} : Goto(f, pc)
      BY <2>5 DEF CheckOne, CheckTwo, ServerCreates, SignInSucceeds, AuthFails, ProfileMissing
    <3>. QED
      BY <2>0, <3>1, FlowEntry DEF UidInv
  <2>6. CASE SaveAcked(f)
    BY <2>0, <2>6, FlowEntry DEF UidInv, SaveAcked, SetSignIn
  <2>. QED
    BY <1>2, <2>1, <2>2, <2>3, <2>4, <2>5, <2>6 DEF FlowStep
<1>3. CASE ~(\E f \in Flows : FlowStep(f))
  BY <1>3, WrittenOtherStep DEF UidInv
<1>. QED
  BY <1>1, <1>2, <1>3 DEF OneWriter

\* users/<uid> is never written over: by submissions one after the other, or by any
\* number of overlapping ones of one person, who taps twice (saveToFirebase).
THEOREM DocumentWrittenOnce ==
    ASSUME OneWriter
    PROVE  Spec => []ProfileWrittenOnce
<1>1. Init => WrittenInv /\ UidInv
  <2>. SUFFICES ASSUME Init PROVE WrittenInv /\ UidInv
    OBVIOUS
  <2>1. \A f \in Flows : flows[f].pc = "idle"
    BY DEF Init, IdleFlow
  <2>2. \A u \in Users : /\ outbox[u] = EmptyProfile
                         /\ u \notin accounts => docs[u] = EmptyProfile
    BY DEF Init
  <2>3. \A f \in Flows : /\ ~Unwritten(flows[f]) /\ flows[f].pc # "prefs"
                         /\ flows[f].pc # "created" /\ flows[f].pc # "profile"
    BY <2>1 DEF Unwritten
  <2>4. ProfileWrittenOnce
    BY <2>2 DEF ProfileWrittenOnce
  <2>5. UidInv
    BY <2>3 DEF UidInv
  <2>6. WrittenInv
    BY <2>2, <2>3, <2>4 DEF WrittenInv
  <2>. QED
    BY <2>5, <2>6
<1>2. TypeInv /\ WrittenInv /\ UidInv /\ [Next]_vars => WrittenInv'
  BY WrittenFlowStep, WrittenOtherStep
<1>3. TypeInv /\ TypeInv' /\ WrittenInv /\ UidInv /\ [Next]_vars => UidInv'
  BY UidStep
<1>4. WrittenInv => ProfileWrittenOnce
  BY DEF WrittenInv
<1>. QED
  BY <1>1, <1>2, <1>3, <1>4, TypeInvariant, PTL DEF Spec
--------------------------------------------------------------------------------
(* The disk holds the session of one person *)

Whose(p) == \E u \in accounts : p = ProfileOf(u)

\* A document holds the profile its own user registered with.
Own(d) == \A u \in Users : d[u] = EmptyProfile \/ (d[u] = ProfileOf(u) /\ u \in accounts)

\* What is written to the disk, key by key, is one registered person's.
WritesInv ==
    \A f \in Flows :
        /\ flows[f].pc \in {"created", "profile"} => flows[f].user \in accounts
        /\ flows[f].pc = "prefs" =>
              /\ Whose(bloc)
              /\ \A j \in 1 .. flows[f].at - 1 : disk.profile[KeyOrder[j]] = bloc[KeyOrder[j]]
        /\ flows[f].pc = "saving" => Whose(disk.profile)

InQueue(op) == \E i \in 1 .. Len(pending) : pending[i].op = op

\* A flag in the queue finds that person's profile on disk, and a logout that the
\* disk does not know of yet has its clear in the queue.
OneUserInv ==
    /\ Own(docs)
    /\ Own(outbox)
    /\ WritesInv
    /\ InQueue("flag") => Whose(disk.profile)
    /\ PersistedSessionOneUser
    /\ ~cache.signedIn /\ (disk.signedIn \/ InQueue("flag")) => InQueue("clear")

\* Most steps leave the preferences alone and begin no saving.
LEMMA OneUserKept ==
    ASSUME OneUserInv, accounts \subseteq accounts', Own(docs)', Own(outbox)',
           UNCHANGED <<disk, pending>>, cache'.signedIn = cache.signedIn,
           \A g \in Flows :
               /\ flows'[g].pc \in {"created", "profile"} => flows'[g].user \in accounts'
               /\ flows'[g].pc = "prefs" => /\ flows[g].pc = "prefs" /\ bloc' = bloc
                                            /\ flows'[g].at = flows[g].at
               /\ flows'[g].pc = "saving" => flows[g].pc = "saving"
    PROVE  OneUserInv'
<1>1. \A p : Whose(p) => \E u \in accounts' : p = ProfileOf(u)
  BY DEF Whose
<1>2. WritesInv'
  BY <1>1 DEF OneUserInv, WritesInv, Whose
<1>3. InQueue("flag")' => Whose(disk.profile)'
  BY <1>1 DEF OneUserInv, InQueue, Whose
<1>4. PersistedSessionOneUser'
  BY DEF OneUserInv, PersistedSessionOneUser
<1>5. ~cache'.signedIn /\ (disk'.signedIn \/ InQueue("flag")') => InQueue("clear")'
  BY DEF OneUserInv, InQueue
<1>. QED
  BY <1>2, <1>3, <1>4, <1>5 DEF OneUserInv

\* Whoever saves has nobody's session on disk, nor one on its way there.
LEMMA SaverSignedOut ==
    ASSUME Serial, AloneInv, OneUserInv, NEW f \in Flows, Active(f), flows[f].pc # "nav",
           ~InQueue("clear")
    PROVE  ~cache.signedIn /\ ~disk.signedIn /\ ~InQueue("flag")
<1>1. ~cache.signedIn
  <2>1. screen.page \notin HomePages /\ ~screen.checking
    BY DEF AloneInv, AuthPages, HomePages
  <2>2. \A g \in Flows : flows[g].pc # "nav"
    BY DEF Serial
  <2>. QED
    BY <2>1, <2>2 DEF AloneInv
<1>. QED
  BY <1>1 DEF OneUserInv

\* saveDataToSP begins with the profile of a registered person.
LEMMA OneUserBegins ==
    ASSUME Serial, SessionInv, OneUserInv, NEW f \in Flows, NEW p \in Profile, Whose(p),
           BeginPrefs(f, p), UNCHANGED cloud
    PROVE  OneUserInv'
<1>1. /\ flows \in [Flows -> Flow] /\ cache \in Prefs /\ pending \in Seq(Write)
      /\ \A g \in Flows : g = f
  BY DEF SessionInv, TypeInv, TypeOK, Serial
<1>2. /\ flows'[f].pc = "prefs" /\ flows'[f].at = 1 /\ bloc' = p
      /\ pending' = Append(pending, SetWrite(f, 1, p)) /\ disk' = disk
  BY <1>1, FlowEntry DEF BeginPrefs, Submit
<1>3. cache'.signedIn = cache.signedIn
  BY <1>1, SetKeepsFlag DEF BeginPrefs
<1>4. SetWrite(f, 1, p).op = "set"
  BY DEF SetWrite
<1>5. /\ Len(pending') = Len(pending) + 1 /\ pending'[Len(pending')].op = "set"
      /\ \A i \in 1 .. Len(pending) : pending'[i] = pending[i]
  BY <1>1, <1>2, <1>4
<1>6. /\ InQueue("flag")' => InQueue("flag")
      /\ InQueue("clear") => InQueue("clear")'
  BY <1>1, <1>5 DEF InQueue
<1>7. WritesInv'
  BY <1>1, <1>2 DEF WritesInv, Whose, cloud
<1>. QED
  BY <1>2, <1>3, <1>6, <1>7 DEF OneUserInv, Own, Whose, PersistedSessionOneUser, cloud

\* setSignIn finds the profile on disk and nothing in the queue.
LEMMA OneUserSignsIn ==
    ASSUME Serial, SessionInv, NEW f \in Flows, SetSignIn(f, <<>>),
           Own(docs)', Own(outbox)', Whose(disk.profile)', PersistedSessionOneUser'
    PROVE  OneUserInv'
<1>1. /\ flows \in [Flows -> Flow] /\ cache \in Prefs /\ \A g \in Flows : g = f
  BY DEF SessionInv, TypeInv, TypeOK, Serial
<1>2. flows'[f].pc \in {"idle", "nav"}
  BY <1>1, FlowEntry DEF SetSignIn
<1>3. cache'.signedIn
  BY <1>1 DEF SetSignIn, Submit, FlagWrite, Apply, Prefs
<1>. QED
  BY <1>1, <1>2, <1>3 DEF OneUserInv, WritesInv

\* Who has written the four keys has written the profile.
LEMMA FourKeysAll ==
    ASSUME NEW p \in Profile, NEW q \in Profile,
           \A j \in 1 .. 4 : p[KeyOrder[j]] = q[KeyOrder[j]]
    PROVE  p = q
<1>1. /\ KeyOrder[1] = "name"
      /\ KeyOrder[2] = "email"
      /\ KeyOrder[3] = "image url"
      /\ KeyOrder[4] = "uid"
  BY DEF KeyOrder
<1>2. /\ p[KeyOrder[1]] = q[KeyOrder[1]] /\ p[KeyOrder[2]] = q[KeyOrder[2]]
      /\ p[KeyOrder[3]] = q[KeyOrder[3]] /\ p[KeyOrder[4]] = q[KeyOrder[4]]
  OBVIOUS
<1>3. \A k \in Keys : p[k] = q[k]
  BY <1>1, <1>2 DEF Keys
<1>. QED
  BY <1>3 DEF Profile

\* Each awaited write adds the bloc's value to what is on disk, where no flag can
\* be: so the fourth leaves there the whole of the bloc, one person's profile.
LEMMA OneUserWrites ==
    ASSUME Serial, SessionInv, AloneInv, OneUserInv, NEW f \in Flows, PrefWritten(f)
    PROVE  OneUserInv'
<1>. DEFINE at == flows[f].at
            k  == KeyOrder[at]
<1>0. /\ flows \in [Flows -> Flow] /\ cache \in Prefs /\ disk \in Prefs /\ bloc \in Profile
      /\ pending \in Seq(Write) /\ outbox \in [Users -> Profile] /\ at \in 1 .. 4
      /\ flows[f].pc = "prefs" /\ \A g \in Flows : g = f
  BY DEF SessionInv, TypeInv, TypeOK, Serial, PrefWritten
<1>1. /\ Len(pending) = 1 /\ pending[1] = SetWrite(f, at, bloc) /\ Tail(pending) = <<>>
      /\ disk' = Apply(SetWrite(f, at, bloc), disk)
  BY AloneInQueue
<1>2. ~cache.signedIn /\ ~disk.signedIn
  <2>1. ~InQueue("clear")
    BY <1>1 DEF InQueue, SetWrite
  <2>. QED
    BY <1>0, <2>1, SaverSignedOut DEF Active
<1>3. /\ disk' \in Prefs /\ ~disk'.signedIn
      /\ disk'.profile = [disk.profile EXCEPT ![k] = bloc[k]]
  <2>1. disk' = [disk EXCEPT !.profile = [disk.profile EXCEPT ![k] = bloc[k]]]
    BY <1>0, <1>1 DEF SetWrite, Apply, Prefs
  <2>2. disk' \in Prefs
    BY <1>0, <1>1, WriteType, ApplyType
  <2>. QED
    BY <1>0, <1>2, <2>1, <2>2 DEF Prefs
<1>4. \A j \in 1 .. at : disk'.profile[KeyOrder[j]] = bloc[KeyOrder[j]]
  <2>. SUFFICES ASSUME NEW j \in 1 .. at PROVE disk'.profile[KeyOrder[j]] = bloc[KeyOrder[j]]
    OBVIOUS
  <2>1. disk.profile \in [Keys -> Users \cup {NoUser}] /\ KeyOrder[j] \in Keys /\ k \in Keys
    BY <1>0, KeyOrderType DEF Prefs, Profile
  <2>2. j # at => disk.profile[KeyOrder[j]] = bloc[KeyOrder[j]]
    BY <1>0 DEF OneUserInv, WritesInv
  <2>. HIDE DEF k
  <2>3. CASE KeyOrder[j] = k
    BY <1>3, <2>1, <2>3
  <2>4. CASE KeyOrder[j] # k
    BY <1>3, <2>1, <2>2, <2>4 DEF k
  <2>. QED
    BY <2>3, <2>4
<1>5. at = 4 => disk'.profile = bloc
  <2>1. disk'.profile \in Profile /\ bloc \in Profile
    BY <1>0, <1>3 DEF Prefs
  <2>. SUFFICES ASSUME at = 4 PROVE disk'.profile = bloc
    OBVIOUS
  <2>2. \A j \in 1 .. 4 : disk'.profile[KeyOrder[j]] = bloc[KeyOrder[j]]
    BY <1>4
  <2>. HIDE DEF k
  <2>. QED
    BY <2>1, <2>2, FourKeysAll
<1>6. PersistedSessionOneUser' /\ accounts' = accounts /\ docs' = docs /\ bloc' = bloc
  BY <1>3 DEF PersistedSessionOneUser, PrefWritten, memory
<1>7. Whose(bloc) /\ Own(docs) /\ Own(outbox)
  BY <1>0 DEF OneUserInv, WritesInv
<1>8. Len(KeyOrder) = 4
  BY DEF KeyOrder
<1>9. CASE /\ at < Len(KeyOrder)
           /\ Submit(Tail(pending), SetWrite(f, at + 1, bloc))
           /\ Await(f, at + 1)
           /\ UNCHANGED outbox
  <2>1. flows'[f].pc = "prefs" /\ flows'[f].at = at + 1
    BY <1>0, <1>9, FlowEntry
  <2>2. Len(pending') = 1 /\ pending'[1].op = "set"
    BY <1>1, <1>9 DEF Submit, SetWrite
  <2>3. WritesInv'
    BY <1>0, <1>4, <1>6, <1>7, <2>1 DEF WritesInv, Whose
  <2>4. ~InQueue("flag")'
    BY <2>2 DEF InQueue
  <2>. QED
    BY <1>3, <1>6, <1>7, <1>9, <2>3, <2>4 DEF OneUserInv, Own
<1>10. CASE at = Len(KeyOrder) /\ SaveToFirebase(f) /\ pending' = Tail(pending)
  <2>1. flows'[f].pc = "saving" /\ Whose(disk.profile)'
    BY <1>0, <1>5, <1>6, <1>7, <1>8, <1>10, FlowEntry DEF Whose
  <2>2. WritesInv'
    BY <1>0, <2>1 DEF WritesInv
  <2>3. Own(outbox)'
    <3>1. PICK u \in accounts : bloc = ProfileOf(u)
      BY <1>7 DEF Whose
    <3>2. bloc["uid"] = u
      BY <3>1 DEF ProfileOf, Keys
    <3>3. outbox' = [outbox EXCEPT ![u] = bloc]
      BY <1>10, <3>2 DEF SaveToFirebase
    <3>. QED
      BY <1>0, <1>6, <1>7, <3>1, <3>3 DEF Own
  <2>4. ~InQueue("flag")'
    <3>1. Len(pending') = 0
      BY <1>1, <1>10
    <3>. QED
      BY <3>1 DEF InQueue
  <2>. QED
    BY <1>3, <1>6, <1>7, <2>2, <2>3, <2>4 DEF OneUserInv, Own
<1>11. CASE at = Len(KeyOrder) /\ SetSignIn(f, Tail(pending)) /\ UNCHANGED outbox
  <2>1. Whose(disk.profile)' /\ Own(docs)' /\ Own(outbox)'
    BY <1>5, <1>6, <1>7, <1>8, <1>11 DEF Whose, Own
  <2>. QED
    BY <1>1, <1>6, <1>11, <2>1, OneUserSignsIn
<1>. QED
  BY <1>9, <1>10, <1>11 DEF PrefWritten

LEMMA OneUserFlowStep ==
    ASSUME Serial, SessionInv, AloneInv, OneUserInv, NEW f \in Flows, FlowStep(f)
    PROVE  OneUserInv'
<1>. USE DEF prefs
<1>0. /\ flows \in [Flows -> Flow] /\ IdleFlow.pc = "idle" /\ \A g \in Flows : g = f
      /\ Own(docs) /\ Own(outbox)
  BY DEF SessionInv, TypeInv, TypeOK, Serial, IdleFlow, OneUserInv
<1>1. ASSUME UNCHANGED <<prefs, docs, outbox>>, accounts \subseteq accounts',
             flows'[f].pc \notin {"prefs", "saving"},
             flows'[f].pc \in {"created", "profile"} => flows'[f].user \in accounts'
      PROVE  OneUserInv'
  <2>1. Own(docs)' /\ Own(outbox)'
    BY <1>0, <1>1 DEF Own
  <2>. QED
    BY <1>0, <1>1, <2>1, OneUserKept
<1>2. CASE CheckOne(f) \/ CheckTwo(f) \/ AuthFails(f) \/ ProfileMissing(f)
  <2>1. /\ End(f) \/ Goto(f, "check2") \/ Goto(f, "auth")
        /\ UNCHANGED <<cloud, prefs>>
    BY <1>2 DEF CheckOne, CheckTwo, AuthFails, ProfileMissing
  <2>2. flows'[f].pc \in {"idle", "check2", "auth"}
    BY <1>0, <2>1, FlowEntry
  <2>. QED
    BY <1>1, <2>1, <2>2 DEF cloud
<1>3. CASE NavigateHome(f)
  <2>1. flows'[f].pc = "idle"
    BY <1>0, <1>3, FlowEntry, LeavePageUnmounts DEF NavigateHome
  <2>. QED
    BY <1>1, <1>3, <2>1 DEF NavigateHome, cloud
<1>4. CASE ServerCreates(f)
  <2>1. flows'[f].pc = "created" /\ flows'[f].user = flows[f].user
    BY <1>0, <1>4, FlowEntry DEF ServerCreates
  <2>. QED
    BY <1>1, <1>4, <2>1 DEF ServerCreates
<1>5. CASE SignInSucceeds(f)
  <2>1. flows'[f].pc = "profile" /\ flows'[f].user = flows[f].user
    BY <1>0, <1>5, FlowEntry DEF SignInSucceeds
  <2>. QED
    BY <1>1, <1>5, <2>1 DEF SignInSucceeds, cloud
<1>6. CASE SignUpSucceeds(f)
  <2>1. flows[f].user \in accounts /\ accounts \subseteq Users
    BY <1>6 DEF SignUpSucceeds, OneUserInv, WritesInv, SessionInv, TypeInv, TypeOK
  <2>2. ProfileOf(flows[f].user) \in Profile /\ Whose(ProfileOf(flows[f].user))
    BY <2>1 DEF ProfileOf, Profile, Whose
  <2>. QED
    BY <1>6, <2>2, OneUserBegins DEF SignUpSucceeds
<1>7. CASE ProfileLoaded(f)
  <2>1. flows[f].user \in Users /\ docs \in [Users -> Profile] /\ outbox \in [Users -> Profile]
    BY <1>7 DEF ProfileLoaded, SessionInv, TypeInv, TypeOK, Active
  <2>2. /\ Visible(flows[f].user) \in Profile
        /\ Visible(flows[f].user) # EmptyProfile
    BY <1>7, <2>1 DEF ProfileLoaded, Visible
  <2>3. Whose(Visible(flows[f].user))
    BY <1>0, <2>1, <2>2 DEF Visible, Own, Whose
  <2>. QED
    BY <1>7, <2>2, <2>3, OneUserBegins DEF ProfileLoaded
<1>8. CASE SaveAcked(f)
  <2>1. pending = <<>> /\ Whose(disk.profile)
    BY <1>8 DEF SaveAcked, SessionInv, SavingInv, OneUserInv, WritesInv
  <2>2. SetSignIn(f, <<>>) /\ UNCHANGED <<cloud, disk>>
    BY <1>8, <2>1 DEF SaveAcked
  <2>3. Own(docs)' /\ Own(outbox)' /\ Whose(disk.profile)' /\ PersistedSessionOneUser'
    BY <1>0, <2>1, <2>2 DEF Own, Whose, OneUserInv, PersistedSessionOneUser, cloud
  <2>. QED
    BY <2>2, <2>3, OneUserSignsIn
<1>. QED
  BY <1>2, <1>3, <1>4, <1>5, <1>6, <1>7, <1>8, OneUserWrites DEF FlowStep

\* A write nobody awaits is a flag, which finds its profile, or a clear.
LEMMA OneUserFlushes ==
    ASSUME SessionInv, OneUserInv, FlushUnawaited
    PROVE  /\ OneUserInv'
           /\ \/ disk' = [disk EXCEPT !.signedIn = TRUE] /\ Whose(disk.profile)
              \/ disk' = NoPrefs
<1>0. /\ pending \in Seq(Write) /\ pending # <<>> /\ Head(pending) = pending[1]
      /\ 1 \in 1 .. Len(pending) /\ Head(pending).by = NoFlow /\ Head(pending) \in Write
      /\ disk \in Prefs /\ disk' = Apply(Head(pending), disk) /\ pending' = Tail(pending)
      /\ UNCHANGED <<cloud, memory, cache, flows, screen>>
  BY DEF FlushUnawaited, SessionInv, TypeInv, TypeOK
<1>1. /\ Len(pending') = Len(pending) - 1
      /\ \A i \in 1 .. Len(pending') : pending'[i] = pending[i + 1] /\ i + 1 \in 1 .. Len(pending)
  BY <1>0
\* The flow that saves still waits for its first write.
<1>2. \A f \in Flows : /\ flows[f].pc = "prefs" => flows[f].at = 1
                       /\ flows[f].pc # "saving"
  <2>. SUFFICES ASSUME NEW f \in Flows
                PROVE  /\ flows[f].pc = "prefs" => flows[f].at = 1
                       /\ flows[f].pc # "saving"
    OBVIOUS
  <2>1. flows[f].pc # "saving"
    BY <1>0 DEF SessionInv, SavingInv
  <2>2. ASSUME flows[f].pc = "prefs", flows[f].at # 1 PROVE FALSE
    <3>1. flows[f].at > 1
      BY <2>2 DEF SessionInv, TypeInv
    <3>2. Len(pending) = 1 /\ pending[Len(pending)] = SetWrite(f, flows[f].at, bloc)
      BY <2>2, <3>1 DEF SessionInv, SavingInv
    <3>. QED
      BY <1>0, <3>2, SessionAssumption DEF SetWrite
  <2>. QED
    BY <2>1, <2>2
<1>3. ~InQueue("flag")'
  <2>. SUFFICES ASSUME NEW i \in 1 .. Len(pending'), pending'[i].op = "flag" PROVE FALSE
    BY DEF InQueue
  <2>1. i + 1 = 1
    BY <1>1 DEF SessionInv, QueueInv
  <2>. QED
    BY <1>0, <1>1, <2>1
<1>4. WritesInv'
  BY <1>0, <1>2 DEF OneUserInv, WritesInv, Whose, cloud, memory
<1>5. Own(docs)' /\ Own(outbox)'
  BY <1>0 DEF OneUserInv, Own, cloud
<1>6. CASE Head(pending).op = "flag"
  <2>1. InQueue("flag") /\ Whose(disk.profile)
    BY <1>0, <1>6 DEF InQueue, OneUserInv
  <2>2. disk' = [disk EXCEPT !.signedIn = TRUE] /\ disk'.profile = disk.profile
    BY <1>0, <1>6 DEF Apply, Prefs
  <2>3. PersistedSessionOneUser'
    BY <1>0, <2>1, <2>2 DEF Whose, PersistedSessionOneUser, cloud
  <2>4. ~cache'.signedIn => InQueue("clear")'
    <3>1. SUFFICES ASSUME ~cache.signedIn PROVE InQueue("clear")'
      BY <1>0
    <3>2. PICK i \in 1 .. Len(pending) : pending[i].op = "clear"
      BY <2>1, <3>1 DEF OneUserInv, InQueue
    <3>3. i # 1 /\ i - 1 \in 1 .. Len(pending') /\ pending'[i - 1] = pending[i]
      BY <1>0, <1>1, <1>6, <3>2
    <3>. QED
      BY <3>2, <3>3 DEF InQueue
  <2>. QED
    BY <1>3, <1>4, <1>5, <2>1, <2>2, <2>3, <2>4 DEF OneUserInv
<1>7. CASE Head(pending).op = "clear"
  <2>1. disk' = NoPrefs /\ ~disk'.signedIn
    BY <1>0, <1>7 DEF Apply, NoPrefs
  <2>. QED
    BY <1>3, <1>4, <1>5, <2>1 DEF OneUserInv, PersistedSessionOneUser
<1>8. Head(pending).op # "set"
  BY <1>0, SessionAssumption DEF SessionInv, QueueInv
<1>. QED
  BY <1>0, <1>6, <1>7, <1>8 DEF Write

LEMMA OneUserOtherStep ==
    ASSUME SessionInv, OneUserInv, [Next]_vars, ~(\E f \in Flows : FlowStep(f))
    PROVE  OneUserInv' /\ (FlushUnawaited \/ UNCHANGED <<accounts, disk>>)
<1>. USE DEF cloud, memory, prefs
<1>. DEFINE Goal == OneUserInv' /\ (FlushUnawaited \/ UNCHANGED <<accounts, disk>>)
<1>0. /\ flows \in [Flows -> Flow] /\ IdleFlow.pc = "idle" /\ pending \in Seq(Write)
      /\ docs \in [Users -> Profile] /\ outbox \in [Users -> Profile]
      /\ Own(docs) /\ Own(outbox) /\ WritesInv
  BY DEF SessionInv, TypeInv, TypeOK, IdleFlow, OneUserInv
<1>1. ASSUME UNCHANGED <<accounts, prefs, bloc>>, Own(docs)', Own(outbox)',
             \A g \in Flows : \/ flows'[g].pc \in {"idle", "check1"}
                              \/ /\ flows'[g].pc = flows[g].pc /\ flows'[g].at = flows[g].at
                                 /\ flows'[g].user = flows[g].user
      PROVE  Goal
  BY <1>0, <1>1, OneUserKept DEF WritesInv
<1>2. UNCHANGED cloud => Own(docs)' /\ Own(outbox)'
  BY <1>0 DEF Own
<1>3. \A g \in Flows : /\ LeavePage[g].pc = flows[g].pc /\ LeavePage[g].at = flows[g].at
                       /\ LeavePage[g].user = flows[g].user
  BY <1>0 DEF LeavePage, Flow
<1>4. ASSUME NEW f \in Flows, NEW u \in Users, Tap(f, u) PROVE Goal
  <2>1. flows'[f].pc = "check1" /\ \A g \in Flows : g # f => flows'[g] = flows[g]
    BY <1>0, <1>4 DEF Tap
  <2>. QED
    BY <1>1, <1>2, <1>4, <2>1 DEF Tap
<1>5. CASE GoToSignIn \/ BackFromAuth
  BY <1>1, <1>2, <1>3, <1>5 DEF GoToSignIn, BackFromAuth
<1>6. CASE \/ WelcomeToSignUp \/ OpenProfile \/ CloseProfile \/ SwitchTab \/ LogoutTap
           \/ CheckSignIn \/ LoadUser \/ UNCHANGED vars
  BY <1>1, <1>2, <1>6 DEF WelcomeToSignUp, OpenProfile, CloseProfile, SwitchTab, LogoutTap,
                          CheckSignIn, LoadUser, vars
<1>7. ASSUME NEW u \in Users, CommitDoc(u) PROVE Goal
  <2>1. Own(docs)' /\ Own(outbox)'
    BY <1>0, <1>7 DEF CommitDoc, Own
  <2>. QED
    BY <1>1, <1>7, <2>1 DEF CommitDoc
<1>8. ASSUME NEW u \in Users, RejectDoc(u) PROVE Goal
  <2>1. Own(docs)' /\ Own(outbox)'
    BY <1>0, <1>8 DEF RejectDoc, Own
  <2>2. \A g \in Flows : flows'[g] = flows[g] \/ flows'[g].pc = "idle"
    BY <1>0, <1>8 DEF RejectDoc
  <2>. QED
    BY <1>1, <1>8, <2>1, <2>2 DEF RejectDoc
<1>9. CASE SignedOut
  <2>1. /\ pending' = Append(pending, ClearWrite) /\ UNCHANGED <<cloud, memory, disk>>
        /\ \A g \in Flows : /\ flows'[g].pc = flows[g].pc /\ flows'[g].at = flows[g].at
                            /\ flows'[g].user = flows[g].user
    BY <1>3, <1>9 DEF SignedOut, Submit
  <2>2. ClearWrite.op = "clear"
    BY DEF ClearWrite
  <2>3. /\ Len(pending') = Len(pending) + 1 /\ pending'[Len(pending')].op = "clear"
        /\ \A i \in 1 .. Len(pending) : pending'[i] = pending[i]
    BY <1>0, <2>1, <2>2
  <2>4. InQueue("clear")' /\ (InQueue("flag")' => InQueue("flag"))
    BY <1>0, <2>3 DEF InQueue
  <2>5. WritesInv' /\ PersistedSessionOneUser' /\ (InQueue("flag")' => Whose(disk.profile)')
    BY <1>0, <2>1, <2>4 DEF WritesInv, Whose, OneUserInv, PersistedSessionOneUser
  <2>. QED
    BY <1>2, <2>1, <2>4, <2>5 DEF OneUserInv
<1>10. CASE Restart
  <2>1. /\ \A g \in Flows : flows'[g].pc = "idle"
        /\ cache' = disk /\ Len(pending') = 0 /\ UNCHANGED <<cloud, disk>>
    BY <1>0, <1>10 DEF Restart
  <2>2. ~InQueue("flag")' /\ WritesInv' /\ PersistedSessionOneUser'
    BY <2>1 DEF InQueue, WritesInv, OneUserInv, PersistedSessionOneUser
  <2>. QED
    BY <1>2, <2>1, <2>2 DEF OneUserInv
<1>11. CASE FlushUnawaited
  BY <1>11, OneUserFlushes
<1>. QED
  BY <1>4, <1>5, <1>6, <1>7, <1>8, <1>9, <1>10, <1>11 DEF Next, UserStep

LEMMA SessionInvariant ==
    ASSUME Serial
    PROVE  Spec => []SessionInv
  BY SessionInit, SessionStep, PTL DEF Spec

LEMMA OneUserInvariant ==
    ASSUME Serial, Patient
    PROVE  Spec => []OneUserInv
<1>1. Init => OneUserInv
  <2>. SUFFICES ASSUME Init PROVE OneUserInv
    OBVIOUS
  <2>1. /\ \A f \in Flows : flows[f].pc = "idle"
        /\ Len(pending) = 0 /\ ~disk.signedIn
    BY DEF Init, IdleFlow, NoPrefs
  <2>2. Own(docs) /\ Own(outbox)
    BY DEF Init, Own
  <2>3. WritesInv /\ ~InQueue("flag") /\ PersistedSessionOneUser
    BY <2>1 DEF WritesInv, InQueue, PersistedSessionOneUser
  <2>. QED
    BY <2>1, <2>2, <2>3 DEF OneUserInv
<1>2. SessionInv /\ AloneInv /\ OneUserInv /\ [Next]_vars => OneUserInv'
  BY OneUserFlowStep, OneUserOtherStep
<1>. QED
  BY <1>1, <1>2, SessionInvariant, AloneInvariant, PTL DEF Spec

\* What the device starts with is the session of one registered person, never a
\* mixture of two: of saveDataToSP's four writes, the flag and the clear, which
\* come from different people and from before and after a logout, none is late
\* enough to meet another's.
THEOREM DiskHasOneUser ==
    ASSUME Serial, Patient
    PROVE  Spec => []PersistedSessionOneUser
<1>1. OneUserInv => PersistedSessionOneUser
  BY DEF OneUserInv
<1>. QED
  BY <1>1, OneUserInvariant, PTL

--------------------------------------------------------------------------------
(* Sessions come and go as the contract says *)

\* The flag that reaches the disk is a login, the clear a logout, a new account
\* a registration; every other step is nothing to the contract.
LEMMA ContractStep ==
    ASSUME Serial, SessionInv, AloneInv, OneUserInv, [Next]_vars
    PROVE  [Contract!ContractNext]_(Contract!contractVars)
<1>. USE DEF Contract!contractVars
<1>1. CASE UNCHANGED <<accounts, disk>>
  BY <1>1
<1>2. ASSUME NEW f \in Flows, ServerCreates(f) PROVE Contract!ContractNext
  <2>1. flows[f].user \in Users /\ accounts' = accounts \cup {flows[f].user} /\ disk' = disk
    BY <1>2 DEF ServerCreates, SessionInv, TypeInv, Active, prefs
  <2>. QED
    BY <2>1 DEF Contract!ContractNext, Contract!Register
<1>3. ASSUME NEW f \in Flows, PrefWritten(f) PROVE UNCHANGED Contract!contractVars
  <2>1. /\ flows[f].pc = "prefs" /\ disk \in Prefs /\ flows[f].at \in 1 .. 4 /\ accounts' = accounts
        /\ Len(pending) = 1 /\ pending[1] = SetWrite(f, flows[f].at, bloc)
        /\ disk' = Apply(SetWrite(f, flows[f].at, bloc), disk)
    BY <1>3, AloneInQueue DEF PrefWritten, SessionInv, TypeInv, TypeOK
  <2>2. ~InQueue("clear")
    BY <2>1 DEF InQueue, SetWrite
  <2>3. ~disk.signedIn
    BY <2>1, <2>2, SaverSignedOut DEF Active
  <2>4. disk'.signedIn = disk.signedIn
    BY <2>1 DEF SetWrite, Apply, Prefs
  <2>. QED
    BY <2>1, <2>3, <2>4
<1>4. CASE FlushUnawaited
  <2>1. accounts' = accounts /\ accounts \subseteq Users /\ disk \in Prefs
    BY <1>4 DEF FlushUnawaited, cloud, SessionInv, TypeInv, TypeOK
  <2>2. CASE disk' = NoPrefs
    BY <2>1, <2>2 DEF NoPrefs, Contract!ContractNext, Contract!Logout
  <2>3. CASE disk' = [disk EXCEPT !.signedIn = TRUE] /\ Whose(disk.profile)
    <3>1. PICK u \in accounts : disk.profile = ProfileOf(u)
      BY <2>3 DEF Whose
    <3>2. disk.profile["uid"] = u /\ disk'.profile = disk.profile /\ disk'.signedIn
      BY <2>1, <2>3, <3>1 DEF ProfileOf, Keys, Prefs
    <3>3. CASE disk.signedIn
      BY <2>1, <3>2, <3>3
    <3>4. CASE ~disk.signedIn
      BY <2>1, <3>2, <3>4 DEF Contract!ContractNext, Contract!Login
    <3>. QED
      BY <3>3, <3>4
  <2>. QED
    BY <1>4, <2>2, <2>3, OneUserFlushes
<1>5. ASSUME NEW f \in Flows, FlowStep(f), ~ServerCreates(f), ~PrefWritten(f)
      PROVE  UNCHANGED <<accounts, disk>>
  BY <1>5 DEF FlowStep, CheckOne, CheckTwo, SignUpSucceeds, SignInSucceeds, AuthFails,
              ProfileLoaded, ProfileMissing, SaveAcked, NavigateHome, BeginPrefs, cloud, prefs
<1>. QED
  BY <1>1, <1>2, <1>3, <1>4, <1>5, OneUserOtherStep

\* The session a device would start with goes through logins and logouts as the
\* contract says, whatever dies in between: it begins only on a device that has
\* none, for somebody who is registered, and ends before another begins.
THEOREM SessionImplementsContract ==
    ASSUME Serial, Patient
    PROVE  Spec => SessionRefinesContract
<1>1. Init => Contract!ContractInit
  BY DEF Init, Contract!ContractInit, NoPrefs
<1>2. SessionInv /\ AloneInv /\ OneUserInv /\ [Next]_vars
        => [Contract!ContractNext]_(Contract!contractVars)
  BY ContractStep
<1>. QED
  BY <1>1, <1>2, SessionInvariant, AloneInvariant, OneUserInvariant, PTL
     DEF Spec, SessionRefinesContract, Contract!ContractSpec
================================================================================
