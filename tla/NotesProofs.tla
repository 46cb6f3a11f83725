------------------------------ MODULE NotesProofs ------------------------------
(***************************************************************************)
(* For any number of people, phones, notes and overlapping runs: every state *)
(* is well typed, and nobody deletes the note of another.  For users who     *)
(* wait for a note to be sent before they go on (Waits), also: no note sent  *)
(* in a session is lost, a deleted one goes, and Notes implements NoteBoard. *)
(***************************************************************************)
EXTENDS Notes, SequenceTheorems, WellFoundedInduction, TLAPS

LEMMA SessionTyped ==
    ASSUME TypeOK, NEW d \in Devices
    PROVE  device[d] \in Page /\ device[d].user \in Users \cup {NoUser}
BY DEF TypeOK, Page

LEMMA FreshPages ==
    ASSUME NEW u \in Users \cup {NoUser}
    PROVE  StartPage(u) \in Page /\ ~StartPage(u).open /\ StartPage(u).list = {}
BY DEF StartPage, Page

LEMMA OtherPages ==
    ASSUME NEW p \in Page
    PROVE  /\ ClosedPage(p) \in Page /\ ~ClosedPage(p).open /\ ClosedPage(p).list = {}
           /\ OpenedPage(p) \in Page /\ OpenedPage(p).inside = p.inside /\ OpenedPage(p).list = {}
BY DEF ClosedPage, OpenedPage, Page

\* Sessions change under the pages of a device, and nothing else does.
LEMMA SessionChanges ==
    ASSUME TypeOK, NEW d \in Devices, NEW u \in Users \cup {NoUser},
           device' = [device EXCEPT ![d].user = u] \/ device' = [device EXCEPT ![d].ub = u]
    PROVE  /\ device' \in [Devices -> Page]
           /\ \A e \in Devices : /\ device'[e].open = device[e].open
                                 /\ device'[e].inside = device[e].inside
                                 /\ device'[e].comment = device[e].comment
                                 /\ device'[e].list = device[e].list
<1>1. device \in [Devices -> Page] /\ device[d] \in Page
  BY DEF TypeOK
<1>2. ASSUME NEW p \in {[device[d] EXCEPT !.user = u], [device[d] EXCEPT !.ub = u]}
      PROVE  /\ p \in Page
             /\ p.open = device[d].open /\ p.inside = device[d].inside
             /\ p.comment = device[d].comment /\ p.list = device[d].list
  BY <1>1 DEF Page
<1>3. PICK p \in {[device[d] EXCEPT !.user = u], [device[d] EXCEPT !.ub = u]} :
          device' = [device EXCEPT ![d] = p]
  OBVIOUS
<1> QED
  BY <1>1, <1>2, <1>3

\* A device may be given another page, and a queue another write at its end.
LEMMA DevicesTyped ==
    ASSUME TypeOK, NEW d \in Devices, NEW p \in Page
    PROVE  [device EXCEPT ![d] = p] \in [Devices -> Page]
BY DEF TypeOK

LEMMA EnqueueTyped ==
    ASSUME TypeOK, NEW d \in Devices, NEW id \in Ids, NEW n \in Notes \cup {NoNote},
           Enqueue(d, id, n)
    PROVE  /\ outbox' \in [Devices -> Seq(Op)]
           /\ outbox'[d] = Append(outbox[d], [id |-> id, note |-> n, by |-> device[d].user])
           /\ \A e \in Devices \ {d} : outbox'[e] = outbox[e]
<1> DEFINE op == [id |-> id, note |-> n, by |-> device[d].user]
<1>1. op \in Op
  BY SessionTyped DEF Op
<1>2. outbox[d] \in Seq(Op)
  BY DEF TypeOK
<1>3. Append(outbox[d], op) \in Seq(Op)
  BY <1>1, <1>2, AppendProperties
<1>4. outbox' = [outbox EXCEPT ![d] = Append(@, op)]
  BY DEF Enqueue
<1> HIDE DEF op
<1>5. /\ outbox' \in [Devices -> Seq(Op)]
      /\ outbox'[d] = Append(outbox[d], op)
      /\ \A e \in Devices \ {d} : outbox'[e] = outbox[e]
  BY <1>3, <1>4 DEF TypeOK
<1> QED
  BY <1>5 DEF op

LEMMA FlowValues ==
    ASSUME TypeOK, NEW f \in Flows
    PROVE  /\ flows[f] \in Flow
           /\ flows[f].target \in Ids /\ flows[f].dev \in Devices
           /\ [flows EXCEPT ![f] = IdleFlow] \in [Flows -> Flow]
<1>1. flows[f] \in Flow
  BY DEF TypeOK
<1>2. flows[f].dev \in Devices
  BY <1>1 DEF Flow
<1>3. <<NoUser, 0>> \in Ids
  BY NotesAssumption DEF Ids, Seconds
<1>4. IdleFlow \in Flow
  BY <1>2, <1>3 DEF IdleFlow, Flow
<1> QED
  BY <1>1, <1>4 DEF TypeOK, Flow

\* Leaving the pages of a device freezes the text of its submissions.
LEMMA LeaveTyped ==
    ASSUME TypeOK, NEW d \in Devices
    PROVE  Leave(d) \in [Flows -> Flow]
<1>1. ASSUME NEW f \in Flows
      PROVE  /\ flows[f] \in Flow
             /\ [flows[f] EXCEPT !.onPage = FALSE, !.text = device[d].comment] \in Flow
  <2>1. flows[f] \in Flow /\ device[d].comment \in Notes \cup {NoNote}
    BY DEF TypeOK, Page
  <2> QED
    BY <2>1 DEF Flow
<1> QED
  BY <1>1 DEF Leave

LEMMA TextTyped ==
    ASSUME TypeOK, NEW f \in Flows
    PROVE  TextOf(f) \in Notes \cup {NoNote}
<1>1. flows[f] \in Flow
  BY DEF TypeOK
<1>2. flows[f].text \in Notes \cup {NoNote} /\ flows[f].dev \in Devices
  BY <1>1 DEF Flow
<1>3. device[flows[f].dev].comment \in Notes \cup {NoNote}
  BY <1>2, SessionTyped DEF Page
<1> QED
  BY <1>2, <1>3 DEF TextOf

\* The two ends a queue is changed at.
LEMMA DequeueTyped ==
    ASSUME TypeOK, NEW d \in Devices, outbox[d] # <<>>,
           outbox' = [outbox EXCEPT ![d] = Tail(@)]
    PROVE  /\ Head(outbox[d]) \in Op
           /\ outbox' \in [Devices -> Seq(Op)]
           /\ outbox'[d] = Tail(outbox[d])
           /\ \A e \in Devices \ {d} : outbox'[e] = outbox[e]
<1>1. outbox[d] \in Seq(Op)
  BY DEF TypeOK
<1>2. Head(outbox[d]) \in Op /\ Tail(outbox[d]) \in Seq(Op)
  BY <1>1, HeadTailProperties
<1> QED
  BY <1>2 DEF TypeOK

--------------------------------------------------------------------------------
LEMMA NotesTypeInit == Init => TypeOK
<1> SUFFICES ASSUME Init
             PROVE  TypeOK
  OBVIOUS
<1>1. now \in Seconds /\ <<NoUser, 0>> \in Ids
  BY NotesAssumption DEF Init, Seconds, Ids
<1>2. server \in [Ids -> Notes \cup {NoNote}]
  BY DEF Init
<1>3. outbox \in [Devices -> Seq(Op)]
  BY EmptySeq DEF Init
<1>4. device \in [Devices -> Page]
  BY FreshPages DEF Init
<1>5. flows \in [Flows -> Flow]
  <2>1. \A d \in Devices : [pc |-> "idle", dev |-> d, onPage |-> FALSE, note |-> NoNote,
                            text |-> NoNote, target |-> <<NoUser, 0>>] \in Flow
    BY <1>1 DEF Flow
  <2>2. (CHOOSE d \in Devices : TRUE) \in Devices
    BY NotesAssumption
  <2>3. IdleFlow \in Flow
    BY <2>1, <2>2 DEF IdleFlow
  <2> QED
    BY <2>3 DEF Init
<1>6. /\ fate \in [Notes -> Fates]
      /\ used \in SUBSET Ids
      /\ posted \in SUBSET ((Users \cup {NoUser}) \X Notes)
  BY DEF Init, Fates
<1> QED
  BY <1>1, <1>2, <1>3, <1>4, <1>5, <1>6 DEF TypeOK

LEMMA NotesTypeStep == TypeOK /\ [Next]_vars => TypeOK'
<1> SUFFICES ASSUME TypeOK, [Next]_vars
             PROVE  TypeOK'
  OBVIOUS
<1> USE DEF cloud, history
<1>1. CASE Tick
  <2>1. now' \in Seconds
    BY <1>1, NotesAssumption DEF Tick, TypeOK, Seconds
  <2> QED
    BY <1>1, <2>1 DEF Tick, TypeOK
<1>2. ASSUME NEW d \in Devices, NEW u \in Users, Login(d, u)
      PROVE  TypeOK'
  <2>1. device' \in [Devices -> Page]
    BY <1>2, FreshPages, DevicesTyped DEF Login
  <2> QED
    BY <1>2, <2>1 DEF Login, TypeOK
<1>3. ASSUME NEW d \in Devices, Logout(d)
      PROVE  TypeOK'
  <2>1. device' \in [Devices -> Page]
    BY <1>3, FreshPages, DevicesTyped, SessionChanges DEF Logout
  <2>2. flows' \in [Flows -> Flow]
    BY <1>3, LeaveTyped DEF Logout, TypeOK
  <2> QED
    BY <1>3, <2>1, <2>2 DEF Logout, TypeOK
<1>16. ASSUME NEW d \in Devices, LoadUser(d)
       PROVE  TypeOK'
  <2>1. device' \in [Devices -> Page]
    BY <1>16, SessionTyped, SessionChanges DEF LoadUser
  <2> QED
    BY <1>16, <2>1 DEF LoadUser, TypeOK
<1>4. ASSUME NEW d \in Devices, OpenPage(d)
      PROVE  TypeOK'
  <2>1. device' \in [Devices -> Page]
    BY <1>4, SessionTyped, OtherPages, DevicesTyped DEF OpenPage
  <2> QED
    BY <1>4, <2>1 DEF OpenPage, TypeOK
<1>5. ASSUME NEW d \in Devices, ClosePage(d)
      PROVE  TypeOK'
  <2>1. device' \in [Devices -> Page]
    BY <1>5, SessionTyped, OtherPages, DevicesTyped DEF ClosePage
  <2>2. flows' \in [Flows -> Flow]
    BY <1>5, LeaveTyped DEF ClosePage
  <2> QED
    BY <1>5, <2>1, <2>2 DEF ClosePage, TypeOK
<1>6. ASSUME NEW d \in Devices, ListAnswered(d)
      PROVE  TypeOK'
  <2> DEFINE own == {id \in Ids : Visible(d, id) # NoNote /\ id[1] = device[d].ub}
  <2>1. own \in SUBSET Ids
    OBVIOUS
  <2>2. device' = [device EXCEPT ![d].loading = FALSE, ![d].list = own]
    BY <1>6 DEF ListAnswered
  <2> HIDE DEF own
  <2>3. device' \in [Devices -> Page]
    BY <2>1, <2>2 DEF TypeOK, Page
  <2> QED
    BY <1>6, <2>3 DEF ListAnswered, TypeOK
<1>7. ASSUME NEW d \in Devices, NEW f \in Flows, NEW n \in Notes, Send(f, d, n)
      PROVE  TypeOK'
  <2>1. device' \in [Devices -> Page]
    <3>1. [device[d] EXCEPT !.comment = n, !.loading = TRUE, !.list = {}] \in Page
      BY SessionTyped DEF Page
    <3> QED
      BY <1>7, <3>1, DevicesTyped DEF Send
  <2>2. IdleFlow \in Flow
    BY FlowValues DEF TypeOK
  <2>3. flows' \in [Flows -> Flow]
    BY <1>7, <2>2 DEF Send, TypeOK, Flow
  <2>4. fate' \in [Notes -> Fates]
    BY <1>7 DEF Send, TypeOK, Fates
  <2> QED
    BY <1>7, <2>1, <2>3, <2>4 DEF Send, TypeOK
<1>8. ASSUME NEW d \in Devices, NEW f \in Flows, NEW id \in Ids, ConfirmDelete(f, d, id)
      PROVE  TypeOK'
  <2>1. IdleFlow \in Flow
    BY FlowValues DEF TypeOK
  <2>2. flows' \in [Flows -> Flow]
    BY <1>8, <2>1 DEF ConfirmDelete, TypeOK, Flow
  <2> QED
    BY <1>8, <2>2 DEF ConfirmDelete, TypeOK
<1>9. ASSUME NEW d \in Devices, Commit(d)
      PROVE  TypeOK'
  <2>1. /\ Head(outbox[d]) \in Op
        /\ outbox' \in [Devices -> Seq(Op)]
    BY <1>9, DequeueTyped DEF Commit
  <2>2. server' \in [Ids -> Notes \cup {NoNote}]
    BY <1>9, <2>1 DEF Commit, TypeOK, Op
  <2>3. posted' \in SUBSET ((Users \cup {NoUser}) \X Notes)
    BY <1>9, <2>1 DEF Commit, TypeOK, Op, Ids
  <2> QED
    BY <1>9, <2>1, <2>2, <2>3 DEF Commit, TypeOK
<1>10. ASSUME NEW d \in Devices, Refuse(d)
       PROVE  TypeOK'
  <2>1. outbox' \in [Devices -> Seq(Op)]
    BY <1>10, DequeueTyped DEF Refuse
  <2>2. fate' \in [Notes -> Fates]
    BY <1>10 DEF Refuse, TypeOK, Fates
  <2> QED
    BY <1>10, <2>1, <2>2 DEF Refuse, TypeOK
<1>11. ASSUME NEW d \in Devices, Crash(d)
       PROVE  TypeOK'
  <2>1. device' \in [Devices -> Page]
    BY <1>11, SessionTyped, FreshPages, DevicesTyped DEF Crash
  <2>2. flows' \in [Flows -> Flow]
    <3>1. \A f \in Flows : flows[f] \in Flow /\ IdleFlow \in Flow
      BY FlowValues DEF TypeOK
    <3> QED
      BY <1>11, <3>1 DEF Crash
  <2>3. fate' \in [Notes -> Fates]
    BY <1>11 DEF Crash, TypeOK, Fates
  <2> QED
    BY <1>11, <2>1, <2>2, <2>3 DEF Crash, TypeOK
<1>12. ASSUME NEW f \in Flows, SaveNewComment(f)
       PROVE  TypeOK'
  <2> DEFINE d == flows[f].dev
             u == device[d].user
  <2>1. d \in Devices /\ u \in Users \cup {NoUser}
    BY FlowValues, SessionTyped
  <2>2. NoteId(u) \in Ids /\ <<u, now>> \in Ids
    BY <2>1 DEF NoteId, Ids, TypeOK
  <2>3. /\ Enqueue(d, NoteId(u), TextOf(f))
        /\ fate' = [fate EXCEPT ![flows[f].note] = IF u = NoUser THEN "unsigned" ELSE "accepted"]
        /\ used' = used \cup {<<u, now>>}
        /\ End(f)
        /\ UNCHANGED <<now, server, device, posted>>
    BY <1>12 DEF SaveNewComment
  <2>4. TextOf(f) \in Notes \cup {NoNote}
    BY TextTyped
  <2> HIDE DEF d, u
  <2>5. outbox' \in [Devices -> Seq(Op)]
    BY <2>1, <2>2, <2>3, <2>4, EnqueueTyped
  <2>6. flows' \in [Flows -> Flow]
    BY <2>3, FlowValues DEF End
  <2>7. fate' \in [Notes -> Fates]
    BY <2>3 DEF TypeOK, Fates
  <2> QED
    BY <2>2, <2>3, <2>5, <2>6, <2>7 DEF TypeOK
<1>13. ASSUME NEW f \in Flows, DeleteChecked(f)
       PROVE  TypeOK'
  <2>1. /\ End(f)
        /\ UNCHANGED <<now, server, device, used, posted>>
    BY <1>13 DEF DeleteChecked
  <2>2. flows' \in [Flows -> Flow]
    BY <2>1, FlowValues DEF End
  <2>3. CASE DeleteComment(f)
    <3>1. Enqueue(flows[f].dev, flows[f].target, NoNote)
      BY <2>3 DEF DeleteComment
    <3>2. outbox' \in [Devices -> Seq(Op)]
      BY <3>1, FlowValues, EnqueueTyped
    <3>3. fate' \in [Notes -> Fates]
      BY <2>3 DEF DeleteComment, TypeOK, Fates
    <3> QED
      BY <2>1, <2>2, <3>2, <3>3 DEF TypeOK
  <2>4. CASE UNCHANGED <<outbox, fate>>
    BY <2>1, <2>2, <2>4 DEF TypeOK
  <2> QED
    BY <1>13, <2>3, <2>4 DEF DeleteChecked
<1>14. ASSUME NEW f \in Flows, NoInternet(f)
       PROVE  TypeOK'
  <2>1. flows' \in [Flows -> Flow]
    BY <1>14, FlowValues DEF NoInternet, End
  <2>2. fate' \in [Notes -> Fates]
    BY <1>14 DEF NoInternet, TypeOK, Fates
  <2> QED
    BY <1>14, <2>1, <2>2 DEF NoInternet, TypeOK
<1>15. CASE UNCHANGED vars
  BY <1>15 DEF TypeOK, vars
<1> QED
  BY <1>1, <1>2, <1>3, <1>4, <1>5, <1>6, <1>7, <1>8, <1>9, <1>10, <1>11, <1>12,
     <1>13, <1>14, <1>15, <1>16 DEF Next

\* Every reachable state of the notes is well typed.
THEOREM NotesTypeCorrect == Spec => []TypeOK
  BY NotesTypeInit, NotesTypeStep, PTL DEF Spec

--------------------------------------------------------------------------------
\* A queue keeps the property that its deletes are the author's when one write
\* is taken from it, or one is added that has it.
OwnDeletes(q) == \A i \in 1 .. Len(q) : q[i].note = NoNote => q[i].id[1] = q[i].by

LEMMA OwnDeletesQueue ==
    ASSUME NEW q \in Seq(Op), OwnDeletes(q)
    PROVE  /\ \A op \in Op : (op.note = NoNote => op.id[1] = op.by) => OwnDeletes(Append(q, op))
           /\ q # <<>> => OwnDeletes(Tail(q))
<1>1. ASSUME NEW op \in Op, op.note = NoNote => op.id[1] = op.by
      PROVE  OwnDeletes(Append(q, op))
  BY <1>1, AppendProperties DEF OwnDeletes
<1>2. ASSUME q # <<>>
      PROVE  OwnDeletes(Tail(q))
  <2>1. /\ Len(q) \in Nat
        /\ Len(Tail(q)) = Len(q) - 1
        /\ \A i \in 1 .. Len(Tail(q)) : Tail(q)[i] = q[i + 1]
    BY <1>2, HeadTailProperties, LenProperties
  <2> QED
    BY <2>1 DEF OwnDeletes
<1> QED
  BY <1>1, <1>2

\* A submission always has a text to save, so that what it queues is no delete:
\* the field of the page it began on while that page is open, or what the field
\* held when the page was left; and a page is open only over a home page.
SubmissionsHaveText ==
    /\ \A d \in Devices : device[d].open => device[d].inside
    /\ \A f \in Flows : flows[f].pc = "send" =>
          IF flows[f].onPage
          THEN device[flows[f].dev].open /\ device[flows[f].dev].comment \in Notes
          ELSE flows[f].text \in Notes

DeletesInv == TypeOK /\ SubmissionsHaveText /\ OnlyAuthorsDelete

LEMMA DeletesInit == Init => DeletesInv
<1> SUFFICES ASSUME Init
             PROVE  SubmissionsHaveText /\ OnlyAuthorsDelete
  BY NotesTypeInit DEF DeletesInv
<1>1. SubmissionsHaveText
  BY DEF Init, SubmissionsHaveText, StartPage, IdleFlow
<1>2. OnlyAuthorsDelete
  BY DEF Init, OnlyAuthorsDelete
<1> QED
  BY <1>1, <1>2

\* Pages that close take no text from a submission that began on them.
LEMMA LeaveKeepsText ==
    ASSUME TypeOK, SubmissionsHaveText, NEW d \in Devices, NEW p \in Page,
           ~p.open, flows' = Leave(d), device' = [device EXCEPT ![d] = p]
    PROVE  SubmissionsHaveText'
<1>1. /\ \A e \in Devices : device'[e] = IF e = d THEN p ELSE device[e]
      /\ \A f \in Flows : flows[f] \in Flow
  BY DEF TypeOK
<1>2. ASSUME NEW f \in Flows, flows'[f].pc = "send"
      PROVE  IF flows'[f].onPage
             THEN device'[flows'[f].dev].open /\ device'[flows'[f].dev].comment \in Notes
             ELSE flows'[f].text \in Notes
  <2>1. CASE f \in RunsOn(d) /\ flows[f].onPage
    <3>1. flows'[f] = [flows[f] EXCEPT !.onPage = FALSE, !.text = device[d].comment]
      BY <2>1 DEF Leave
    <3>2. flows'[f].pc = flows[f].pc /\ ~flows'[f].onPage /\ flows'[f].text = device[d].comment
      BY <1>1, <3>1 DEF Flow
    <3>3. flows[f].dev = d
      BY <2>1 DEF RunsOn
    <3> QED
      BY <1>2, <2>1, <3>2, <3>3 DEF SubmissionsHaveText
  <2>2. CASE ~(f \in RunsOn(d) /\ flows[f].onPage)
    <3>1. flows'[f] = flows[f]
      BY <2>2 DEF Leave
    <3>2. flows[f].onPage => flows[f].dev # d
      BY <1>2, <2>2, <3>1 DEF RunsOn, Active
    <3>3. flows[f].dev \in Devices
      BY <1>1 DEF Flow
    <3> QED
      BY <1>1, <1>2, <3>1, <3>2, <3>3 DEF SubmissionsHaveText
  <2> QED
    BY <2>1, <2>2
<1>3. \A e \in Devices : device'[e].open => device'[e].inside
  BY <1>1 DEF SubmissionsHaveText
<1> QED
  BY <1>2, <1>3 DEF SubmissionsHaveText

\* A submission that ends takes no text from the others.
LEMMA EndKeepsText ==
    ASSUME TypeOK, SubmissionsHaveText, NEW f \in Flows, End(f), UNCHANGED device
    PROVE  SubmissionsHaveText'
<1>1. \A g \in Flows : flows'[g] = IF g = f THEN IdleFlow ELSE flows[g]
  BY DEF End, TypeOK
<1>2. ASSUME NEW g \in Flows, flows'[g].pc = "send"
      PROVE  flows'[g] = flows[g]
  <2>1. IdleFlow.pc # "send"
    BY DEF IdleFlow
  <2> QED
    BY <1>1, <1>2, <2>1
<1> QED
  BY <1>2 DEF SubmissionsHaveText

\* One queue changes, and its deletes are still the author's.
LEMMA QueueStep ==
    ASSUME OnlyAuthorsDelete, NEW d \in Devices, OwnDeletes(outbox'[d]),
           \A e \in Devices \ {d} : outbox'[e] = outbox[e]
    PROVE  OnlyAuthorsDelete'
<1>1. ASSUME NEW e \in Devices
      PROVE  OwnDeletes(outbox'[e])
  BY DEF OnlyAuthorsDelete, OwnDeletes
<1> QED
  BY <1>1 DEF OnlyAuthorsDelete, OwnDeletes

LEMMA DeletesStep == DeletesInv /\ [Next]_vars => DeletesInv'
<1> SUFFICES ASSUME DeletesInv, [Next]_vars
             PROVE  SubmissionsHaveText' /\ OnlyAuthorsDelete'
  BY NotesTypeStep DEF DeletesInv
<1>0. TypeOK /\ SubmissionsHaveText /\ OnlyAuthorsDelete
  BY DEF DeletesInv
<1>q. \A d \in Devices : outbox[d] \in Seq(Op) /\ OwnDeletes(outbox[d])
  BY <1>0 DEF TypeOK, OnlyAuthorsDelete, OwnDeletes
<1>t. \A f \in Flows : flows[f] \in Flow /\ flows[f].dev \in Devices
  BY <1>0 DEF TypeOK, Flow
<1> USE DEF cloud, history
<1>1. CASE Tick
  BY <1>0, <1>1 DEF Tick, SubmissionsHaveText, OnlyAuthorsDelete
<1>2. ASSUME NEW d \in Devices, NEW u \in Users, Login(d, u)
      PROVE  SubmissionsHaveText' /\ OnlyAuthorsDelete'
  <2>1. ~device[d].open
    BY <1>0, <1>2 DEF Login, SubmissionsHaveText
  <2>2. \A e \in Devices : device'[e] = IF e = d THEN StartPage(u) ELSE device[e]
    BY <1>0, <1>2 DEF Login, TypeOK
  <2>3. SubmissionsHaveText'
    BY <1>0, <1>2, <1>t, <2>1, <2>2 DEF Login, SubmissionsHaveText, StartPage
  <2> QED
    BY <1>0, <1>2, <2>3 DEF Login, OnlyAuthorsDelete
<1>3. ASSUME NEW d \in Devices, Logout(d)
      PROVE  SubmissionsHaveText' /\ OnlyAuthorsDelete'
  <2>1. CASE device' = [device EXCEPT ![d] = StartPage(NoUser)] /\ flows' = Leave(d)
    <3>1. StartPage(NoUser) \in Page /\ ~StartPage(NoUser).open
      BY FreshPages
    <3>2. SubmissionsHaveText'
      BY <1>0, <2>1, <3>1, LeaveKeepsText
    <3> QED
      BY <1>0, <1>3, <3>2 DEF Logout, OnlyAuthorsDelete
  <2>2. CASE device' = [device EXCEPT ![d].user = NoUser] /\ flows' = flows
    <3>1. \A e \in Devices : /\ device'[e].open = device[e].open
                             /\ device'[e].inside = device[e].inside
                             /\ device'[e].comment = device[e].comment
      BY <1>0, <2>2, SessionChanges
    <3>2. SubmissionsHaveText'
      BY <1>0, <1>t, <2>2, <3>1 DEF SubmissionsHaveText
    <3> QED
      BY <1>0, <1>3, <3>2 DEF Logout, OnlyAuthorsDelete
  <2> QED
    BY <1>3, <2>1, <2>2 DEF Logout
<1>16. ASSUME NEW d \in Devices, LoadUser(d)
       PROVE  SubmissionsHaveText' /\ OnlyAuthorsDelete'
  <2>1. SubmissionsHaveText'
    BY <1>0, <1>16, <1>t, SessionTyped, SessionChanges DEF LoadUser, SubmissionsHaveText
  <2> QED
    BY <1>0, <1>16, <2>1 DEF LoadUser, OnlyAuthorsDelete
<1>4. ASSUME NEW d \in Devices, OpenPage(d)
      PROVE  SubmissionsHaveText' /\ OnlyAuthorsDelete'
  <2>1. \A e \in Devices : device'[e] = IF e = d THEN OpenedPage(device[d]) ELSE device[e]
    BY <1>0, <1>4 DEF OpenPage, TypeOK
  <2>2. ~device[d].open /\ OpenedPage(device[d]).inside
    BY <1>0, <1>4, SessionTyped, OtherPages DEF OpenPage
  <2>3. SubmissionsHaveText'
    BY <1>0, <1>4, <1>t, <2>1, <2>2 DEF OpenPage, SubmissionsHaveText
  <2> QED
    BY <1>0, <1>4, <2>3 DEF OpenPage, OnlyAuthorsDelete
<1>5. ASSUME NEW d \in Devices, ClosePage(d)
      PROVE  SubmissionsHaveText' /\ OnlyAuthorsDelete'
  <2>1. ClosedPage(device[d]) \in Page /\ ~ClosedPage(device[d]).open
    BY <1>0, SessionTyped, OtherPages
  <2>2. SubmissionsHaveText'
    BY <1>0, <1>5, <2>1, LeaveKeepsText DEF ClosePage
  <2> QED
    BY <1>0, <1>5, <2>2 DEF ClosePage, OnlyAuthorsDelete
<1>6. ASSUME NEW d \in Devices, ListAnswered(d)
      PROVE  SubmissionsHaveText' /\ OnlyAuthorsDelete'
  <2>1. \A e \in Devices : /\ device'[e].open = device[e].open
                           /\ device'[e].inside = device[e].inside
                           /\ device'[e].comment = device[e].comment
    BY <1>0, <1>6 DEF ListAnswered, TypeOK, Page
  <2>2. SubmissionsHaveText'
    BY <1>0, <1>6, <1>t, <2>1 DEF ListAnswered, SubmissionsHaveText
  <2> QED
    BY <1>0, <1>6, <2>2 DEF ListAnswered, OnlyAuthorsDelete
<1>7. ASSUME NEW d \in Devices, NEW f \in Flows, NEW n \in Notes, Send(f, d, n)
      PROVE  SubmissionsHaveText' /\ OnlyAuthorsDelete'
  <2>1. /\ device'[d].comment = n
        /\ device[d].open
        /\ device'[d].open = device[d].open
        /\ device'[d].inside = device[d].inside
        /\ \A e \in Devices \ {d} : device'[e] = device[e]
    BY <1>0, <1>7 DEF Send, TypeOK, Page
  <2>2. /\ flows'[f].onPage = TRUE
        /\ flows'[f].dev = d
        /\ \A g \in Flows \ {f} : flows'[g] = flows[g]
    BY <1>0, <1>7 DEF Send, TypeOK, IdleFlow
  <2>3. ASSUME NEW g \in Flows, flows'[g].pc = "send"
        PROVE  IF flows'[g].onPage
               THEN device'[flows'[g].dev].open /\ device'[flows'[g].dev].comment \in Notes
               ELSE flows'[g].text \in Notes
    <3>1. CASE g = f
      BY <2>1, <2>2, <3>1
    <3>2. CASE g # f
      <4>1. flows'[g] = flows[g]
        BY <2>2, <3>2
      <4>2. IF flows[g].onPage
            THEN device[flows[g].dev].open /\ device[flows[g].dev].comment \in Notes
            ELSE flows[g].text \in Notes
        BY <1>0, <2>3, <4>1 DEF SubmissionsHaveText
      <4>3. flows[g].dev = d \/ device'[flows[g].dev] = device[flows[g].dev]
        BY <1>t, <2>1
      <4> QED
        BY <2>1, <4>1, <4>2, <4>3
    <3> QED
      BY <3>1, <3>2
  <2>4. \A e \in Devices : device'[e].open => device'[e].inside
    BY <1>0, <2>1 DEF SubmissionsHaveText
  <2>5. SubmissionsHaveText'
    BY <2>3, <2>4 DEF SubmissionsHaveText
  <2> QED
    BY <1>0, <1>7, <2>5 DEF Send, OnlyAuthorsDelete
<1>8. ASSUME NEW d \in Devices, NEW f \in Flows, NEW id \in Ids, ConfirmDelete(f, d, id)
      PROVE  SubmissionsHaveText' /\ OnlyAuthorsDelete'
  <2>1. /\ flows'[f].pc = "delete"
        /\ \A g \in Flows \ {f} : flows'[g] = flows[g]
    BY <1>0, <1>8 DEF ConfirmDelete, TypeOK, IdleFlow
  <2>2. SubmissionsHaveText'
    BY <1>0, <1>8, <2>1 DEF ConfirmDelete, SubmissionsHaveText
  <2> QED
    BY <1>0, <1>8, <2>2 DEF ConfirmDelete, OnlyAuthorsDelete
<1>9. ASSUME NEW d \in Devices, Commit(d)
      PROVE  SubmissionsHaveText' /\ OnlyAuthorsDelete'
  <2>1. /\ outbox'[d] = Tail(outbox[d])
        /\ \A e \in Devices \ {d} : outbox'[e] = outbox[e]
    BY <1>0, <1>9, DequeueTyped DEF Commit
  <2>2. OwnDeletes(outbox'[d])
    BY <1>9, <1>q, <2>1, OwnDeletesQueue DEF Commit
  <2>3. OnlyAuthorsDelete'
    BY <1>0, <2>1, <2>2, QueueStep
  <2> QED
    BY <1>0, <1>9, <2>3 DEF Commit, SubmissionsHaveText
<1>10. ASSUME NEW d \in Devices, Refuse(d)
       PROVE  SubmissionsHaveText' /\ OnlyAuthorsDelete'
  <2>1. /\ outbox'[d] = Tail(outbox[d])
        /\ \A e \in Devices \ {d} : outbox'[e] = outbox[e]
    BY <1>0, <1>10, DequeueTyped DEF Refuse
  <2>2. OwnDeletes(outbox'[d])
    BY <1>10, <1>q, <2>1, OwnDeletesQueue DEF Refuse
  <2>3. OnlyAuthorsDelete'
    BY <1>0, <2>1, <2>2, QueueStep
  <2> QED
    BY <1>0, <1>10, <2>3 DEF Refuse, SubmissionsHaveText
<1>11. ASSUME NEW d \in Devices, Crash(d)
       PROVE  SubmissionsHaveText' /\ OnlyAuthorsDelete'
  <2>1. \A e \in Devices : device'[e] = IF e = d THEN StartPage(device[d].user) ELSE device[e]
    BY <1>0, <1>11 DEF Crash, TypeOK
  <2>2. \A f \in Flows : flows'[f] = IF f \in RunsOn(d) THEN IdleFlow ELSE flows[f]
    BY <1>11 DEF Crash
  <2>3. ASSUME NEW f \in Flows, flows'[f].pc = "send"
        PROVE  flows'[f] = flows[f] /\ flows[f].dev # d
    <3>0. IdleFlow.pc # "send"
      BY DEF IdleFlow
    <3>1. f \notin RunsOn(d)
      BY <2>2, <2>3, <3>0
    <3>2. flows'[f] = flows[f]
      BY <2>2, <3>1
    <3> QED
      BY <2>3, <3>1, <3>2 DEF RunsOn, Active
  <2>4. SubmissionsHaveText'
    BY <1>0, <1>t, <2>1, <2>3 DEF SubmissionsHaveText, StartPage
  <2> QED
    BY <1>0, <1>11, <2>4 DEF Crash, OnlyAuthorsDelete
<1>12. ASSUME NEW f \in Flows, SaveNewComment(f)
       PROVE  SubmissionsHaveText' /\ OnlyAuthorsDelete'
  <2> DEFINE d == flows[f].dev
             u == device[d].user
  <2>1. d \in Devices /\ u \in Users \cup {NoUser} /\ NoteId(u) \in Ids
    BY <1>0, <1>t, SessionTyped DEF NoteId, Ids, TypeOK
  <2>2. /\ Enqueue(d, NoteId(u), TextOf(f))
        /\ flows[f].pc = "send"
        /\ End(f) /\ UNCHANGED device
    BY <1>12 DEF SaveNewComment
  <2>3. TextOf(f) \in Notes
    BY <1>0, <2>2 DEF TextOf, SubmissionsHaveText
  <2> DEFINE op == [id |-> NoteId(u), note |-> TextOf(f), by |-> u]
  <2>4. /\ outbox'[d] = Append(outbox[d], op)
        /\ \A e \in Devices \ {d} : outbox'[e] = outbox[e]
    BY <1>0, <2>1, <2>2, <2>3, EnqueueTyped
  <2>5. op \in Op /\ op.note # NoNote
    BY <2>1, <2>3, NotesAssumption DEF Op
  <2> HIDE DEF op, d, u
  <2>6. OwnDeletes(outbox'[d])
    BY <1>q, <2>1, <2>4, <2>5, OwnDeletesQueue
  <2>7. OnlyAuthorsDelete'
    BY <1>0, <2>1, <2>4, <2>6, QueueStep
  <2> QED
    BY <1>0, <2>2, <2>7, EndKeepsText
<1>13. ASSUME NEW f \in Flows, DeleteChecked(f)
       PROVE  SubmissionsHaveText' /\ OnlyAuthorsDelete'
  <2>1. SubmissionsHaveText'
    BY <1>0, <1>13, EndKeepsText DEF DeleteChecked
  <2>2. CASE flows[f].target[1] = device[flows[f].dev].user
    <3> DEFINE d == flows[f].dev
               op == [id |-> flows[f].target, note |-> NoNote, by |-> device[d].user]
    <3>1. Enqueue(d, flows[f].target, NoNote)
      BY <1>13, <2>2 DEF DeleteChecked, DeleteComment
    <3>2. d \in Devices /\ flows[f].target \in Ids
      BY <1>0, FlowValues
    <3>3. /\ outbox'[d] = Append(outbox[d], op)
          /\ \A e \in Devices \ {d} : outbox'[e] = outbox[e]
      BY <1>0, <3>1, <3>2, EnqueueTyped
    <3>4. op \in Op /\ op.id[1] = op.by
      BY <1>0, <2>2, <3>2, SessionTyped DEF Op
    <3> HIDE DEF op, d
    <3>5. OwnDeletes(outbox'[d])
      BY <1>q, <3>2, <3>3, <3>4, OwnDeletesQueue
    <3> QED
      BY <1>0, <2>1, <3>2, <3>3, <3>5, QueueStep
  <2>3. CASE flows[f].target[1] # device[flows[f].dev].user
    BY <1>0, <1>13, <2>1, <2>3 DEF DeleteChecked, OnlyAuthorsDelete
  <2> QED
    BY <2>2, <2>3
<1>14. ASSUME NEW f \in Flows, NoInternet(f)
       PROVE  SubmissionsHaveText' /\ OnlyAuthorsDelete'
  <2>1. SubmissionsHaveText'
    BY <1>0, <1>14, EndKeepsText DEF NoInternet
  <2> QED
    BY <1>0, <1>14, <2>1 DEF NoInternet, OnlyAuthorsDelete
<1>15. CASE UNCHANGED vars
  BY <1>0, <1>15 DEF vars, SubmissionsHaveText, OnlyAuthorsDelete
<1> QED
  BY <1>1, <1>2, <1>3, <1>4, <1>5, <1>6, <1>7, <1>8, <1>9, <1>10, <1>11, <1>12,
     <1>13, <1>14, <1>15, <1>16 DEF Next

\* Nobody deletes a note of somebody else (handleDelete, deleteComment), for any
\* number of people, devices and runs at once, patient or not.
THEOREM DeletesAreOwn == Spec => []OnlyAuthorsDelete
<1>1. DeletesInv => OnlyAuthorsDelete
  BY DEF DeletesInv
<1> QED
  BY <1>1, DeletesInit, DeletesStep, PTL DEF Spec
--------------------------------------------------------------------------------
(* Queues, slot by slot *)

Slots(d) == 1 .. Len(outbox[d])

LEMMA SlotTyped ==
    ASSUME TypeOK, NEW d \in Devices, NEW i \in Slots(d)
    PROVE  /\ outbox[d] \in Seq(Op) /\ Len(outbox[d]) \in Nat
           /\ outbox[d][i].id \in Ids /\ outbox[d][i].note \in Notes \cup {NoNote}
<1>1. outbox[d] \in Seq(Op)
  BY DEF TypeOK
<1>2. outbox[d][i] \in Op
  BY <1>1 DEF Slots
<1>. QED
  BY <1>1, <1>2 DEF Op

\* One write more at the end of the queue of d.
Grown(d, op) ==
    LET k == Len(outbox[d]) + 1
    IN  /\ k \in Slots(d)' /\ outbox'[d][k] = op
        /\ \A i \in Slots(d) : i < k
        /\ \A e \in Devices : \A i \in Slots(e) : i \in Slots(e)' /\ outbox'[e][i] = outbox[e][i]
        /\ \A e \in Devices : \A i \in Slots(e)' : i \in Slots(e) \/ (e = d /\ i = k)

LEMMA GrownQueue ==
    ASSUME TypeOK, NEW d \in Devices, NEW op, outbox'[d] = Append(outbox[d], op),
           \A e \in Devices \ {d} : outbox'[e] = outbox[e]
    PROVE  Grown(d, op)
<1>1. outbox[d] \in Seq(Op) /\ Len(outbox[d]) \in Nat
  BY DEF TypeOK
<1>2. /\ Len(outbox'[d]) = Len(outbox[d]) + 1
      /\ outbox'[d][Len(outbox[d]) + 1] = op
      /\ \A i \in 1 .. Len(outbox[d]) : outbox'[d][i] = outbox[d][i]
  BY <1>1
<1>3. \A i \in Slots(d) : i < Len(outbox[d]) + 1
  BY <1>1 DEF Slots
<1>4. ASSUME NEW e \in Devices
      PROVE  /\ \A i \in Slots(e) : i \in Slots(e)' /\ outbox'[e][i] = outbox[e][i]
             /\ \A i \in Slots(e)' : i \in Slots(e) \/ (e = d /\ i = Len(outbox[d]) + 1)
  <2>1. CASE e = d
    BY <1>1, <1>2, <2>1 DEF Slots
  <2>2. CASE e # d
    BY <2>2 DEF Slots
  <2>. QED
    BY <2>1, <2>2
<1>. QED
  BY <1>1, <1>2, <1>3, <1>4 DEF Grown, Slots

\* The oldest write of d is gone: where a slot of now was.
Was(d, e, i) == IF e = d THEN i + 1 ELSE i
Shrunk(d) ==
    /\ 1 \in Slots(d)
    /\ \A e \in Devices : \A i \in Slots(e)' :
          /\ i \in Nat /\ Was(d, e, i) \in Slots(e)
          /\ outbox'[e][i] = outbox[e][Was(d, e, i)]
    /\ \A e \in Devices : \A i \in Slots(e) :
          (e = d /\ i = 1) \/ \E j \in Slots(e)' : Was(d, e, j) = i

LEMMA ShrunkQueue ==
    ASSUME TypeOK, NEW d \in Devices, outbox[d] # <<>>,
           outbox' = [outbox EXCEPT ![d] = Tail(@)]
    PROVE  Shrunk(d) /\ Head(outbox[d]) = outbox[d][1]
<1>1. /\ outbox[d] \in Seq(Op) /\ Len(outbox[d]) \in Nat
      /\ outbox'[d] = Tail(outbox[d])
      /\ \A e \in Devices \ {d} : outbox'[e] = outbox[e]
  BY DequeueTyped DEF TypeOK
<1>2. /\ Len(outbox'[d]) = Len(outbox[d]) - 1 /\ Len(outbox[d]) >= 1
      /\ \A i \in 1 .. Len(outbox'[d]) : outbox'[d][i] = outbox[d][i + 1]
      /\ Head(outbox[d]) = outbox[d][1]
  <2>. DEFINE q == outbox[d]
  <2>1. q \in Seq(Op) /\ q # <<>> /\ outbox'[d] = Tail(q)
    BY <1>1
  <2>. HIDE DEF q
  <2>2. /\ Len(Tail(q)) = Len(q) - 1 /\ Len(q) \in Nat /\ Len(q) # 0
        /\ \A i \in 1 .. Len(Tail(q)) : Tail(q)[i] = q[i + 1]
        /\ Head(q) = q[1]
    BY <2>1, HeadTailProperties, LenProperties, EmptySeq
  <2>3. Len(q) >= 1
    BY <2>2
  <2>. QED
    BY <2>1, <2>2, <2>3 DEF q
<1>3. ASSUME NEW e \in Devices, NEW i \in Slots(e)'
      PROVE  /\ i \in Nat /\ Was(d, e, i) \in Slots(e)
             /\ outbox'[e][i] = outbox[e][Was(d, e, i)]
  <2>1. CASE e = d
    BY <1>1, <1>2, <1>3, <2>1 DEF Slots, Was
  <2>2. CASE e # d
    BY <1>1, <1>3, <2>2 DEF Slots, Was
  <2>. QED
    BY <2>1, <2>2
<1>4. ASSUME NEW e \in Devices, NEW i \in Slots(e)
      PROVE  (e = d /\ i = 1) \/ \E j \in Slots(e)' : Was(d, e, j) = i
  <2>1. CASE e = d /\ i # 1
    <3>1. i - 1 \in Slots(e)' /\ Was(d, e, i - 1) = i
      BY <1>1, <1>2, <1>4, <2>1 DEF Slots, Was
    <3>. QED
      BY <3>1
  <2>2. CASE e # d
    BY <1>1, <1>4, <2>2 DEF Slots, Was
  <2>. QED
    BY <2>1, <2>2
<1>5. 1 \in Slots(d)
  BY <1>1, <1>2 DEF Slots
<1>. QED
  BY <1>2, <1>3, <1>4, <1>5 DEF Shrunk

\* A set of slots has a last one: what Visible takes the write from.
LEMMA MaxOfSlots ==
    ASSUME NEW L \in Nat, NEW S, S \subseteq 1 .. L, S # {}
    PROVE  Max(S) \in S
<1>. DEFINE T == {L - i : i \in S}
<1>1. T \subseteq Nat /\ T # {}
  <2>1. \A i \in S : i \in Nat /\ i <= L /\ L - i \in Nat
    OBVIOUS
  <2>2. T \subseteq Nat
    BY <2>1
  <2>3. PICK i \in S : TRUE
    OBVIOUS
  <2>. QED
    BY <2>2, <2>3
<1>2. PICK t \in T : \A y \in T : ~(<<y, t>> \in OpToRel(<, Nat))
  <2>. HIDE DEF T
  <2>. QED
    BY <1>1, NatLessThanWellFounded, WFMin
<1>3. \A y \in T : ~(y < t)
  BY <1>1, <1>2 DEF OpToRel
<1>4. PICK x \in S : t = L - x
  BY <1>2
<1>5. \A y \in S : x >= y
  BY <1>3, <1>4
<1>. QED
  BY <1>5 DEF Max

LEMMA QueuedLast ==
    ASSUME TypeOK, NEW d \in Devices, NEW id, Queued(d, id) # {}
    PROVE  Max(Queued(d, id)) \in Queued(d, id)
<1>1. Len(outbox[d]) \in Nat /\ Queued(d, id) \subseteq 1 .. Len(outbox[d])
  BY DEF TypeOK, Queued
<1>. QED
  BY <1>1, MaxOfSlots

--------------------------------------------------------------------------------
(* A user who waits for a note to be sent *)

Waits == "send" \notin Impatient

Sent == {"accepted", "unsigned", "deleted", "refused"}

Holds(n, id) == \/ server[id] = n
                \/ \E d \in Devices : \E i \in Slots(d) :
                      outbox[d][i].id = id /\ outbox[d][i].note = n

Deleting(id) == \E d \in Devices : \E i \in Slots(d) :
                   outbox[d][i].id = id /\ outbox[d][i].note = NoNote

\* A note is sent once, and the name of an author is used once, so that no two
\* writes, no two documents and no write and document have an author's name or a
\* note in common.  Notes of nobody may share a name.
PlaceInv ==
    /\ \A id \in Ids : server[id] # NoNote => id \in used /\ <<id[1], server[id]>> \in posted
    /\ \A id, jd \in Ids : server[id] = server[jd] /\ server[id] # NoNote => id = jd
    /\ \A p \in posted : fate[p[2]] \in Sent
    /\ \A d \in Devices : \A i \in Slots(d) :
          /\ outbox[d][i].id \in used
          /\ outbox[d][i].note # NoNote =>
                /\ Signed(outbox[d][i].id) => server[outbox[d][i].id] = NoNote
                /\ fate[outbox[d][i].note] \in Sent
                /\ \A p \in posted : p[2] # outbox[d][i].note
    /\ \A d, e \in Devices : \A i \in Slots(d), j \in Slots(e) :
          /\ outbox[d][i].note # NoNote /\ outbox[e][j].note # NoNote
          /\ \/ outbox[d][i].id = outbox[e][j].id /\ Signed(outbox[d][i].id)
             \/ outbox[d][i].note = outbox[e][j].note
          => d = e /\ i = j

\* An accepted note is under an author's name somewhere, with no delete on its way
\* to it; one that is deleted has a delete behind it wherever it still is.
FateInv ==
    /\ \A n \in Notes : fate[n] = "accepted" =>
          \E id \in Ids : Signed(id) /\ Holds(n, id) /\ ~Deleting(id)
    /\ \A id \in Ids : server[id] # NoNote /\ fate[server[id]] = "deleted" => Deleting(id)
    /\ \A d \in Devices : \A i \in Slots(d) :
          outbox[d][i].note # NoNote /\ fate[outbox[d][i].note] = "deleted" =>
              \E j \in Slots(d) : /\ i < j /\ outbox[d][j].id = outbox[d][i].id
                                  /\ outbox[d][j].note = NoNote

\* A document a device has shown is no longer on its way from another, unless it
\* is nobody's.
Seen(d, id) ==
    /\ id \in used
    /\ Signed(id) => \A e \in Devices \ {d} : \A i \in Slots(e) :
          outbox[e][i].id = id => outbox[e][i].note = NoNote

SeenInv ==
    /\ \A d \in Devices : \A id \in device[d].list : Seen(d, id)
    /\ \A f \in Flows : flows[f].pc = "delete" => Seen(flows[f].dev, flows[f].target)

\* Each device sends one note at a time, and the one that was meant.
SendInv ==
    \A f \in Flows : flows[f].pc = "send" =>
       /\ flows[f].note \in Notes /\ fate[flows[f].note] = "submitted"
       /\ TextOf(f) = flows[f].note
       /\ flows[f].onPage => device[flows[f].dev].open
       /\ \A g \in Flows : flows[g].pc = "send" /\ g # f =>
             flows[g].note # flows[f].note /\ flows[g].dev # flows[f].dev

--------------------------------------------------------------------------------
\* What a device shows is on the server or in its own queue ...
LEMMA VisibleSource ==
    ASSUME TypeOK, NEW d \in Devices, NEW id \in Ids
    PROVE  \/ server[id] = Visible(d, id)
           \/ \E i \in Slots(d) : outbox[d][i].id = id /\ outbox[d][i].note = Visible(d, id)
<1>1. CASE Queued(d, id) = {}
  BY <1>1 DEF Visible
<1>2. CASE Queued(d, id) # {}
  <2>1. Max(Queued(d, id)) \in Queued(d, id)
    BY <1>2, QueuedLast
  <2>. QED
    BY <1>2, <2>1 DEF Visible, Queued, Slots
<1>. QED
  BY <1>1, <1>2

\* ... and what is there is shown, unless it is on its way from another device or
\* a delete is queued.
LEMMA HeldIsVisible ==
    ASSUME TypeOK, PlaceInv, NEW d \in Devices, NEW id \in Ids, NEW n \in Notes,
           Holds(n, id), Signed(id), ~Deleting(id),
           \A e \in Devices \ {d} : \A i \in Slots(e) :
               outbox[e][i].id = id => outbox[e][i].note = NoNote
    PROVE  Visible(d, id) = n
<1>1. n # NoNote
  BY NotesAssumption
<1>2. CASE server[id] = n
  <2>1. Queued(d, id) = {}
    BY <1>1, <1>2 DEF Queued, PlaceInv, Deleting, Slots
  <2>. QED
    BY <1>2, <2>1 DEF Visible
<1>3. CASE \E i \in Slots(d) : outbox[d][i].id = id /\ outbox[d][i].note = n
  <2>1. PICK i \in Slots(d) : outbox[d][i].id = id /\ outbox[d][i].note = n
    BY <1>3
  <2>2. i \in Queued(d, id)
    BY <2>1 DEF Queued, Slots
  <2>3. Max(Queued(d, id)) \in Queued(d, id)
    BY <2>2, QueuedLast
  <2>4. Max(Queued(d, id)) = i
    BY <1>1, <2>1, <2>3 DEF Queued, Slots, PlaceInv, Deleting
  <2>. QED
    BY <2>1, <2>2, <2>4 DEF Visible
<1>. QED
  BY <1>1, <1>2, <1>3 DEF Holds

--------------------------------------------------------------------------------
(* Where the notes are, step by step *)

NotesInv == PlaceInv /\ FateInv

\* Steps that write nothing, and change the fate only of notes not yet saved.
LEMMA NothingWritten ==
    ASSUME TypeOK, NotesInv, UNCHANGED <<server, outbox, used, posted>>,
           \A n \in Notes : fate'[n] = fate[n] \/ (fate[n] \notin Sent /\ fate'[n] \notin Sent)
    PROVE  NotesInv'
<1>1. /\ \A p \in posted : p[2] \in Notes
      /\ \A d \in Devices : \A i \in Slots(d) : outbox[d][i].note \in Notes \cup {NoNote}
      /\ \A id \in Ids : server[id] \in Notes \cup {NoNote}
      /\ \A d \in Devices : Slots(d)' = Slots(d)
  BY SlotTyped DEF TypeOK, Slots
<1>2. \A n \in Notes : /\ fate[n] \in Sent => fate'[n] = fate[n]
                       /\ fate'[n] \in Sent => fate'[n] = fate[n]
  OBVIOUS
<1>3. "accepted" \in Sent /\ "deleted" \in Sent
  BY DEF Sent
<1>4. /\ \A n, id : Holds(n, id)' <=> Holds(n, id)
      /\ \A id : Deleting(id)' <=> Deleting(id)
  BY <1>1 DEF Holds, Deleting
<1>5. PlaceInv'
  BY <1>1, <1>2 DEF NotesInv, PlaceInv
<1>6. FateInv'
  <2>1. \A n \in Notes : fate'[n] = "accepted" =>
            \E id \in Ids : Signed(id) /\ Holds(n, id)' /\ ~Deleting(id)'
    BY <1>2, <1>3, <1>4 DEF NotesInv, FateInv
  <2>2. \A id \in Ids : server'[id] # NoNote /\ fate'[server'[id]] = "deleted" => Deleting(id)'
    BY <1>1, <1>2, <1>3, <1>4 DEF NotesInv, FateInv
  <2>3. \A d \in Devices : \A i \in Slots(d)' :
          outbox'[d][i].note # NoNote /\ fate'[outbox'[d][i].note] = "deleted" =>
              \E j \in Slots(d)' : /\ i < j /\ outbox'[d][j].id = outbox'[d][i].id
                                   /\ outbox'[d][j].note = NoNote
    BY <1>1, <1>2, <1>3 DEF NotesInv, FateInv
  <2>. QED
    BY <2>1, <2>2, <2>3 DEF FateInv
<1>. QED
  BY <1>5, <1>6 DEF NotesInv

\* A write added anywhere keeps what is held, and what is being deleted.
LEMMA GrownHolds ==
    ASSUME NEW d \in Devices, NEW op, Grown(d, op), UNCHANGED server
    PROVE  /\ \A n, id : Holds(n, id) => Holds(n, id)'
           /\ Holds(op.note, op.id)'
           /\ \A id : Deleting(id) => Deleting(id)'
           /\ op.note = NoNote => Deleting(op.id)'
           /\ \A id : Deleting(id)' => Deleting(id) \/ (op.note = NoNote /\ op.id = id)
  BY DEF Grown, Holds, Deleting

\* saveNewComment: the note gets a name nobody has used, or one of nobody's.
LEMMA NoteSaved ==
    ASSUME TypeOK, NotesInv, NEW d \in Devices, NEW op, op.id \in Ids, op.note \in Notes,
           Signed(op.id) => op.id \notin used,
           fate[op.note] = "submitted", Grown(d, op), used' = used \cup {op.id},
           fate' = [fate EXCEPT ![op.note] = IF Signed(op.id) THEN "accepted" ELSE "unsigned"],
           UNCHANGED <<server, posted>>
    PROVE  NotesInv'
<1>0. /\ op.note # NoNote /\ "submitted" \notin Sent
      /\ fate'[op.note] \in Sent /\ fate'[op.note] # "deleted"
      /\ fate'[op.note] = "accepted" => Signed(op.id)
      /\ \A n \in Notes \ {op.note} : fate'[n] = fate[n]
  BY NotesAssumption DEF Sent, TypeOK
<1>1. /\ \A p \in posted : p[2] \in Notes
      /\ \A e \in Devices : \A i \in Slots(e) : outbox[e][i].note \in Notes \cup {NoNote}
      /\ \A id \in Ids : server[id] \in Notes \cup {NoNote}
  BY SlotTyped DEF TypeOK
\* Nothing saved before has its name or is the same note.
<1>2. /\ \A p \in posted : p[2] # op.note
      /\ \A e \in Devices : \A i \in Slots(e) :
            outbox[e][i].note # op.note /\ (Signed(op.id) => outbox[e][i].id # op.id)
      /\ \A id \in Ids : server[id] # op.note
      /\ Signed(op.id) => server[op.id] = NoNote
  <2>1. \A p \in posted : p[2] # op.note
    BY <1>0 DEF NotesInv, PlaceInv
  <2>2. \A e \in Devices : \A i \in Slots(e) :
            outbox[e][i].note # op.note /\ (Signed(op.id) => outbox[e][i].id # op.id)
    BY <1>0 DEF NotesInv, PlaceInv
  <2>3. \A id \in Ids : server[id] # op.note
    BY <1>0, <2>1 DEF NotesInv, PlaceInv
  <2>4. Signed(op.id) => server[op.id] = NoNote
    BY DEF NotesInv, PlaceInv
  <2>. QED
    BY <2>1, <2>2, <2>3, <2>4
<1>3. PlaceInv'
  <2>1. /\ \A id \in Ids : server'[id] # NoNote => id \in used' /\ <<id[1], server'[id]>> \in posted'
        /\ \A id, jd \in Ids : server'[id] = server'[jd] /\ server'[id] # NoNote => id = jd
    BY DEF NotesInv, PlaceInv
  <2>2. \A p \in posted' : fate'[p[2]] \in Sent
    BY <1>0, <1>1, <1>2 DEF NotesInv, PlaceInv
  <2>3. ASSUME NEW e \in Devices, NEW i \in Slots(e)'
        PROVE  /\ outbox'[e][i].id \in used'
               /\ outbox'[e][i].note # NoNote =>
                     /\ Signed(outbox'[e][i].id) => server'[outbox'[e][i].id] = NoNote
                     /\ fate'[outbox'[e][i].note] \in Sent
                     /\ \A p \in posted' : p[2] # outbox'[e][i].note
    <3>1. CASE outbox'[e][i] = op
      BY <1>0, <1>2, <3>1
    <3>2. CASE i \in Slots(e) /\ outbox'[e][i] = outbox[e][i]
      BY <1>0, <1>1, <1>2, <3>2 DEF NotesInv, PlaceInv
    <3>. QED
      BY <2>3, <3>1, <3>2 DEF Grown
  <2>4. \A a, b \in Devices : \A i \in Slots(a)', j \in Slots(b)' :
          /\ outbox'[a][i].note # NoNote /\ outbox'[b][j].note # NoNote
          /\ \/ outbox'[a][i].id = outbox'[b][j].id /\ Signed(outbox'[a][i].id)
             \/ outbox'[a][i].note = outbox'[b][j].note
          => a = b /\ i = j
    BY <1>2 DEF NotesInv, PlaceInv, Grown
  <2>. QED
    BY <2>1, <2>2, <2>3, <2>4 DEF PlaceInv
<1>4. FateInv'
  <2>1. Signed(op.id) => ~Deleting(op.id)'
    <3>1. Signed(op.id) => ~Deleting(op.id)
      BY <1>2 DEF Deleting
    <3>. QED
      BY <1>0, <3>1, GrownHolds
  <2>2. \A n \in Notes : fate'[n] = "accepted" =>
            \E id \in Ids : Signed(id) /\ Holds(n, id)' /\ ~Deleting(id)'
    BY <1>0, <2>1, GrownHolds DEF NotesInv, FateInv
  <2>3. \A id \in Ids : server'[id] # NoNote /\ fate'[server'[id]] = "deleted" => Deleting(id)'
    BY <1>0, <1>1, <1>2, GrownHolds DEF NotesInv, FateInv
  <2>4. \A e \in Devices : \A i \in Slots(e)' :
          outbox'[e][i].note # NoNote /\ fate'[outbox'[e][i].note] = "deleted" =>
              \E j \in Slots(e)' : /\ i < j /\ outbox'[e][j].id = outbox'[e][i].id
                                   /\ outbox'[e][j].note = NoNote
    <3>. SUFFICES ASSUME NEW e \in Devices, NEW i \in Slots(e)', outbox'[e][i].note # NoNote,
                         fate'[outbox'[e][i].note] = "deleted"
                  PROVE  \E j \in Slots(e)' : /\ i < j /\ outbox'[e][j].id = outbox'[e][i].id
                                              /\ outbox'[e][j].note = NoNote
      OBVIOUS
    <3>1. i \in Slots(e) /\ outbox'[e][i] = outbox[e][i] /\ fate[outbox[e][i].note] = "deleted"
      BY <1>0, <1>1, <1>2 DEF Grown
    <3>2. PICK j \in Slots(e) : /\ i < j /\ outbox[e][j].id = outbox[e][i].id
                                /\ outbox[e][j].note = NoNote
      BY <3>1 DEF NotesInv, FateInv
    <3>. QED
      BY <3>1, <3>2 DEF Grown
  <2>. QED
    BY <2>2, <2>3, <2>4 DEF FateInv
<1>. QED
  BY <1>3, <1>4 DEF NotesInv

\* deleteComment: the delete goes behind everything the device knows of the note.
LEMMA NoteDeleted ==
    ASSUME TypeOK, NotesInv, NEW d \in Devices, NEW op, op.id \in Ids, Seen(d, op.id),
           op.note = NoNote, Grown(d, op), UNCHANGED <<server, posted, used>>,
           fate' = IF Visible(d, op.id) = NoNote THEN fate
                   ELSE [fate EXCEPT ![Visible(d, op.id)] = "deleted"]
    PROVE  NotesInv'
<1>. DEFINE m == Visible(d, op.id)
<1>1. /\ \A p \in posted : p[2] \in Notes
      /\ \A e \in Devices : \A i \in Slots(e) : outbox[e][i].note \in Notes \cup {NoNote}
      /\ \A id \in Ids : server[id] \in Notes \cup {NoNote}
  BY SlotTyped DEF TypeOK
<1>2. \/ server[op.id] = m
      \/ \E i \in Slots(d) : outbox[d][i].id = op.id /\ outbox[d][i].note = m
  BY VisibleSource
<1>3. m \in Notes \cup {NoNote}
  BY <1>1, <1>2
<1>4. \A n \in Notes : IF n = m THEN fate'[n] = "deleted" ELSE fate'[n] = fate[n]
  BY <1>3, NotesAssumption DEF TypeOK
<1>h. \A n \in Notes : Signed(op.id) /\ Holds(n, op.id) /\ ~Deleting(op.id) => m = n
  BY HeldIsVisible DEF NotesInv, Seen
<1>. HIDE DEF m
<1>5. PlaceInv'
  <2>1. /\ \A id \in Ids : server'[id] # NoNote => id \in used' /\ <<id[1], server'[id]>> \in posted'
        /\ \A id, jd \in Ids : server'[id] = server'[jd] /\ server'[id] # NoNote => id = jd
    BY DEF NotesInv, PlaceInv
  <2>2. \A n \in Notes : fate[n] \in Sent => fate'[n] \in Sent
    BY <1>4 DEF Sent
  <2>3. \A p \in posted' : fate'[p[2]] \in Sent
    BY <1>1, <2>2 DEF NotesInv, PlaceInv
  <2>4. ASSUME NEW e \in Devices, NEW i \in Slots(e)'
        PROVE  /\ outbox'[e][i].id \in used'
               /\ outbox'[e][i].note # NoNote =>
                     /\ Signed(outbox'[e][i].id) => server'[outbox'[e][i].id] = NoNote
                     /\ fate'[outbox'[e][i].note] \in Sent
                     /\ \A p \in posted' : p[2] # outbox'[e][i].note
    <3>1. CASE outbox'[e][i] = op
      BY <3>1 DEF Seen
    <3>2. CASE i \in Slots(e) /\ outbox'[e][i] = outbox[e][i]
      BY <1>1, <2>2, <3>2 DEF NotesInv, PlaceInv
    <3>. QED
      BY <2>4, <3>1, <3>2 DEF Grown
  <2>5. \A a, b \in Devices : \A i \in Slots(a)', j \in Slots(b)' :
          /\ outbox'[a][i].note # NoNote /\ outbox'[b][j].note # NoNote
          /\ \/ outbox'[a][i].id = outbox'[b][j].id /\ Signed(outbox'[a][i].id)
             \/ outbox'[a][i].note = outbox'[b][j].note
          => a = b /\ i = j
    BY DEF NotesInv, PlaceInv, Grown
  <2>. QED
    BY <2>1, <2>3, <2>4, <2>5 DEF PlaceInv
<1>6. FateInv'
  <2>1. \A n \in Notes : fate'[n] = "accepted" =>
            \E id \in Ids : Signed(id) /\ Holds(n, id)' /\ ~Deleting(id)'
    <3>. SUFFICES ASSUME NEW n \in Notes, fate'[n] = "accepted"
                  PROVE  \E id \in Ids : Signed(id) /\ Holds(n, id)' /\ ~Deleting(id)'
      OBVIOUS
    <3>1. n # m /\ fate[n] = "accepted"
      BY <1>4
    <3>2. PICK id \in Ids : Signed(id) /\ Holds(n, id) /\ ~Deleting(id)
      BY <3>1 DEF NotesInv, FateInv
    <3>3. id # op.id
      BY <1>h, <3>1, <3>2
    <3>. QED
      BY <3>2, <3>3, GrownHolds
  <2>2. \A id \in Ids : server'[id] # NoNote /\ fate'[server'[id]] = "deleted" => Deleting(id)'
    <3>. SUFFICES ASSUME NEW id \in Ids, server[id] # NoNote, fate'[server[id]] = "deleted"
                  PROVE  Deleting(id)'
      OBVIOUS
    <3>1. CASE server[id] = m
      <4>1. id = op.id
        BY <1>1, <1>2, <3>1 DEF NotesInv, PlaceInv
      <4>. QED
        BY <4>1, GrownHolds
    <3>2. CASE server[id] # m
      BY <1>1, <1>4, <3>2, GrownHolds DEF NotesInv, FateInv
    <3>. QED
      BY <3>1, <3>2
  <2>3. \A e \in Devices : \A i \in Slots(e)' :
          outbox'[e][i].note # NoNote /\ fate'[outbox'[e][i].note] = "deleted" =>
              \E j \in Slots(e)' : /\ i < j /\ outbox'[e][j].id = outbox'[e][i].id
                                   /\ outbox'[e][j].note = NoNote
    <3>. SUFFICES ASSUME NEW e \in Devices, NEW i \in Slots(e)', outbox'[e][i].note # NoNote,
                         fate'[outbox'[e][i].note] = "deleted"
                  PROVE  \E j \in Slots(e)' : /\ i < j /\ outbox'[e][j].id = outbox'[e][i].id
                                              /\ outbox'[e][j].note = NoNote
      OBVIOUS
    <3>1. i \in Slots(e) /\ outbox'[e][i] = outbox[e][i]
      BY DEF Grown
    <3>2. CASE outbox[e][i].note = m
      <4>1. server[op.id] # m
        BY <1>1, <3>1, <3>2 DEF NotesInv, PlaceInv
      <4>2. e = d /\ outbox[e][i].id = op.id
        BY <1>2, <3>1, <3>2, <4>1 DEF NotesInv, PlaceInv
      <4>. QED
        BY <3>1, <4>2 DEF Grown
    <3>3. CASE outbox[e][i].note # m
      <4>1. fate[outbox[e][i].note] = "deleted"
        BY <1>1, <1>4, <3>1, <3>3
      <4>2. PICK j \in Slots(e) : /\ i < j /\ outbox[e][j].id = outbox[e][i].id
                                  /\ outbox[e][j].note = NoNote
        BY <3>1, <4>1 DEF NotesInv, FateInv
      <4>. QED
        BY <3>1, <4>2 DEF Grown
    <3>. QED
      BY <3>2, <3>3
  <2>. QED
    BY <2>1, <2>2, <2>3 DEF FateInv
<1>. QED
  BY <1>5, <1>6 DEF NotesInv

\* The oldest write of a device leaves its queue: what that can change.
LEMMA ShrunkHolds ==
    ASSUME TypeOK, NEW d \in Devices, Shrunk(d), NEW op, op = outbox[d][1]
    PROVE  /\ op.id \in Ids /\ op.note \in Notes \cup {NoNote}
           /\ \A id : Deleting(id)' => Deleting(id)
           /\ \A id : Deleting(id) => Deleting(id)' \/ (op.note = NoNote /\ op.id = id)
           /\ \A n, id : Holds(n, id) => \/ server[id] = n
                                         \/ op.id = id /\ op.note = n
                                         \/ \E e \in Devices : \E i \in Slots(e)' :
                                               outbox'[e][i].id = id /\ outbox'[e][i].note = n
<1>1. op.id \in Ids /\ op.note \in Notes \cup {NoNote}
  BY SlotTyped DEF Shrunk
<1>2. \A id : Deleting(id)' => Deleting(id)
  BY DEF Shrunk, Deleting
<1>3. ASSUME NEW e \in Devices, NEW i \in Slots(e), outbox[e][i] # op
      PROVE  \E j \in Slots(e)' : outbox'[e][j] = outbox[e][i]
  BY <1>3 DEF Shrunk
<1>4. \A id : Deleting(id) => Deleting(id)' \/ (op.note = NoNote /\ op.id = id)
  BY <1>3 DEF Deleting
<1>5. \A n, id : Holds(n, id) => \/ server[id] = n
                                 \/ op.id = id /\ op.note = n
                                 \/ \E e \in Devices : \E i \in Slots(e)' :
                                       outbox'[e][i].id = id /\ outbox'[e][i].note = n
  BY <1>3 DEF Holds
<1>. QED
  BY <1>1, <1>2, <1>4, <1>5

\* ... while what is left in the queues differs as before, also from what left,
\* and a delete behind a write is still behind it.
LEMMA ShrunkApart ==
    ASSUME TypeOK, NotesInv, NEW d \in Devices, Shrunk(d), NEW op, op = outbox[d][1]
    PROVE  /\ \A a, b \in Devices : \A i \in Slots(a)', j \in Slots(b)' :
                 /\ outbox'[a][i].note # NoNote /\ outbox'[b][j].note # NoNote
                 /\ \/ outbox'[a][i].id = outbox'[b][j].id /\ Signed(outbox'[a][i].id)
                    \/ outbox'[a][i].note = outbox'[b][j].note
                 => a = b /\ i = j
           /\ op.note # NoNote =>
                 \A e \in Devices : \A i \in Slots(e)' : outbox'[e][i].note # NoNote =>
                     /\ Signed(op.id) => outbox'[e][i].id # op.id
                     /\ outbox'[e][i].note # op.note
           /\ \A e \in Devices : \A i \in Slots(e)' :
                 outbox'[e][i].note # NoNote /\ fate[outbox'[e][i].note] = "deleted" =>
                     \E j \in Slots(e)' : /\ i < j /\ outbox'[e][j].id = outbox'[e][i].id
                                          /\ outbox'[e][j].note = NoNote
<1>1. ASSUME NEW a \in Devices, NEW b \in Devices, NEW i \in Slots(a)', NEW j \in Slots(b)',
             outbox'[a][i].note # NoNote, outbox'[b][j].note # NoNote,
             \/ outbox'[a][i].id = outbox'[b][j].id /\ Signed(outbox'[a][i].id)
             \/ outbox'[a][i].note = outbox'[b][j].note
      PROVE  a = b /\ i = j
  <2>1. a = b /\ Was(d, a, i) = Was(d, b, j)
    BY <1>1 DEF Shrunk, NotesInv, PlaceInv
  <2>. QED
    BY <2>1 DEF Shrunk, Was
<1>2. ASSUME op.note # NoNote, NEW e \in Devices, NEW i \in Slots(e)', outbox'[e][i].note # NoNote
      PROVE  (Signed(op.id) => outbox'[e][i].id # op.id) /\ outbox'[e][i].note # op.note
  <2>1. i \in Nat /\ i # 0
    BY DEF Slots
  <2>2. e # d \/ Was(d, e, i) # 1
    BY <2>1 DEF Was
  <2>. QED
    BY <1>2, <2>2 DEF Shrunk, NotesInv, PlaceInv
<1>3. ASSUME NEW e \in Devices, NEW i \in Slots(e)',
             outbox'[e][i].note # NoNote, fate[outbox'[e][i].note] = "deleted"
      PROVE  \E j \in Slots(e)' : /\ i < j /\ outbox'[e][j].id = outbox'[e][i].id
                                  /\ outbox'[e][j].note = NoNote
  <2>1. i \in Nat /\ Was(d, e, i) \in Slots(e) /\ outbox'[e][i] = outbox[e][Was(d, e, i)]
    BY DEF Shrunk
  <2>2. PICK j \in Slots(e) : /\ Was(d, e, i) < j /\ outbox[e][j].id = outbox'[e][i].id
                              /\ outbox[e][j].note = NoNote
    BY <1>3, <2>1 DEF NotesInv, FateInv
  <2>3. j # 1
    BY <2>1, <2>2 DEF Slots
  <2>4. PICK k \in Slots(e)' : Was(d, e, k) = j
    BY <2>2, <2>3 DEF Shrunk
  <2>5. outbox'[e][k] = outbox[e][j] /\ i < k
    BY <2>1, <2>2, <2>4 DEF Shrunk, Was
  <2>. QED
    BY <2>2, <2>4, <2>5
<1>. QED
  BY <1>1, <1>2, <1>3

\* The server takes a write: a note appears, or goes with the delete behind it.
LEMMA NoteCommitted ==
    ASSUME TypeOK, NotesInv, NEW d \in Devices, Commit(d)
    PROVE  NotesInv'
<1>. DEFINE op == outbox[d][1]
<1>1. Shrunk(d) /\ Head(outbox[d]) = op
  BY ShrunkQueue DEF Commit
<1>2. /\ \A id \in Ids : server'[id] = IF id = op.id THEN op.note ELSE server[id]
      /\ posted' = IF op.note = NoNote THEN posted ELSE posted \cup {<<op.id[1], op.note>>}
      /\ fate' = fate /\ used' = used
  BY <1>1 DEF Commit, TypeOK
<1>3. 1 \in Slots(d)
  BY <1>1 DEF Shrunk
<1>4. /\ \A p \in posted : p[2] \in Notes
      /\ \A id \in Ids : server[id] \in Notes \cup {NoNote}
      /\ \A e \in Devices : \A i \in Slots(e)' : outbox'[e][i].id \in Ids
  BY <1>1, SlotTyped DEF TypeOK, Shrunk
<1>5. /\ op.id \in used
      /\ op.note # NoNote => /\ Signed(op.id) => server[op.id] = NoNote
                             /\ fate[op.note] \in Sent
                             /\ \A p \in posted : p[2] # op.note
                             /\ \A id \in Ids : server[id] # op.note
  BY <1>3 DEF NotesInv, PlaceInv
<1>6. \A e \in Devices : \A i \in Slots(e)' :
          /\ outbox'[e][i].id \in used
          /\ outbox'[e][i].note # NoNote =>
                /\ Signed(outbox'[e][i].id) => server[outbox'[e][i].id] = NoNote
                /\ fate[outbox'[e][i].note] \in Sent
                /\ \A p \in posted : p[2] # outbox'[e][i].note
  BY <1>1 DEF Shrunk, NotesInv, PlaceInv
<1>7. op.id \in Ids /\ op.note \in Notes \cup {NoNote}
  BY <1>1, ShrunkHolds
<1>8. PlaceInv'
  <2>1. \A id \in Ids : server'[id] # NoNote => id \in used' /\ <<id[1], server'[id]>> \in posted'
    BY <1>2, <1>5 DEF NotesInv, PlaceInv
  <2>2. \A id, jd \in Ids : server'[id] = server'[jd] /\ server'[id] # NoNote => id = jd
    BY <1>2, <1>5 DEF NotesInv, PlaceInv
  <2>3. \A p \in posted' : fate'[p[2]] \in Sent
    BY <1>2, <1>5 DEF NotesInv, PlaceInv
  <2>4. ASSUME NEW e \in Devices, NEW i \in Slots(e)'
        PROVE  /\ outbox'[e][i].id \in used'
               /\ outbox'[e][i].note # NoNote =>
                     /\ Signed(outbox'[e][i].id) => server'[outbox'[e][i].id] = NoNote
                     /\ fate'[outbox'[e][i].note] \in Sent
                     /\ \A p \in posted' : p[2] # outbox'[e][i].note
    <3>. SUFFICES ASSUME outbox'[e][i].note # NoNote
                  PROVE  /\ Signed(outbox'[e][i].id) => server'[outbox'[e][i].id] = NoNote
                         /\ \A p \in posted' : p[2] # outbox'[e][i].note
      BY <1>2, <1>6
    <3>1. CASE op.note = NoNote
      BY <1>2, <1>4, <1>6, <3>1
    <3>2. CASE op.note # NoNote
      <4>1. (Signed(op.id) => outbox'[e][i].id # op.id) /\ outbox'[e][i].note # op.note
        BY <1>1, <3>2, ShrunkApart
      <4>. QED
        BY <1>2, <1>4, <1>6, <3>2, <4>1
    <3>. QED
      BY <3>1, <3>2
  <2>5. \A a, b \in Devices : \A i \in Slots(a)', j \in Slots(b)' :
          /\ outbox'[a][i].note # NoNote /\ outbox'[b][j].note # NoNote
          /\ \/ outbox'[a][i].id = outbox'[b][j].id /\ Signed(outbox'[a][i].id)
             \/ outbox'[a][i].note = outbox'[b][j].note
          => a = b /\ i = j
    BY <1>1, ShrunkApart
  <2>. QED
    BY <2>1, <2>2, <2>3, <2>4, <2>5 DEF PlaceInv
<1>9. FateInv'
  <2>1. ASSUME NEW n \in Notes, fate'[n] = "accepted"
        PROVE  \E id \in Ids : Signed(id) /\ Holds(n, id)' /\ ~Deleting(id)'
    <3>1. PICK id \in Ids : Signed(id) /\ Holds(n, id) /\ ~Deleting(id)
      BY <1>2, <2>1 DEF NotesInv, FateInv
    <3>2. ~Deleting(id)' /\ n # NoNote
      BY <1>1, <3>1, ShrunkHolds, NotesAssumption
    <3>3. CASE server[id] = n
      <4>1. id # op.id
        BY <1>3, <1>5, <3>1, <3>2, <3>3 DEF Deleting
      <4>. QED
        BY <1>2, <3>1, <3>2, <3>3, <4>1 DEF Holds
    <3>4. CASE op.id = id /\ op.note = n
      BY <1>2, <3>1, <3>2, <3>4 DEF Holds
    <3>5. CASE \E e \in Devices : \E i \in Slots(e)' :
                   outbox'[e][i].id = id /\ outbox'[e][i].note = n
      BY <3>1, <3>2, <3>5 DEF Holds
    <3>. QED
      BY <1>1, <3>1, <3>3, <3>4, <3>5, ShrunkHolds
  <2>2. ASSUME NEW id \in Ids, server'[id] # NoNote, fate'[server'[id]] = "deleted"
        PROVE  Deleting(id)'
    <3>1. CASE id = op.id
      <4>1. op.note # NoNote /\ fate[op.note] = "deleted"
        BY <1>2, <2>2, <3>1
      <4>2. PICK j \in Slots(d) : /\ 1 < j /\ outbox[d][j].id = op.id
                                  /\ outbox[d][j].note = NoNote
        BY <1>3, <4>1 DEF NotesInv, FateInv
      <4>3. Deleting(op.id)
        BY <4>2 DEF Deleting
      <4>. QED
        BY <1>1, <3>1, <4>1, <4>3, ShrunkHolds
    <3>2. CASE id # op.id
      <4>1. Deleting(id)
        BY <1>2, <2>2, <3>2 DEF NotesInv, FateInv
      <4>. QED
        BY <1>1, <3>2, <4>1, ShrunkHolds
    <3>. QED
      BY <3>1, <3>2
  <2>3. \A e \in Devices : \A i \in Slots(e)' :
          outbox'[e][i].note # NoNote /\ fate'[outbox'[e][i].note] = "deleted" =>
              \E j \in Slots(e)' : /\ i < j /\ outbox'[e][j].id = outbox'[e][i].id
                                   /\ outbox'[e][j].note = NoNote
    BY <1>1, <1>2, ShrunkApart
  <2>. QED
    BY <2>1, <2>2, <2>3 DEF FateInv
<1>. QED
  BY <1>8, <1>9 DEF NotesInv

\* ... or refuses it: the note it carried, or would have removed, is refused.
LEMMA NoteRefused ==
    ASSUME TypeOK, NotesInv, NEW d \in Devices, Refuse(d)
    PROVE  NotesInv'
<1>. DEFINE op == outbox[d][1]
            m  == IF op.note = NoNote THEN server[op.id] ELSE op.note
<1>1. Shrunk(d) /\ Head(outbox[d]) = op
  BY ShrunkQueue DEF Refuse
<1>2. /\ server' = server /\ posted' = posted /\ used' = used
      /\ fate' = IF m = NoNote THEN fate ELSE [fate EXCEPT ![m] = "refused"]
  BY <1>1 DEF Refuse
<1>3. op.id \in Ids /\ op.note \in Notes \cup {NoNote} /\ m \in Notes \cup {NoNote}
  BY <1>1, ShrunkHolds DEF TypeOK
<1>4. /\ \A n \in Notes : IF n = m THEN fate'[n] = "refused" ELSE fate'[n] = fate[n]
      /\ \A n \in Notes : fate[n] \in Sent => fate'[n] \in Sent
  BY <1>2, <1>3, NotesAssumption DEF TypeOK, Sent
<1>5. /\ \A p \in posted : p[2] \in Notes
      /\ \A id \in Ids : server[id] \in Notes \cup {NoNote}
      /\ \A e \in Devices : \A i \in Slots(e)' : outbox'[e][i].note \in Notes \cup {NoNote}
  <2>1. \A e \in Devices : \A i \in Slots(e)' : outbox'[e][i].note \in Notes \cup {NoNote}
    BY <1>1, SlotTyped DEF Shrunk
  <2>. QED
    BY <2>1 DEF TypeOK
<1>m. /\ op.note = NoNote => m = server[op.id]
      /\ op.note # NoNote => m = op.note
  OBVIOUS
<1>. HIDE DEF m, op
<1>6. PlaceInv'
  <2>1. /\ \A id \in Ids : server'[id] # NoNote => id \in used' /\ <<id[1], server'[id]>> \in posted'
        /\ \A id, jd \in Ids : server'[id] = server'[jd] /\ server'[id] # NoNote => id = jd
    BY <1>2 DEF NotesInv, PlaceInv
  <2>2. \A p \in posted' : fate'[p[2]] \in Sent
    BY <1>2, <1>4, <1>5 DEF NotesInv, PlaceInv
  <2>3. \A e \in Devices : \A i \in Slots(e)' :
          /\ outbox'[e][i].id \in used
          /\ outbox'[e][i].note # NoNote =>
                /\ Signed(outbox'[e][i].id) => server[outbox'[e][i].id] = NoNote
                /\ fate[outbox'[e][i].note] \in Sent
                /\ \A p \in posted : p[2] # outbox'[e][i].note
    BY <1>1 DEF Shrunk, NotesInv, PlaceInv
  <2>4. \A a, b \in Devices : \A i \in Slots(a)', j \in Slots(b)' :
          /\ outbox'[a][i].note # NoNote /\ outbox'[b][j].note # NoNote
          /\ \/ outbox'[a][i].id = outbox'[b][j].id /\ Signed(outbox'[a][i].id)
             \/ outbox'[a][i].note = outbox'[b][j].note
          => a = b /\ i = j
    BY <1>1, ShrunkApart
  <2>. QED
    BY <1>2, <1>4, <1>5, <2>1, <2>2, <2>3, <2>4 DEF PlaceInv
<1>7. FateInv'
  <2>1. ASSUME NEW n \in Notes, fate'[n] = "accepted"
        PROVE  \E id \in Ids : Signed(id) /\ Holds(n, id)' /\ ~Deleting(id)'
    <3>1. n # m /\ fate[n] = "accepted"
      BY <1>4, <2>1
    <3>2. PICK id \in Ids : Signed(id) /\ Holds(n, id) /\ ~Deleting(id)
      BY <3>1 DEF NotesInv, FateInv
    <3>3. op.note # n
      BY <1>m, <3>1, NotesAssumption
    <3>4. ~Deleting(id)'
      BY <1>1, <3>2, ShrunkHolds DEF op
    <3>5. \/ server[id] = n
          \/ op.id = id /\ op.note = n
          \/ \E e \in Devices : \E i \in Slots(e)' :
                outbox'[e][i].id = id /\ outbox'[e][i].note = n
      BY <1>1, <3>2, ShrunkHolds DEF op
    <3>6. Holds(n, id)'
      BY <1>2, <3>3, <3>5 DEF Holds
    <3>. QED
      BY <3>2, <3>4, <3>6
  <2>2. ASSUME NEW id \in Ids, server'[id] # NoNote, fate'[server'[id]] = "deleted"
        PROVE  Deleting(id)'
    <3>1. server[id] # m /\ fate[server[id]] = "deleted" /\ server[id] # NoNote
      BY <1>2, <1>4, <1>5, <2>2
    <3>2. Deleting(id)
      BY <3>1 DEF NotesInv, FateInv
    <3>3. Deleting(id)' \/ (op.note = NoNote /\ op.id = id)
      BY <1>1, <3>2, ShrunkHolds DEF op
    <3>. QED
      BY <1>m, <3>1, <3>3
  <2>3. \A e \in Devices : \A i \in Slots(e)' :
          outbox'[e][i].note # NoNote /\ fate'[outbox'[e][i].note] = "deleted" =>
              \E j \in Slots(e)' : /\ i < j /\ outbox'[e][j].id = outbox'[e][i].id
                                   /\ outbox'[e][j].note = NoNote
    <3>1. \A n \in Notes : fate'[n] = "deleted" => fate[n] = "deleted"
      BY <1>4
    <3>. QED
      BY <1>1, <1>5, <3>1, ShrunkApart
  <2>. QED
    BY <2>1, <2>2, <2>3 DEF FateInv
<1>. QED
  BY <1>6, <1>7 DEF NotesInv

--------------------------------------------------------------------------------
(* What a device shows, and what it may delete *)

\* What a device shows has been saved, by nobody who is still saving it elsewhere.
LEMMA VisibleIsSeen ==
    ASSUME TypeOK, NotesInv, NEW d \in Devices, NEW id \in Ids, Visible(d, id) # NoNote
    PROVE  Seen(d, id) /\ Visible(d, id) \in Notes /\ fate[Visible(d, id)] \in Sent
<1>1. CASE server[id] = Visible(d, id)
  <2>1. server[id] # NoNote
    BY <1>1
  <2>2. Seen(d, id)
    <3>1. id \in used
      BY <2>1 DEF NotesInv, PlaceInv
    <3>2. Signed(id) => \A e \in Devices : \A i \in Slots(e) :
              outbox[e][i].id = id => outbox[e][i].note = NoNote
      BY <2>1 DEF NotesInv, PlaceInv
    <3>. QED
      BY <3>1, <3>2 DEF Seen
  <2>3. server[id] \in Notes
    BY <2>1 DEF TypeOK
  <2>4. fate[server[id]] \in Sent
    BY <2>1 DEF NotesInv, PlaceInv
  <2>. QED
    BY <1>1, <2>2, <2>3, <2>4
<1>2. ASSUME NEW i \in Slots(d), outbox[d][i].id = id, outbox[d][i].note = Visible(d, id)
      PROVE  Seen(d, id) /\ Visible(d, id) \in Notes /\ fate[Visible(d, id)] \in Sent
  <2>1. outbox[d][i].note \in Notes
    BY <1>2, SlotTyped
  <2>2. Seen(d, id)
    BY <1>2 DEF Seen, NotesInv, PlaceInv
  <2>. QED
    BY <1>2, <2>1, <2>2 DEF NotesInv, PlaceInv
<1>. QED
  BY <1>1, <1>2, VisibleSource

\* How a step may change the queues: nothing an author may have seen is written.
Unseen(op) == Signed(op.id) /\ op.note # NoNote => op.id \notin used
Moves ==
    /\ used \subseteq used'
    /\ \/ outbox' = outbox
       \/ \E d \in Devices : Shrunk(d)
       \/ \E d \in Devices : \E op \in Op : Grown(d, op) /\ Unseen(op)

LEMMA SeenStays ==
    ASSUME NEW a \in Devices, NEW id, Seen(a, id), Moves
    PROVE  Seen(a, id)'
<1>1. CASE outbox' = outbox
  BY <1>1 DEF Moves, Seen, Slots
<1>2. CASE \E d \in Devices : Shrunk(d)
  BY <1>2 DEF Moves, Seen, Shrunk
<1>3. ASSUME NEW d \in Devices, NEW op \in Op, Grown(d, op), Unseen(op)
      PROVE  Seen(a, id)'
  <2>1. id \in used /\ used \subseteq used'
    BY DEF Moves, Seen
  <2>2. ASSUME Signed(id), NEW e \in Devices \ {a}, NEW i \in Slots(e)', outbox'[e][i].id = id
        PROVE  outbox'[e][i].note = NoNote
    <3>1. CASE i \in Slots(e)
      BY <1>3, <2>2, <3>1 DEF Grown, Seen
    <3>2. CASE outbox'[e][i] = op
      BY <1>3, <2>1, <2>2, <3>2 DEF Unseen
    <3>. QED
      BY <1>3, <3>1, <3>2 DEF Grown
  <2>. QED
    BY <2>1, <2>2 DEF Seen
<1>. QED
  BY <1>1, <1>2, <1>3 DEF Moves

\* Where what a page lists, and what a run is about to delete, come from.
Listed ==
    /\ \A d \in Devices : \A id \in device'[d].list :
          id \in device[d].list \/ (id \in Ids /\ Visible(d, id) # NoNote)
    /\ \A f \in Flows : flows'[f].pc = "delete" =>
          \/ flows[f].pc = "delete" /\ flows'[f].dev = flows[f].dev /\ flows'[f].target = flows[f].target
          \/ flows'[f].target \in device[flows'[f].dev].list

LEMMA SeenStep ==
    ASSUME TypeOK, TypeOK', NotesInv, SeenInv, Moves, Listed
    PROVE  SeenInv'
<1>1. ASSUME NEW d \in Devices, NEW id \in device'[d].list
      PROVE  Seen(d, id)'
  <2>1. Seen(d, id)
    BY VisibleIsSeen DEF Listed, SeenInv
  <2>. QED
    BY <2>1, SeenStays
<1>2. ASSUME NEW f \in Flows, flows'[f].pc = "delete"
      PROVE  Seen(flows[f].dev, flows[f].target)'
  <2>1. flows'[f].dev \in Devices
    BY DEF TypeOK, Flow
  <2>2. Seen(flows'[f].dev, flows'[f].target)
    BY <1>2, <2>1 DEF Listed, SeenInv
  <2>. QED
    BY <2>1, <2>2, SeenStays
<1>. QED
  BY <1>1, <1>2 DEF SeenInv

\* Every step but Send keeps or ends each submission, with its text.
SendsGoOn ==
    \A f \in Flows : flows'[f].pc = "send" =>
       /\ flows[f].pc = "send" /\ flows'[f].note = flows[f].note /\ flows'[f].dev = flows[f].dev
       /\ TextOf(f)' = TextOf(f)
       /\ flows'[f].onPage => device'[flows[f].dev].open
       /\ fate'[flows[f].note] = fate[flows[f].note]

LEMMA SendsStay ==
    ASSUME SendInv, SendsGoOn
    PROVE  SendInv'
BY DEF SendInv, SendsGoOn

LEMMA FlowEnds ==
    ASSUME TypeOK, NEW f \in Flows, End(f)
    PROVE  /\ \A g \in Flows \ {f} : flows'[g] = flows[g]
           /\ flows'[f].pc = "idle"
BY DEF End, TypeOK, IdleFlow

--------------------------------------------------------------------------------
(* The invariant of patient users *)

KeptInv == DeletesInv /\ NotesInv /\ SeenInv /\ SendInv

\* What a step has to show; each conjunct was proved enough above.
LEMMA KeptIfMoved ==
    ASSUME KeptInv, [Next]_vars, NotesInv', Moves, Listed, SendsGoOn
    PROVE  KeptInv'
<1>1. DeletesInv'
  BY DeletesStep DEF KeptInv
<1>2. TypeOK /\ TypeOK' /\ SeenInv /\ SendInv /\ NotesInv
  BY <1>1 DEF KeptInv, DeletesInv
<1>. QED
  BY <1>1, <1>2, SeenStep, SendsStay DEF KeptInv

\* Steps that write nothing, by what they do to the runs and the pages.
LEMMA KeptIfIdle ==
    ASSUME KeptInv, [Next]_vars, UNCHANGED <<server, outbox, used, posted>>, Listed, SendsGoOn,
           \A n \in Notes : fate'[n] = fate[n] \/ (fate[n] \notin Sent /\ fate'[n] \notin Sent)
    PROVE  KeptInv'
<1>1. NotesInv'
  BY NothingWritten DEF KeptInv, DeletesInv
<1>2. Moves
  BY DEF Moves
<1>. QED
  BY <1>1, <1>2, KeptIfMoved

LEMMA KeptInit == Init => KeptInv
<1>. SUFFICES ASSUME Init
              PROVE  NotesInv /\ SeenInv /\ SendInv
  BY DeletesInit DEF KeptInv
<1>1. \A d \in Devices : Slots(d) = {}
  BY DEF Init, Slots
<1>2. \A n \in Notes : fate[n] = "unwritten"
  BY DEF Init
<1>3. PlaceInv
  BY <1>1 DEF PlaceInv, Init
<1>4. FateInv
  BY <1>1, <1>2 DEF FateInv, Init
<1>5. SeenInv
  BY DEF SeenInv, Init, StartPage, IdleFlow
<1>6. SendInv
  BY DEF SendInv, Init, IdleFlow
<1>. QED
  BY <1>3, <1>4, <1>5, <1>6 DEF NotesInv

\* A device changes its page: other devices keep theirs.
LEMMA PageChanges ==
    ASSUME TypeOK, NEW d \in Devices, NEW p, device' = [device EXCEPT ![d] = p]
    PROVE  /\ device'[d] = p
           /\ \A e \in Devices \ {d} : device'[e] = device[e]
           /\ \A f \in Flows : flows[f] \in Flow /\ flows[f].dev \in Devices
           /\ device[d] \in Page
BY DEF TypeOK, Flow

LEMMA LoginKeeps ==
    ASSUME KeptInv, NEW d \in Devices, NEW u \in Users, Login(d, u), Next
    PROVE  KeptInv'
<1>0. TypeOK /\ SendInv /\ SubmissionsHaveText
  BY DEF KeptInv, DeletesInv
<1>1. /\ device'[d] = StartPage(u)
      /\ \A e \in Devices \ {d} : device'[e] = device[e]
      /\ \A f \in Flows : flows[f].dev \in Devices
      /\ ~device[d].open /\ flows' = flows /\ fate' = fate
  BY <1>0, PageChanges DEF Login, history, SubmissionsHaveText
<1>2. Listed
  BY <1>1, FreshPages DEF Listed
<1>3. SendsGoOn
  <2>1. \A f \in Flows : flows[f].pc = "send" /\ flows[f].onPage => flows[f].dev # d
    BY <1>0, <1>1 DEF SendInv
  <2>. QED
    BY <1>0, <1>1, <2>1 DEF SendsGoOn, TextOf, SendInv
<1>. QED
  BY <1>1, <1>2, <1>3, KeptIfIdle DEF Login, cloud, history

\* Pages close: their submissions take the text with them.
LEMMA LeaveKeeps ==
    ASSUME KeptInv, NEW d \in Devices, NEW p \in Page, flows' = Leave(d), fate' = fate,
           device' = [device EXCEPT ![d] = p], ~p.open, p.list = {}
    PROVE  Listed /\ SendsGoOn
<1>0. TypeOK /\ SendInv
  BY DEF KeptInv, DeletesInv
<1>1. /\ device'[d] = p
      /\ \A e \in Devices \ {d} : device'[e] = device[e]
      /\ \A f \in Flows : flows[f] \in Flow /\ flows[f].dev \in Devices
  BY <1>0, PageChanges
<1>2. ASSUME NEW f \in Flows
      PROVE  /\ flows'[f].pc = flows[f].pc /\ flows'[f].dev = flows[f].dev
             /\ flows'[f].note = flows[f].note /\ flows'[f].target = flows[f].target
             /\ IF f \in RunsOn(d) /\ flows[f].onPage
                THEN ~flows'[f].onPage /\ flows'[f].text = device[d].comment
                ELSE flows'[f] = flows[f]
  <2>1. flows'[f] = IF f \in RunsOn(d) /\ flows[f].onPage
                    THEN [flows[f] EXCEPT !.onPage = FALSE, !.text = device[d].comment]
                    ELSE flows[f]
    BY DEF Leave
  <2>2. flows[f] \in Flow
    BY <1>1
  <2>. QED
    BY <2>1, <2>2 DEF Flow
<1>3. Listed
  BY <1>1, <1>2 DEF Listed
<1>4. ASSUME NEW f \in Flows, flows'[f].pc = "send"
      PROVE  /\ TextOf(f)' = TextOf(f)
             /\ flows'[f].onPage => device'[flows[f].dev].open
  <2>0. flows[f].pc = "send" /\ (flows[f].onPage => device[flows[f].dev].open)
    BY <1>0, <1>2, <1>4 DEF SendInv
  <2>1. CASE flows[f].dev = d
    <3>1. f \in RunsOn(d)
      BY <2>0, <2>1 DEF RunsOn, Active
    <3>2. ~flows'[f].onPage /\ TextOf(f)' = TextOf(f)
      BY <1>2, <2>1, <3>1 DEF TextOf
    <3>. QED
      BY <2>1, <3>2
  <2>2. CASE flows[f].dev # d
    <3>1. flows'[f] = flows[f]
      BY <1>2, <2>2 DEF RunsOn
    <3>. QED
      BY <1>1, <2>0, <2>2, <3>1 DEF TextOf
  <2>. QED
    BY <2>1, <2>2
<1>5. SendsGoOn
  BY <1>2, <1>4 DEF SendsGoOn
<1>. QED
  BY <1>3, <1>5

\* Only the session changes, or UserBloc's copy of it: the submissions go on.
LEMMA SessionKeeps ==
    ASSUME KeptInv, NEW d \in Devices, NEW u \in Users \cup {NoUser}, UNCHANGED <<flows, fate>>,
           device' = [device EXCEPT ![d].user = u] \/ device' = [device EXCEPT ![d].ub = u]
    PROVE  Listed /\ SendsGoOn
<1>0. TypeOK /\ SendInv
  BY DEF KeptInv, DeletesInv
<1>1. \A f \in Flows : flows[f].dev \in Devices
  BY <1>0, FlowValues
<1>2. \A e \in Devices : /\ device'[e].open = device[e].open
                         /\ device'[e].comment = device[e].comment
                         /\ device'[e].list = device[e].list
  BY <1>0, SessionChanges
<1>3. Listed
  BY <1>2 DEF Listed
<1>4. SendsGoOn
  BY <1>0, <1>1, <1>2 DEF SendsGoOn, TextOf, SendInv
<1>. QED
  BY <1>3, <1>4

\* handleSubmit, for a user who waits: no other submission of the device is on.
LEMMA SendKeeps ==
    ASSUME KeptInv, Waits, NEW f \in Flows, NEW d \in Devices, NEW n \in Notes, Send(f, d, n), Next
    PROVE  KeptInv'
<1>0. TypeOK /\ SendInv /\ NotesInv /\ SeenInv /\ SubmissionsHaveText
  BY DEF KeptInv, DeletesInv
<1>1. /\ flows'[f] = [IdleFlow EXCEPT !.pc = "send", !.dev = d, !.onPage = TRUE, !.note = n]
      /\ \A g \in Flows \ {f} : flows'[g] = flows[g]
      /\ device'[d] = [device[d] EXCEPT !.comment = n, !.loading = TRUE, !.list = {}]
      /\ \A e \in Devices \ {d} : device'[e] = device[e]
      /\ fate'[n] = "submitted"
      /\ \A m \in Notes \ {n} : fate'[m] = fate[m]
      /\ fate[n] = "unwritten"
  BY <1>0 DEF Send, TypeOK
<1>2. /\ flows'[f].pc = "send" /\ flows'[f].dev = d /\ flows'[f].onPage /\ flows'[f].note = n
      /\ device[d] \in Page /\ device[d].user \in Users \cup {NoUser}
      /\ \A g \in Flows : flows[g].dev \in Devices
  BY <1>0, <1>1, SessionTyped, FlowValues DEF IdleFlow
<1>3. /\ device'[d].comment = n /\ device'[d].list = {}
      /\ device'[d].open = device[d].open /\ device'[d].user = device[d].user
      /\ device[d].open
  <2>1. device[d] \in Page /\ device'[d] = [device[d] EXCEPT !.comment = n, !.loading = TRUE, !.list = {}]
    BY <1>1, <1>2
  <2>2. device[d].open
    BY DEF Send
  <2>. QED
    BY <2>1, <2>2 DEF Page
<1>a. /\ \A g \in Flows \ {f} : flows'[g] = flows[g]
      /\ \A e \in Devices \ {d} : device'[e] = device[e]
  BY <1>1
<1>4. Listed
  <2>1. flows'[f].pc # "delete"
    BY <1>2
  <2>. QED
    BY <1>3, <1>a, <2>1 DEF Listed
<1>6. \A g \in Flows : flows[g].pc = "send" => flows[g].dev # d /\ flows[g].note # n
  <2>1. \A g \in Flows : flows[g].pc = "send" => g \notin RunsOn(d)
    BY DEF Send, MayAct, Waits
  <2>. QED
    BY <1>0, <1>1, <2>1 DEF RunsOn, Active, SendInv
<1>7. ASSUME NEW g \in Flows, flows'[g].pc = "send"
      PROVE  /\ flows'[g].note \in Notes /\ fate'[flows'[g].note] = "submitted"
             /\ TextOf(g)' = flows'[g].note
             /\ flows'[g].onPage => device'[flows'[g].dev].open
             /\ \A h \in Flows : flows'[h].pc = "send" /\ h # g =>
                   flows'[h].note # flows'[g].note /\ flows'[h].dev # flows'[g].dev
  <2>1. CASE g = f
    <3>1. TextOf(f)' = n
      BY <1>2, <1>3 DEF TextOf
    <3>2. \A h \in Flows : flows'[h].pc = "send" /\ h # f => flows'[h].note # n /\ flows'[h].dev # d
      BY <1>6, <1>a
    <3>3. fate'[n] = "submitted"
      BY <1>1
    <3>. QED
      BY <1>2, <1>3, <2>1, <3>1, <3>2, <3>3
  <2>2. CASE g # f
    <3>1. flows'[g] = flows[g] /\ flows[g].dev # d /\ flows[g].note # n
      BY <1>1, <1>6, <1>7, <2>2
    <3>2. device'[flows[g].dev] = device[flows[g].dev]
      BY <1>1, <1>2, <3>1
    <3>3. TextOf(g)' = TextOf(g)
      BY <3>1, <3>2 DEF TextOf
    <3>4. \A h \in Flows : flows'[h].pc = "send" /\ h # g =>
              flows'[h].note # flows[g].note /\ flows'[h].dev # flows[g].dev
      <4>1. \A h \in Flows \ {f} : flows'[h].pc = "send" /\ h # g =>
                flows'[h].note # flows[g].note /\ flows'[h].dev # flows[g].dev
        BY <1>0, <1>7, <1>a, <3>1 DEF SendInv
      <4>. QED
        BY <1>2, <3>1, <4>1
    <3>. QED
      BY <1>0, <1>1, <1>7, <3>1, <3>2, <3>3, <3>4 DEF SendInv
  <2>. QED
    BY <2>1, <2>2
<1>8. SendInv'
  BY <1>7 DEF SendInv
<1>9. NotesInv'
  <2>1. \A m \in Notes : fate'[m] = fate[m] \/ (fate[m] \notin Sent /\ fate'[m] \notin Sent)
    BY <1>1 DEF Sent
  <2>. QED
    BY <1>0, <2>1, NothingWritten DEF Send, cloud
<1>10. DeletesInv'
  BY DeletesStep DEF KeptInv
<1>11. SeenInv'
  <2>1. Moves
    BY DEF Moves, Send, cloud
  <2>. QED
    BY <1>0, <1>4, <1>10, <2>1, SeenStep DEF DeletesInv
<1>. QED
  BY <1>8, <1>9, <1>10, <1>11 DEF KeptInv

\* A run that ends leaves the other submissions as they are.
LEMMA EndKeeps ==
    ASSUME KeptInv, NEW f \in Flows, End(f), UNCHANGED device,
           \A n \in Notes : \/ fate'[n] = fate[n]
                            \/ fate[n] # "submitted"
                            \/ flows[f].pc = "send" /\ n = flows[f].note
    PROVE  Listed /\ SendsGoOn
<1>0. TypeOK /\ SendInv
  BY DEF KeptInv, DeletesInv
<1>1. /\ \A g \in Flows \ {f} : flows'[g] = flows[g]
      /\ flows'[f].pc = "idle"
  BY <1>0, FlowEnds
<1>2. Listed
  BY <1>1 DEF Listed
<1>3. ASSUME NEW g \in Flows, flows'[g].pc = "send"
      PROVE  /\ flows[g].pc = "send" /\ flows'[g].note = flows[g].note /\ flows'[g].dev = flows[g].dev
             /\ TextOf(g)' = TextOf(g)
             /\ flows'[g].onPage => device'[flows[g].dev].open
             /\ fate'[flows[g].note] = fate[flows[g].note]
  <2>1. g # f /\ flows'[g] = flows[g]
    BY <1>1, <1>3
  <2>2. TextOf(g)' = TextOf(g)
    BY <2>1 DEF TextOf
  <2>3. fate'[flows[g].note] = fate[flows[g].note]
    BY <1>0, <1>3, <2>1 DEF SendInv
  <2>4. flows[g].onPage => device[flows[g].dev].open
    BY <1>0, <1>3, <2>1 DEF SendInv
  <2>. QED
    BY <1>3, <2>1, <2>2, <2>3, <2>4
<1>. QED
  BY <1>2, <1>3 DEF SendsGoOn

LEMMA SaveKeeps ==
    ASSUME KeptInv, Waits, NEW f \in Flows, SaveNewComment(f), Next
    PROVE  KeptInv'
<1>. DEFINE d  == flows[f].dev
            u  == device[d].user
            op == [id |-> NoteId(u), note |-> TextOf(f), by |-> u]
<1>0. TypeOK /\ SendInv /\ NotesInv
  BY DEF KeptInv, DeletesInv
<1>1. flows[f].pc = "send" /\ d \in Devices
  BY <1>0, FlowValues DEF SaveNewComment
<1>2. /\ u \in Users \cup {NoUser} /\ TextOf(f) = flows[f].note
      /\ TextOf(f) \in Notes /\ fate[TextOf(f)] = "submitted"
  BY <1>0, <1>1, SessionTyped DEF SendInv
<1>3. NoteId(u) \in Ids /\ NoteId(u) = <<u, now>>
  BY <1>0, <1>2 DEF NoteId, Ids, TypeOK
<1>4. /\ u # NoUser => <<u, now>> \notin used
      /\ used' = used \cup {<<u, now>>}
      /\ fate' = [fate EXCEPT ![flows[f].note] = IF u = NoUser THEN "unsigned" ELSE "accepted"]
      /\ Enqueue(d, NoteId(u), TextOf(f)) /\ End(f)
      /\ UNCHANGED <<server, device, posted>>
  BY DEF SaveNewComment, Waits
<1>5. Grown(d, op)
  <2>1. /\ outbox'[d] = Append(outbox[d], op)
        /\ \A e \in Devices \ {d} : outbox'[e] = outbox[e]
    BY <1>0, <1>1, <1>2, <1>3, <1>4, EnqueueTyped
  <2>. QED
    BY <1>0, <1>1, <2>1, GrownQueue
<1>6. /\ op.id = <<u, now>> /\ op.note = flows[f].note /\ op \in Op
      /\ Signed(op.id) <=> u # NoUser
  BY <1>2, <1>3 DEF Op, Signed
<1>. HIDE DEF d, u, op
<1>7. NotesInv'
  <2>1. op.id \in Ids /\ (Signed(op.id) => op.id \notin used) /\ used' = used \cup {op.id}
    BY <1>3, <1>4, <1>6
  <2>2. /\ op.note \in Notes /\ fate[op.note] = "submitted"
        /\ fate' = [fate EXCEPT ![op.note] = IF Signed(op.id) THEN "accepted" ELSE "unsigned"]
    BY <1>2, <1>4, <1>6
  <2>3. UNCHANGED <<server, posted>>
    BY <1>4
  <2>. QED
    BY <1>0, <1>1, <1>5, <2>1, <2>2, <2>3, NoteSaved
<1>8. Moves
  BY <1>1, <1>4, <1>5, <1>6 DEF Moves, Unseen
<1>9. \A n \in Notes \ {flows[f].note} : fate'[n] = fate[n]
  BY <1>0, <1>4 DEF TypeOK
<1>10. Listed /\ SendsGoOn
  BY <1>1, <1>4, <1>9, EndKeeps
<1>. QED
  BY <1>7, <1>8, <1>10, KeptIfMoved

LEMMA DeleteKeeps ==
    ASSUME KeptInv, NEW f \in Flows, DeleteChecked(f), Next
    PROVE  KeptInv'
<1>. DEFINE d  == flows[f].dev
            id == flows[f].target
            m  == Visible(d, id)
            op == [id |-> id, note |-> NoNote, by |-> device[d].user]
<1>0. TypeOK /\ SendInv /\ NotesInv /\ SeenInv
  BY DEF KeptInv, DeletesInv
<1>1. /\ d \in Devices /\ id \in Ids
      /\ flows[f].pc = "delete" /\ End(f) /\ UNCHANGED <<server, device, used, posted>>
  BY <1>0, FlowValues DEF DeleteChecked
<1>2. CASE id[1] = device[d].user
  <2>1. Enqueue(d, id, NoNote) /\ fate' = IF m = NoNote THEN fate ELSE [fate EXCEPT ![m] = "deleted"]
    BY <1>2 DEF DeleteChecked, DeleteComment
  <2>2. op \in Op /\ op.id = id /\ op.note = NoNote
    BY <1>0, <1>1, SessionTyped DEF Op
  <2>3. Grown(d, op)
    <3>1. /\ outbox'[d] = Append(outbox[d], op)
          /\ \A e \in Devices \ {d} : outbox'[e] = outbox[e]
      BY <1>0, <1>1, <2>1, EnqueueTyped
    <3>. QED
      BY <1>0, <1>1, <3>1, GrownQueue
  <2>4. Seen(d, id)
    BY <1>0, <1>1 DEF SeenInv
  <2>5. m # NoNote => m \in Notes /\ fate[m] \in Sent
    BY <1>0, <1>1, VisibleIsSeen
  <2>6. \A n \in Notes : fate'[n] = fate[n] \/ fate[n] # "submitted"
    BY <1>0, <2>1, <2>5 DEF TypeOK, Sent
  <2>. HIDE DEF d, id, op
  <2>7. NotesInv'
    BY <1>0, <1>1, <2>1, <2>2, <2>3, <2>4, NoteDeleted
  <2>8. Moves
    BY <1>1, <2>2, <2>3 DEF Moves, Unseen
  <2>9. Listed /\ SendsGoOn
    BY <1>1, <2>6, EndKeeps
  <2>. QED
    BY <2>7, <2>8, <2>9, KeptIfMoved
<1>3. CASE id[1] # device[d].user
  <2>1. outbox' = outbox /\ fate' = fate
    BY <1>3 DEF DeleteChecked
  <2>2. Listed /\ SendsGoOn
    BY <1>1, <2>1, EndKeeps
  <2>. QED
    BY <1>1, <2>1, <2>2, KeptIfIdle
<1>. QED
  BY <1>2, <1>3

\* checkInternet finds no connection: the note was not saved, and is dropped.
LEMMA NoInternetKeeps ==
    ASSUME KeptInv, NEW f \in Flows, NoInternet(f), Next
    PROVE  KeptInv'
<1>0. TypeOK /\ SendInv
  BY DEF KeptInv, DeletesInv
<1>1. /\ End(f) /\ UNCHANGED <<server, outbox, device, used, posted>>
      /\ fate' = IF flows[f].pc = "send" THEN [fate EXCEPT ![flows[f].note] = "dropped"] ELSE fate
  BY DEF NoInternet, cloud
<1>2. /\ \A n \in Notes : fate'[n] = fate[n] \/ (flows[f].pc = "send" /\ n = flows[f].note)
      /\ \A n \in Notes : fate'[n] = fate[n] \/ (fate[n] \notin Sent /\ fate'[n] \notin Sent)
  BY <1>0, <1>1 DEF TypeOK, SendInv, Sent
<1>3. Listed /\ SendsGoOn
  BY <1>1, <1>2, EndKeeps
<1>. QED
  BY <1>1, <1>2, <1>3, KeptIfIdle

\* A process dies: its submissions are dropped, those of other devices go on.
LEMMA CrashKeeps ==
    ASSUME KeptInv, NEW d \in Devices, Crash(d), Next
    PROVE  KeptInv'
<1>0. TypeOK /\ SendInv
  BY DEF KeptInv, DeletesInv
<1>1. /\ device'[d] = StartPage(device[d].user)
      /\ \A e \in Devices \ {d} : device'[e] = device[e]
      /\ \A f \in Flows : flows[f].dev \in Devices
      /\ \A f \in Flows : flows'[f] = IF f \in RunsOn(d) THEN IdleFlow ELSE flows[f]
      /\ \A n \in Notes : fate'[n] = IF \E f \in RunsOn(d) : flows[f].pc = "send" /\ flows[f].note = n
                                     THEN "dropped" ELSE fate[n]
      /\ UNCHANGED <<server, outbox, used, posted>>
  BY <1>0, PageChanges DEF Crash, cloud
<1>2. IdleFlow.pc = "idle"
  BY DEF IdleFlow
<1>3. Listed
  BY <1>1, <1>2 DEF Listed, StartPage
<1>4. \A n \in Notes : fate'[n] = fate[n] \/ (fate[n] \notin Sent /\ fate'[n] \notin Sent)
  BY <1>0, <1>1 DEF SendInv, Sent, RunsOn
<1>5. ASSUME NEW f \in Flows, flows'[f].pc = "send"
      PROVE  /\ flows[f].pc = "send" /\ flows'[f].note = flows[f].note /\ flows'[f].dev = flows[f].dev
             /\ TextOf(f)' = TextOf(f)
             /\ flows'[f].onPage => device'[flows[f].dev].open
             /\ fate'[flows[f].note] = fate[flows[f].note]
  <2>1. f \notin RunsOn(d) /\ flows'[f] = flows[f] /\ flows[f].pc = "send"
    BY <1>1, <1>2, <1>5
  <2>2. flows[f].dev # d
    BY <2>1 DEF RunsOn, Active
  <2>3. device'[flows[f].dev] = device[flows[f].dev]
    BY <1>1, <2>2
  <2>4. TextOf(f)' = TextOf(f)
    BY <2>1, <2>3 DEF TextOf
  <2>5. ~ \E g \in RunsOn(d) : flows[g].pc = "send" /\ flows[g].note = flows[f].note
    BY <1>0, <2>1, <2>2 DEF RunsOn, SendInv
  <2>6. flows[f].note \in Notes /\ (flows[f].onPage => device[flows[f].dev].open)
    BY <1>0, <2>1 DEF SendInv
  <2>. QED
    BY <1>1, <2>1, <2>3, <2>4, <2>5, <2>6
<1>6. SendsGoOn
  BY <1>5 DEF SendsGoOn
<1>. QED
  BY <1>1, <1>3, <1>4, <1>6, KeptIfIdle

LEMMA KeptStep == Waits /\ KeptInv /\ [Next]_vars => KeptInv'
<1>. SUFFICES ASSUME Waits, KeptInv, [Next]_vars
              PROVE  KeptInv'
  OBVIOUS
<1>0. TypeOK /\ SendInv /\ NotesInv
  BY DEF KeptInv, DeletesInv
<1>t. \A f \in Flows : flows[f].dev \in Devices
  BY <1>0, FlowValues
<1>1. CASE UNCHANGED vars
  <2>1. Listed
    BY <1>1 DEF vars, Listed
  <2>2. SendsGoOn
    BY <1>0, <1>1 DEF vars, history, SendsGoOn, TextOf, SendInv
  <2>. QED
    BY <1>1, <2>1, <2>2, KeptIfIdle DEF vars, cloud, history
<1>2. CASE Next
  <2>1. CASE Tick
    <3>1. Listed
      BY <2>1 DEF Tick, Listed
    <3>2. SendsGoOn
      BY <1>0, <2>1 DEF Tick, history, SendsGoOn, TextOf, SendInv
    <3>. QED
      BY <2>1, <3>1, <3>2, KeptIfIdle DEF Tick, cloud, history
  <2>2. ASSUME NEW d \in Devices, Logout(d)
        PROVE  KeptInv'
    <3>1. UNCHANGED <<server, outbox, used, posted, fate>>
      BY <2>2 DEF Logout, cloud, history
    <3>2. CASE device' = [device EXCEPT ![d] = StartPage(NoUser)] /\ flows' = Leave(d)
      <4>1. StartPage(NoUser) \in Page /\ ~StartPage(NoUser).open /\ StartPage(NoUser).list = {}
        BY FreshPages
      <4>. QED
        BY <3>1, <3>2, <4>1, LeaveKeeps, KeptIfIdle
    <3>3. CASE device' = [device EXCEPT ![d].user = NoUser] /\ flows' = flows
      <4>1. Listed /\ SendsGoOn
        BY <3>1, <3>3, SessionKeeps
      <4>. QED
        BY <3>1, <4>1, KeptIfIdle
    <3>. QED
      BY <2>2, <3>2, <3>3 DEF Logout
  <2>9. ASSUME NEW d \in Devices, LoadUser(d)
        PROVE  KeptInv'
    <3>1. Listed /\ SendsGoOn
      BY <1>0, <2>9, SessionTyped, SessionKeeps DEF LoadUser, history
    <3>. QED
      BY <2>9, <3>1, KeptIfIdle DEF LoadUser, cloud, history
  <2>3. ASSUME NEW d \in Devices, ClosePage(d)
        PROVE  KeptInv'
    <3>0. /\ ClosedPage(device[d]) \in Page
          /\ ~ClosedPage(device[d]).open /\ ClosedPage(device[d]).list = {}
      BY <1>0, SessionTyped, OtherPages
    <3>1. Listed /\ SendsGoOn
      BY <2>3, <3>0, LeaveKeeps DEF ClosePage, history
    <3>. QED
      BY <2>3, <3>1, KeptIfIdle DEF ClosePage, cloud, history
  <2>4. ASSUME NEW d \in Devices, OpenPage(d)
        PROVE  KeptInv'
    <3>1. /\ device'[d] = OpenedPage(device[d]) /\ ~device[d].open
          /\ OpenedPage(device[d]).list = {}
          /\ \A e \in Devices \ {d} : device'[e] = device[e]
          /\ flows' = flows /\ fate' = fate
      BY <1>0, <2>4, PageChanges, OtherPages DEF OpenPage, history
    <3>2. Listed
      BY <3>1 DEF Listed
    <3>3. SendsGoOn
      BY <1>0, <1>t, <3>1 DEF SendsGoOn, TextOf, SendInv
    <3>. QED
      BY <2>4, <3>2, <3>3, KeptIfIdle DEF OpenPage, cloud, history
  <2>5. ASSUME NEW d \in Devices, ListAnswered(d)
        PROVE  KeptInv'
    <3>1. /\ \A e \in Devices : /\ device'[e].open = device[e].open
                                /\ device'[e].comment = device[e].comment
          /\ \A e \in Devices \ {d} : device'[e] = device[e]
          /\ device'[d].list = {id \in Ids : Visible(d, id) # NoNote /\ id[1] = device[d].ub}
          /\ flows' = flows /\ fate' = fate
      BY <1>0, <2>5 DEF ListAnswered, TypeOK, Page, history
    <3>2. Listed
      BY <3>1 DEF Listed
    <3>3. SendsGoOn
      BY <1>0, <1>t, <3>1 DEF SendsGoOn, TextOf, SendInv
    <3>. QED
      BY <2>5, <3>2, <3>3, KeptIfIdle DEF ListAnswered, cloud, history
  <2>6. ASSUME NEW d \in Devices, NEW f \in Flows, NEW id \in Ids, ConfirmDelete(f, d, id)
        PROVE  KeptInv'
    <3>1. /\ flows'[f].pc = "delete" /\ flows'[f].dev = d /\ flows'[f].target = id
          /\ \A g \in Flows \ {f} : flows'[g] = flows[g]
          /\ id \in device[d].list /\ device' = device /\ fate' = fate
      BY <1>0, <2>6 DEF ConfirmDelete, TypeOK, IdleFlow, history
    <3>2. Listed
      BY <3>1 DEF Listed
    <3>3. SendsGoOn
      <4>1. \A g \in Flows : flows'[g].pc = "send" => g # f /\ flows'[g] = flows[g]
        BY <3>1
      <4>. QED
        BY <1>0, <3>1, <4>1 DEF SendsGoOn, TextOf, SendInv
    <3>. QED
      BY <2>6, <3>2, <3>3, KeptIfIdle DEF ConfirmDelete, cloud, history
  <2>7. ASSUME NEW d \in Devices, Commit(d)
        PROVE  KeptInv'
    <3>1. Shrunk(d) /\ NotesInv'
      BY <1>0, <2>7, ShrunkQueue, NoteCommitted DEF Commit
    <3>2. Moves
      BY <2>7, <3>1 DEF Moves, Commit
    <3>3. Listed
      BY <2>7 DEF Commit, Listed
    <3>4. SendsGoOn
      BY <1>0, <2>7 DEF Commit, SendsGoOn, TextOf, SendInv
    <3>. QED
      BY <3>1, <3>2, <3>3, <3>4, KeptIfMoved
  <2>8. ASSUME NEW d \in Devices, Refuse(d)
        PROVE  KeptInv'
    <3>. DEFINE op == outbox[d][1]
                m  == IF op.note = NoNote THEN server[op.id] ELSE op.note
    <3>1. Shrunk(d) /\ NotesInv' /\ Head(outbox[d]) = op
      BY <1>0, <2>8, ShrunkQueue, NoteRefused DEF Refuse
    <3>2. Moves
      BY <2>8, <3>1 DEF Moves, Refuse
    <3>3. fate' = IF m = NoNote THEN fate ELSE [fate EXCEPT ![m] = "refused"]
      BY <2>8, <3>1 DEF Refuse
    <3>4. op.id \in Ids /\ op.note \in Notes \cup {NoNote}
      BY <1>0, <3>1, ShrunkHolds
    <3>5. m # NoNote => fate[m] \in Sent
      <4>1. CASE op.note = NoNote
        BY <1>0, <3>4, <4>1 DEF NotesInv, PlaceInv
      <4>2. CASE op.note # NoNote
        BY <1>0, <3>1, <4>2 DEF NotesInv, PlaceInv, Shrunk
      <4>. QED
        BY <4>1, <4>2
    <3>. HIDE DEF m
    <3>6. \A n \in Notes : fate[n] = "submitted" => fate'[n] = fate[n]
      BY <1>0, <3>3, <3>5 DEF TypeOK, Sent
    <3>7. Listed
      BY <2>8 DEF Refuse, Listed
    <3>8. SendsGoOn
      BY <1>0, <2>8, <3>6 DEF Refuse, SendsGoOn, TextOf, SendInv
    <3>. QED
      BY <3>1, <3>2, <3>7, <3>8, KeptIfMoved
  <2>. QED
    BY <1>2, <2>1, <2>2, <2>3, <2>4, <2>5, <2>6, <2>7, <2>8, <2>9,
       LoginKeeps, SendKeeps, SaveKeeps, DeleteKeeps, NoInternetKeeps, CrashKeeps DEF Next
<1>. QED
  BY <1>1, <1>2

\* Under a user who waits, names, notes and deletes keep their places.
THEOREM NotesKeptInv ==
    ASSUME Waits
    PROVE  Spec => []KeptInv
<1>1. KeptInv /\ [Next]_vars => KeptInv'
  BY KeptStep
<1>. QED
  BY <1>1, KeptInit, PTL DEF Spec

\* No note whose submission ended without an error in a session is lost (handleSubmit,
\* saveNewComment, whose write nobody awaits), for users who wait for the answer.
THEOREM NotesAreKept ==
    ASSUME Waits
    PROVE  Spec => []NoteKept
<1>1. KeptInv => NoteKept
  <2>. SUFFICES ASSUME KeptInv, NEW n \in Notes, fate[n] = "accepted"
                PROVE  \E d \in Devices, id \in Ids : Visible(d, id) = n
    BY DEF NoteKept
  <2>0. TypeOK /\ PlaceInv
    BY DEF KeptInv, DeletesInv, NotesInv
  <2>1. PICK id \in Ids : Signed(id) /\ Holds(n, id) /\ ~Deleting(id)
    BY DEF KeptInv, NotesInv, FateInv
  <2>2. n # NoNote
    BY NotesAssumption
  <2>3. \E d \in Devices : \A e \in Devices \ {d} : \A i \in Slots(e) :
            outbox[e][i].id = id => outbox[e][i].note = NoNote
    <3>1. CASE server[id] = n
      <4>1. \A e \in Devices : \A i \in Slots(e) : outbox[e][i].id = id => outbox[e][i].note = NoNote
        BY <2>0, <2>1, <2>2, <3>1 DEF PlaceInv
      <4>. QED
        BY <4>1, NotesAssumption
    <3>2. ASSUME NEW d \in Devices, NEW i \in Slots(d), outbox[d][i].id = id, outbox[d][i].note = n
          PROVE  \A e \in Devices \ {d} : \A j \in Slots(e) :
                     outbox[e][j].id = id => outbox[e][j].note = NoNote
      BY <2>0, <2>1, <2>2, <3>2 DEF PlaceInv
    <3>. QED
      BY <2>1, <3>1, <3>2 DEF Holds
  <2>. QED
    BY <2>0, <2>1, <2>3, HeldIsVisible
<1>. QED
  BY <1>1, NotesKeptInv, PTL

\* A note reported as deleted goes (deleteComment, queued behind the write it
\* undoes), for users who wait for the answer.
THEOREM DeletesArrive ==
    ASSUME Waits
    PROVE  Spec => []DeletedGoes
<1>1. KeptInv => DeletedGoes
  <2>. SUFFICES ASSUME KeptInv, NEW n \in Notes, NEW id \in Ids, fate[n] = "deleted", server[id] = n
                PROVE  \E d \in Devices : \E i \in Queued(d, id) : outbox[d][i].note = NoNote
    BY DEF DeletedGoes
  <2>1. Deleting(id)
    BY NotesAssumption DEF KeptInv, NotesInv, FateInv
  <2>. QED
    BY <2>1 DEF Deleting, Queued, Slots
<1>. QED
  BY <1>1, NotesKeptInv, PTL

\* The board changes only when the server takes a write.
LEMMA CommitsOnly ==
    ASSUME [Next]_vars
    PROVE  (\E d \in Devices : Commit(d)) \/ UNCHANGED <<server, posted>>
<1>. USE DEF cloud, history
<1>1. CASE UNCHANGED vars
  BY <1>1 DEF vars
<1>2. CASE Tick
  BY <1>2 DEF Tick
<1>3. ASSUME NEW d \in Devices,
             \/ \E u \in Users : Login(d, u)
             \/ Logout(d) \/ LoadUser(d) \/ OpenPage(d) \/ ClosePage(d) \/ ListAnswered(d)
             \/ Refuse(d) \/ Crash(d)
      PROVE  UNCHANGED <<server, posted>>
  BY <1>3 DEF Login, Logout, LoadUser, OpenPage, ClosePage, ListAnswered, Refuse, Crash
<1>4. ASSUME NEW d \in Devices, NEW f \in Flows,
             (\E n \in Notes : Send(f, d, n)) \/ (\E id \in Ids : ConfirmDelete(f, d, id))
      PROVE  UNCHANGED <<server, posted>>
  BY <1>4 DEF Send, ConfirmDelete
<1>5. ASSUME NEW f \in Flows, SaveNewComment(f) \/ DeleteChecked(f) \/ NoInternet(f)
      PROVE  UNCHANGED <<server, posted>>
  BY <1>5 DEF SaveNewComment, DeleteChecked, NoInternet
<1>. QED
  BY <1>1, <1>2, <1>3, <1>4, <1>5 DEF Next

\* What a commit does to the documents, and to what was ever posted.
LEMMA CommitWrites ==
    ASSUME TypeOK, NEW d \in Devices, Commit(d), NEW op, op = outbox[d][1]
    PROVE  /\ 1 \in Slots(d) /\ op.id \in Ids /\ op.note \in Notes \cup {NoNote}
           /\ \A id \in Ids : server'[id] = IF id = op.id THEN op.note ELSE server[id]
           /\ posted' = IF op.note = NoNote THEN posted ELSE posted \cup {<<op.id[1], op.note>>}
<1>1. Shrunk(d) /\ Head(outbox[d]) = op
  BY ShrunkQueue DEF Commit
<1>2. 1 \in Slots(d) /\ op.id \in Ids /\ op.note \in Notes \cup {NoNote}
  BY <1>1, ShrunkHolds DEF Shrunk
<1>. QED
  BY <1>1, <1>2 DEF Commit, TypeOK

Board == {<<id[1], server[id]>> : id \in {i \in Ids : server[i] # NoNote}}

LEMMA BoardStep ==
    ASSUME KeptInv, [Next]_vars
    PROVE  [Contract!BoardNext]_(Contract!boardVars)
<1>. USE DEF Contract!boardVars
<1>1. CASE UNCHANGED <<server, posted>>
  BY <1>1
<1>2. ASSUME NEW d \in Devices, Commit(d)
      PROVE  [Contract!BoardNext]_(Contract!boardVars)
  <2>. DEFINE op == outbox[d][1]
              p  == <<op.id[1], op.note>>
              m  == <<op.id[1], server[op.id]>>
  <2>1. TypeOK /\ PlaceInv
    BY DEF KeptInv, DeletesInv, NotesInv
  <2>2. /\ 1 \in Slots(d) /\ op.id \in Ids /\ op.note \in Notes \cup {NoNote}
        /\ \A id \in Ids : server'[id] = IF id = op.id THEN op.note ELSE server[id]
        /\ posted' = IF op.note = NoNote THEN posted ELSE posted \cup {p}
    BY <1>2, <2>1, CommitWrites
  \* The document that was there before is no other document's note.
  <2>3. server[op.id] # NoNote =>
            m \in Board /\ \A id \in Ids : server[id] = server[op.id] => id = op.id
    BY <2>1, <2>2 DEF PlaceInv, Board
  <2>4. CASE op.note # NoNote
    <3>1. /\ Signed(op.id) => server[op.id] = NoNote
          /\ \A q \in posted : q[2] # op.note
      BY <2>1, <2>2, <2>4 DEF PlaceInv
    <3>2. p \in (Users \cup {NoUser}) \X Notes /\ p[2] = op.note /\ p[1] = op.id[1]
      BY <2>2, <2>4 DEF Ids
    <3>3. p \in Contract!Pairs /\ Contract!New(p)
      BY <2>2, <2>4, <3>1, <3>2 DEF Contract!Pairs, Contract!New
    <3>4. CASE server[op.id] = NoNote
      <4>1. Board' = Board \cup {p}
        BY <2>2, <2>4, <3>4 DEF Board
      <4>2. Contract!Post(p)
        BY <4>1 DEF Contract!Post, Board
      <4>. HIDE DEF p
      <4>. QED
        BY <3>3, <4>2, Zenon DEF Contract!BoardNext, Contract!New, Contract!Post
    <3>5. CASE server[op.id] # NoNote
      <4>1. p[1] = NoUser /\ m[1] = NoUser /\ m \in Board
        BY <2>3, <3>1, <3>2, <3>5 DEF Signed
      <4>2. Board' = (Board \ {m}) \cup {p}
        BY <2>2, <2>3, <2>4, <3>5 DEF Board
      <4>3. Contract!Replace(m, p)
        BY <4>1, <4>2 DEF Contract!Replace, Board
      <4>. HIDE DEF p, m
      <4>. QED
        BY <3>3, <4>1, <4>3, Zenon DEF Contract!BoardNext, Contract!New, Contract!Replace, Board
    <3>. QED
      BY <3>4, <3>5
  <2>5. CASE op.note = NoNote /\ server[op.id] # NoNote
    <3>1. Board' = Board \ {m}
      BY <2>2, <2>3, <2>5 DEF Board
    <3>2. Contract!Remove(m)
      BY <2>2, <2>5, <3>1 DEF Contract!Remove, Board
    <3>. HIDE DEF m
    <3>. QED
      BY <2>3, <2>5, <3>2, Zenon DEF Contract!BoardNext, Contract!Remove, Board
  <2>6. CASE op.note = NoNote /\ server[op.id] = NoNote
    <3>1. Board' = Board /\ posted' = posted
      BY <2>2, <2>6 DEF Board
    <3>. QED
      BY <3>1 DEF Board
  <2>. QED
    BY <2>4, <2>5, <2>6
<1>. QED
  BY <1>1, <1>2, CommitsOnly

\* The documents on the server go through the states of a note board, whatever
\* devices, writes, refusals and crashes there are between the notes and them,
\* and whatever is sent on pages that a logout has left open.
THEOREM NotesImplementBoard ==
    ASSUME Waits
    PROVE  Spec => NotesRefineBoard
<1>1. Init => Contract!BoardInit
  BY DEF Init, Contract!BoardInit
<1>2. KeptInv /\ [Next]_vars => [Contract!BoardNext]_(Contract!boardVars)
  BY BoardStep
<1>. QED
  BY <1>1, <1>2, NotesKeptInv, PTL DEF Spec, NotesRefineBoard, Contract!BoardSpec
================================================================================
