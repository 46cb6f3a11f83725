--------------------------------- MODULE Notes ---------------------------------
(***************************************************************************)
(* The notes under one card: CommentsBloc and CommentsPage, on the phones of *)
(* several people, one of whom may use two phones.                           *)
(*                                                                         *)
(* A note is a document named by its author and the second it was sent in.   *)
(* Neither the write nor the delete is awaited: Firestore puts them in the   *)
(* device's own queue (outbox), which survives the process, shows them at    *)
(* once on that device, and has the server take them in order when it can.   *)
(* What is awaited before them is checkInternet, a platform call, and the    *)
(* page's field `comment` and the preference 'uid' are read only after it.   *)
(*                                                                         *)
(* The session of a device is one value here (Session.tla has the details).  *)
(* A logout ends it, and may leave the pages where they are; what is written *)
(* on them is nobody's.  The text of a note stands for all of its fields but *)
(* the name of the document.                                                 *)
(*                                                                         *)
(* fate, used and posted only record what happened, for the properties.      *)
(* Bounds: each of Notes is sent at most once, the clock stops at MaxSecond. *)
(*                                                                         *)
(* An operator named Bug... is a mistake one could make in the operator that *)
(* follows it, put in its place by a mutation run.                           *)
(***************************************************************************)
EXTENDS Naturals, Sequences, FiniteSetsExt

CONSTANTS
    Users,
    NoUser,      \* a device on which nobody is signed in: the uid is null
    Devices,
    Notes,       \* texts a user may send
    NoNote,      \* no document
    Flows,       \* slots for runs of handleSubmit and of a confirmed delete
    Impatient,   \* the runs a user does not wait for; with "send" among them, a
                 \* user may also send twice in a second
    MaxSecond,
    MaxRuns,     \* bound: the runs begun and not ended on one device
    Lingering,   \* bound: the devices on which a logout may leave the pages open
    MaxQueued    \* bound: nothing is sent while a device has as many writes in its
                 \* queue; a delete may be confirmed with one more before it

ASSUME NotesAssumption ==
    /\ NoUser \notin Users
    /\ Devices # {}
    /\ NoNote \notin Notes
    /\ Impatient \subseteq {"send", "delete"}
    /\ MaxSecond \in Nat
    /\ MaxQueued \in Nat

VARIABLES
    now,       \* the second shown by the clocks of the devices
    server,    \* contents/<timestamp>/comments
    outbox,    \* per device, the writes the server has not taken yet
    device,    \* per device, its session, UserBloc and CommentsPage
    flows,     \* the submissions and deletions waiting for checkInternet
    fate,      \* what became of each note
    used,      \* the seconds in which each user has sent a note
    posted     \* the notes the server has ever had, each with its author

cloud   == <<server, outbox>>
history == <<fate, used, posted>>
vars    == <<now, cloud, device, flows, history>>

--------------------------------------------------------------------------------
Seconds == 0 .. MaxSecond
Ids     == (Users \cup {NoUser}) \X Seconds

\* '$_uid$timestamp1', the name of the document of a note sent now.
BugNoteIdToTheMinute(u) == <<u, 0>>
BugNoteIdRoundsUp(u) == <<u, now + 1>>
NoteId(u) == <<u, now>>

\* A set carries a note, a delete carries none.  `by` is the session it was
\* issued under.
Op == [id : Ids, note : Notes \cup {NoNote}, by : Users \cup {NoUser}]

\* user is the preference 'uid', ub the copy of it in UserBloc; inside, whether
\* there is any page but those before the sign-in; the rest is CommentsPage.
Page == [user : Users \cup {NoUser}, ub : Users \cup {NoUser}, inside : BOOLEAN,
         open : BOOLEAN, comment : Notes \cup {NoNote}, loading : BOOLEAN,
         list : SUBSET Ids]

StartPage(u)  == [user |-> u, ub |-> u, inside |-> u # NoUser, open |-> FALSE,
                  comment |-> NoNote, loading |-> FALSE, list |-> {}]
ClosedPage(p) == [p EXCEPT !.open = FALSE, !.comment = NoNote, !.loading = FALSE, !.list = {}]
OpenedPage(p) == [p EXCEPT !.open = TRUE, !.comment = NoNote, !.loading = TRUE, !.list = {}]

\* note is what the user sent; text is the page's field when the page is left;
\* target is the document to delete.
Flow == [pc : {"idle", "send", "delete"}, dev : Devices, onPage : BOOLEAN,
         note : Notes \cup {NoNote}, text : Notes \cup {NoNote}, target : Ids]

IdleFlow == [pc |-> "idle", dev |-> CHOOSE d \in Devices : TRUE, onPage |-> FALSE,
             note |-> NoNote, text |-> NoNote, target |-> <<NoUser, 0>>]

\* An accepted note has an author, an unsigned one was sent without a session.
Fates == {"unwritten", "submitted", "dropped", "accepted", "unsigned", "deleted", "refused"}

Signed(id) == id[1] # NoUser

\* The bound on the queues: with room for k writes more on d.
Room(d, k) == \A e \in Devices : Len(outbox[e]) < MaxQueued + (IF e = d THEN k ELSE 0)

Active(f)   == flows[f].pc # "idle"
RunsOn(d)   == {f \in Flows : Active(f) /\ flows[f].dev = d}
MayAct(d)   == \A f \in RunsOn(d) : flows[f].pc \in Impatient
End(f)      == flows' = [flows EXCEPT ![f] = IdleFlow]

\* The writes to a document that a device still has in its queue, and what a
\* read on the device finds: the last of them, or the server's document.
Queued(d, id)  == {i \in 1 .. Len(outbox[d]) : outbox[d][i].id = id}
Visible(d, id) == IF Queued(d, id) = {} THEN server[id]
                  ELSE outbox[d][Max(Queued(d, id))].note

\* The text a submission saves: the State's field, as it is by now.
TextOf(f) == IF flows[f].onPage THEN device[flows[f].dev].comment ELSE flows[f].text

\* The pages of d are gone; a submission keeps the State it began in.
Leave(d) == [f \in Flows |-> IF f \in RunsOn(d) /\ flows[f].onPage
                             THEN [flows[f] EXCEPT !.onPage = FALSE, !.text = device[d].comment]
                             ELSE flows[f]]

Enqueue(d, id, n) ==
    outbox' = [outbox EXCEPT ![d] = Append(@, [id |-> id, note |-> n, by |-> device[d].user])]

--------------------------------------------------------------------------------
Init ==
    /\ now = 0
    /\ server = [id \in Ids |-> NoNote]
    /\ outbox = [d \in Devices |-> <<>>]
    /\ device = [d \in Devices |-> StartPage(NoUser)]
    /\ flows = [f \in Flows |-> IdleFlow]
    /\ fate = [n \in Notes |-> "unwritten"]
    /\ used = {}
    /\ posted = {}

\* Bound: the clock stands still when there is nothing left to send.
Tick ==
    /\ now < MaxSecond
    /\ \E n \in Notes : fate[n] \in {"unwritten", "submitted"}
    /\ now' = now + 1
    /\ UNCHANGED <<cloud, device, flows, history>>

\* On WelcomePage, or a page behind it.
Login(d, u) ==
    /\ ~device[d].inside
    /\ device' = [device EXCEPT ![d] = StartPage(u)]
    /\ UNCHANGED <<now, cloud, flows, history>>

\* The rest of the logout, after signOut: it clears the preferences, then closes
\* every page but WelcomePage through the context of the dialog, which may be
\* gone by now; the pages then stay, without a session.
Logout(d) ==
    /\ device[d].inside
    /\ MayAct(d)
    /\ \/ /\ device' = [device EXCEPT ![d] = StartPage(NoUser)]
          /\ flows' = Leave(d)
       \/ /\ d \in Lingering
          /\ device' = [device EXCEPT ![d].user = NoUser]
          /\ UNCHANGED flows
    /\ UNCHANGED <<now, cloud, history>>

\* getUserData, asked for as a home page is built anew, with no notes over it.
LoadUser(d) ==
    /\ device[d].inside
    /\ ~device[d].open
    /\ device[d].ub # device[d].user
    /\ device' = [device EXCEPT ![d].ub = device[d].user]
    /\ UNCHANGED <<now, cloud, flows, history>>

OpenPage(d) ==
    /\ device[d].inside
    /\ ~device[d].open
    /\ device' = [device EXCEPT ![d] = OpenedPage(@)]
    /\ UNCHANGED <<now, cloud, flows, history>>

ClosePage(d) ==
    /\ device[d].open
    /\ device' = [device EXCEPT ![d] = ClosedPage(@)]
    /\ flows' = Leave(d)
    /\ UNCHANGED <<now, cloud, history>>

\* getData is answered and _buildList shows what is UserBloc's user's own.  Nothing
\* refreshes the list afterwards but a submission, before it saves.
ListAnswered(d) ==
    /\ device[d].loading
    /\ device' = [device EXCEPT ![d].loading = FALSE,
                     ![d].list = {id \in Ids : Visible(d, id) # NoNote /\ id[1] = device[d].ub}]
    /\ UNCHANGED <<now, cloud, flows, history>>

\* handleSubmit, up to the await of checkInternet: the text is saved in the
\* State, whose setState builds the page anew and asks for the list again.
Send(f, d, n) ==
    /\ ~Active(f)
    /\ device[d].open
    /\ MayAct(d)
    /\ fate[n] = "unwritten"
    /\ Cardinality(RunsOn(d)) < MaxRuns
    /\ Room(d, 0)
    /\ flows' = [flows EXCEPT ![f] = [IdleFlow EXCEPT !.pc = "send", !.dev = d,
                                                     !.onPage = TRUE, !.note = n]]
    /\ device' = [device EXCEPT ![d] = [@ EXCEPT !.comment = n, !.loading = TRUE, !.list = {}]]
    /\ fate' = [fate EXCEPT ![n] = "submitted"]
    /\ UNCHANGED <<now, cloud, used, posted>>

\* The rest of handleSubmit: saveNewComment, whose write is not awaited.  The
\* second guard keeps apart, for patient users, two notes of one second; those
\* of nobody may be of two people.
BugSaveNewCommentFromPage(f) ==
    LET d == flows[f].dev
        u == device[d].user
    IN /\ flows[f].pc = "send"
       /\ "send" \in Impatient \/ u = NoUser \/ <<u, now>> \notin used
       /\ Enqueue(d, NoteId(u), device[d].comment)
       /\ fate' = [fate EXCEPT ![flows[f].note] = IF u = NoUser THEN "unsigned" ELSE "accepted"]
       /\ used' = used \cup {<<u, now>>}
       /\ End(f)
       /\ UNCHANGED <<now, server, device, posted>>
SaveNewComment(f) ==
    LET d == flows[f].dev
        u == device[d].user
    IN /\ flows[f].pc = "send"
       /\ "send" \in Impatient \/ u = NoUser \/ <<u, now>> \notin used
       /\ Enqueue(d, NoteId(u), TextOf(f))
       /\ fate' = [fate EXCEPT ![flows[f].note] = IF u = NoUser THEN "unsigned" ELSE "accepted"]
       /\ used' = used \cup {<<u, now>>}
       /\ End(f)
       /\ UNCHANGED <<now, server, device, posted>>

\* `Yes` in the dialog over a note of the list.
ConfirmDelete(f, d, id) ==
    /\ ~Active(f)
    /\ device[d].open
    /\ MayAct(d)
    /\ id \in device[d].list
    /\ Cardinality(RunsOn(d)) < MaxRuns
    /\ Room(d, 1)
    /\ flows' = [flows EXCEPT ![f] = [IdleFlow EXCEPT !.pc = "delete", !.dev = d, !.target = id]]
    /\ UNCHANGED <<now, cloud, device, history>>

\* deleteComment, of the note the page showed, and not awaited either.
BugDeleteCommentOfNow(f) ==
    LET d == flows[f].dev
        n == Visible(d, flows[f].target)
    IN /\ Enqueue(d, NoteId(device[d].user), NoNote)
       /\ fate' = IF n = NoNote THEN fate ELSE [fate EXCEPT ![n] = "deleted"]
DeleteComment(f) ==
    LET d == flows[f].dev
        n == Visible(d, flows[f].target)
    IN /\ Enqueue(d, flows[f].target, NoNote)
       /\ fate' = IF n = NoNote THEN fate ELSE [fate EXCEPT ![n] = "deleted"]

\* The rest of the confirmed delete: only who wrote a note may delete it.
BugDeleteUnchecked(f) ==
    /\ flows[f].pc = "delete"
    /\ DeleteComment(f)
    /\ End(f)
    /\ UNCHANGED <<now, server, device, used, posted>>
DeleteChecked(f) ==
    /\ flows[f].pc = "delete"
    /\ IF flows[f].target[1] = device[flows[f].dev].user
       THEN DeleteComment(f)
       ELSE UNCHANGED <<outbox, fate>>
    /\ End(f)
    /\ UNCHANGED <<now, server, device, used, posted>>

\* checkInternet finds no connection.
NoInternet(f) ==
    /\ Active(f)
    /\ fate' = IF flows[f].pc = "send" THEN [fate EXCEPT ![flows[f].note] = "dropped"] ELSE fate
    /\ End(f)
    /\ UNCHANGED <<now, cloud, device, used, posted>>

--------------------------------------------------------------------------------
\* Firestore and the system

\* The server takes the oldest write of a device.
Commit(d) ==
    /\ outbox[d] # <<>>
    /\ server' = [server EXCEPT ![Head(outbox[d]).id] = Head(outbox[d]).note]
    /\ outbox' = [outbox EXCEPT ![d] = Tail(@)]
    /\ LET op == Head(outbox[d]) IN
          posted' = IF op.note = NoNote THEN posted ELSE posted \cup {<<op.id[1], op.note>>}
    /\ UNCHANGED <<now, device, flows, fate, used>>

\* ... or refuses it, which nobody is told of.
Refuse(d) ==
    /\ outbox[d] # <<>>
    /\ outbox' = [outbox EXCEPT ![d] = Tail(@)]
    /\ LET op == Head(outbox[d])
           n  == IF op.note = NoNote THEN server[op.id] ELSE op.note
       IN fate' = IF n = NoNote THEN fate ELSE [fate EXCEPT ![n] = "refused"]
    /\ UNCHANGED <<now, server, device, flows, used, posted>>

\* The process of a device dies; the session and the queue of writes survive.
Crash(d) ==
    /\ device' = [device EXCEPT ![d] = StartPage(device[d].user)]
    /\ flows' = [f \in Flows |-> IF f \in RunsOn(d) THEN IdleFlow ELSE flows[f]]
    /\ fate' = [n \in Notes |-> IF \E f \in RunsOn(d) : flows[f].pc = "send" /\ flows[f].note = n
                                THEN "dropped" ELSE fate[n]]
    /\ UNCHANGED <<now, cloud, used, posted>>

Next ==
    \/ Tick
    \/ \E d \in Devices :
          \/ \E u \in Users : Login(d, u)
          \/ Logout(d)
          \/ LoadUser(d)
          \/ OpenPage(d)
          \/ ClosePage(d)
          \/ ListAnswered(d)
          \/ \E f \in Flows, n \in Notes : Send(f, d, n)
          \/ \E f \in Flows, id \in Ids : ConfirmDelete(f, d, id)
          \/ Commit(d)
          \/ Refuse(d)
          \/ Crash(d)
    \/ \E f \in Flows : SaveNewComment(f) \/ DeleteChecked(f) \/ NoInternet(f)

Spec == Init /\ [][Next]_vars

--------------------------------------------------------------------------------
(* Properties *)

TypeOK ==
    /\ now \in Seconds
    /\ server \in [Ids -> Notes \cup {NoNote}]
    /\ outbox \in [Devices -> Seq(Op)]
    /\ device \in [Devices -> Page]
    /\ flows \in [Flows -> Flow]
    /\ fate \in [Notes -> Fates]
    /\ used \in SUBSET Ids
    /\ posted \in SUBSET ((Users \cup {NoUser}) \X Notes)

\* No note is lost: one whose submission ended without an error in a session is
\* on the server or in the queue of a device, whatever other writes are on their
\* way, until its author deletes it or the server refuses it.
NoteKept ==
    \A n \in Notes : fate[n] = "accepted" =>
        \E d \in Devices, id \in Ids : Visible(d, id) = n

\* A note reported as deleted is gone from the server, or a delete of it is
\* queued behind whatever could still write it.
DeletedGoes ==
    \A n \in Notes, id \in Ids : fate[n] = "deleted" /\ server[id] = n =>
        \E d \in Devices : \E i \in Queued(d, id) : outbox[d][i].note = NoNote

\* Nobody deletes a note of somebody else, however late a confirmed deletion
\* goes on, and whoever has signed in on the device by then.
OnlyAuthorsDelete ==
    \A d \in Devices : \A i \in 1 .. Len(outbox[d]) :
        outbox[d][i].note = NoNote => outbox[d][i].id[1] = outbox[d][i].by

\* The documents on the server go through the states of a note board; those of
\* nobody too, which may take each other's place, but never an author's.
Contract == INSTANCE NoteBoard
                WITH Nobody <- NoUser,
                     board  <- {<<id[1], server[id]>> : id \in {i \in Ids : server[i] # NoNote}}
NotesRefineBoard == Contract!BoardSpec
================================================================================
