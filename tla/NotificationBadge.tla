--------------------------- MODULE NotificationBadge ---------------------------
(***************************************************************************)
(* The badge on the bell of the home pages: NotificationBloc, the bell of   *)
(* HomePage and ObstetricsPage, the reload button of NotificationPage, and  *)
(* the preference 'saved length' which remembers how many notifications     *)
(* had been counted when the bell was last touched.                         *)
(*                                                                         *)
(* A notification is only ever counted here, so lists are their lengths.    *)
(* The loop over `contents` adds nothing: it looks for a timestamp among    *)
(* documents, and no document equals a string.  The query itself can fail,  *)
(* and then the second one is not sent.                                     *)
(*                                                                         *)
(* An operator named Bug... is a mistake one could make in the operator that *)
(* follows it, put in its place by a mutation run.                           *)
(*                                                                         *)
(* Bounds: MaxPublished notifications, MaxReloads reloads in all, MaxPending  *)
(* preference writes on their way to the disk.                              *)
(***************************************************************************)
EXTENDS Integers, Sequences

CONSTANTS Fetches, First, MaxPublished, MaxReloads, MaxPending

ASSUME BadgeAssumption ==
    /\ First \in Fetches        \* the getData of the constructor
    /\ MaxPublished \in Nat
    /\ MaxReloads \in Nat
    /\ MaxPending \in Nat

VARIABLES
    published,   \* notifications/custom/list on the server; it only grows
    ndata,       \* entries of _ndata
    length,      \* _notificationLength
    savedN,      \* _savedNlength
    finalN,      \* _notificationFinalLength
    reading,     \* getNlength waits for the preferences
    fetches,     \* what each getData waits for, and what its answer will hold
    reloads,     \* touches of the reload button so far, restarts included
    stored,      \* 'saved length' in memory, 0 when absent
    disk,        \* 'saved length' on disk
    pending,     \* its values on their way from the one to the other
    badge        \* what the bell was last built with

counters == <<ndata, length, savedN, finalN>>
store    == <<stored, disk, pending>>
vars == <<published, counters, reading, fetches, reloads, store, badge>>

Idle     == [waits |-> "nothing", seen |-> 0]
Contents == [waits |-> "contents", seen |-> 0]
Fetch    == [waits : {"nothing", "contents", "custom", "answer"}, seen : Nat]

Badge  == [shown : BOOLEAN, number : Int]
NoBadge == [shown |-> FALSE, number |-> 0]

\* The constructor calls getNlength and getData, each once.
BugAtStartTwice == [f \in Fetches |-> Contents]
AtStart == [f \in Fetches |-> IF f = First THEN Contents ELSE Idle]

Init ==
    /\ published \in 0 .. MaxPublished
    /\ ndata = 0 /\ length = 0 /\ savedN = 0 /\ finalN = 0
    /\ reading = TRUE
    /\ fetches = AtStart
    /\ reloads = 0
    /\ stored = 0 /\ disk = 0 /\ pending = <<>>
    /\ badge = NoBadge

Put(v) ==
    /\ stored' = v
    /\ pending' = Append(pending, v)

--------------------------------------------------------------------------------
Publish ==
    /\ published < MaxPublished
    /\ published' = published + 1
    /\ UNCHANGED <<counters, reading, fetches, reloads, store, badge>>

\* getNlength, when the preferences are loaded.
GetNlength ==
    /\ reading
    /\ reading' = FALSE
    /\ savedN' = stored
    /\ UNCHANGED <<published, ndata, length, finalN, fetches, reloads, store, badge>>

\* getData: the documents of `contents` are here, and the list is asked for.
ContentsAnswered(f) ==
    /\ fetches[f].waits = "contents"
    /\ fetches' = [fetches EXCEPT ![f] = [waits |-> "custom", seen |-> 0]]
    /\ UNCHANGED <<published, counters, reading, reloads, store, badge>>

ServerReads(f) ==
    /\ fetches[f].waits = "custom"
    /\ fetches' = [fetches EXCEPT ![f] = [waits |-> "answer", seen |-> published]]
    /\ UNCHANGED <<published, counters, reading, reloads, store, badge>>

\* getData, to its end: the list is added to _ndata, which nothing empties.
BugRecountFromPublished(f) ==
    /\ fetches[f].waits = "answer"
    /\ ndata' = ndata + fetches[f].seen
    /\ length' = ndata'
    /\ finalN' = fetches[f].seen - savedN
    /\ fetches' = [fetches EXCEPT ![f] = Idle]
    /\ UNCHANGED <<published, savedN, reading, reloads, store, badge>>
CustomAnswered(f) ==
    /\ fetches[f].waits = "answer"
    /\ ndata' = ndata + fetches[f].seen
    /\ length' = ndata'
    /\ finalN' = length' - savedN
    /\ fetches' = [fetches EXCEPT ![f] = Idle]
    /\ UNCHANGED <<published, savedN, reading, reloads, store, badge>>

\* Either query fails: the exception ends getData, and nothing tries again.
FetchFails(f) ==
    /\ fetches[f].waits # "nothing"
    /\ fetches' = [fetches EXCEPT ![f] = Idle]
    /\ UNCHANGED <<published, counters, reading, reloads, store, badge>>

\* The reload button of NotificationPage.
Reload == \E f \in Fetches :
    /\ fetches[f].waits = "nothing"
    /\ reloads < MaxReloads
    /\ reloads' = reloads + 1
    /\ fetches' = [fetches EXCEPT ![f] = Contents]
    /\ UNCHANGED <<published, counters, reading, store, badge>>

\* A home page is built: the bloc is read without listening to it, so that no
\* change of the counters makes this happen.
Build ==
    /\ badge' = [shown |-> savedN < length, number |-> finalN]
    /\ UNCHANGED <<published, counters, reading, fetches, reloads, store>>

\* The bell is touched: saveNlength, whose turn comes after getNlength's.
TouchBell ==
    /\ ~reading
    /\ Len(pending) < MaxPending
    /\ Put(length)
    /\ savedN' = length
    /\ UNCHANGED <<published, ndata, length, finalN, reading, fetches, reloads, disk, badge>>

\* A logout clears the preferences of the device, this one too; the bloc keeps
\* its own copy.
LogoutClears ==
    /\ ~reading
    /\ Len(pending) < MaxPending
    /\ Put(0)
    /\ UNCHANGED <<published, counters, reading, fetches, reloads, disk, badge>>

Flush ==
    /\ pending # <<>>
    /\ disk' = Head(pending)
    /\ pending' = Tail(pending)
    /\ UNCHANGED <<published, counters, reading, fetches, reloads, stored, badge>>

Restart ==
    /\ stored' = disk
    /\ pending' = <<>>
    /\ ndata' = 0 /\ length' = 0 /\ savedN' = 0 /\ finalN' = 0
    /\ reading' = TRUE
    /\ fetches' = AtStart
    /\ badge' = NoBadge
    /\ UNCHANGED <<published, reloads, disk>>

FetchStep(f) ==
    \/ ContentsAnswered(f)
    \/ ServerReads(f)
    \/ CustomAnswered(f)
    \/ FetchFails(f)

Next ==
    \/ Publish
    \/ GetNlength
    \/ \E f \in Fetches : FetchStep(f)
    \/ Reload
    \/ Build
    \/ TouchBell
    \/ LogoutClears
    \/ Flush
    \/ Restart

Spec == Init /\ [][Next]_vars

--------------------------------------------------------------------------------
(* Properties *)

TypeOK ==
    /\ published \in Nat
    /\ ndata \in Nat /\ length \in Nat /\ savedN \in Nat /\ finalN \in Int
    /\ reading \in BOOLEAN
    /\ fetches \in [Fetches -> Fetch]
    /\ reloads \in Nat
    /\ stored \in Nat /\ disk \in Nat /\ pending \in Seq(Nat)
    /\ badge \in Badge

\* The bell never shows an empty or negative badge.  `showBadge` compares two
\* counters and the text is a third, written at other times: by getNlength and
\* the getData of the start in either order, by reloads, by touches.
BadgeCountsSomething == badge.shown => badge.number >= 1

\* Until the reload button is used, a touch of the bell acknowledges no
\* notification that is not published yet, on disk or in memory, whatever the
\* restarts and logouts: a later one is shown.  (A reload doubles _ndata, and a
\* touch then hides as many that come later.)
AcksOnlyPublished ==
    reloads = 0 =>
        /\ savedN <= published
        /\ stored <= published
        /\ disk <= published
        /\ \A i \in 1 .. Len(pending) : pending[i] <= published
================================================================================
