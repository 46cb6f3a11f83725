------------------------ MODULE NotificationBadgeProofs ------------------------
(***************************************************************************)
(* What holds of the badge for any number of notifications, reloads and     *)
(* overlapping fetches: BadgeInv, and AcksInv, which says more until         *)
(* somebody reloads.                                                        *)
(***************************************************************************)
EXTENDS NotificationBadge, SequenceTheorems, TLAPS

\* A write behind the queue, and the queue without its first write.
LEMMA QueueOps ==
    ASSUME NEW q \in Seq(Nat), NEW v \in Nat
    PROVE  /\ Append(q, v) \in Seq(Nat)
           /\ \A b \in Nat : v <= b /\ (\A i \in 1 .. Len(q) : q[i] <= b)
                => \A i \in 1 .. Len(Append(q, v)) : Append(q, v)[i] <= b
           /\ q # <<>> =>
                /\ Head(q) \in Nat
                /\ Tail(q) \in Seq(Nat)
                /\ \A b \in Nat : (\A i \in 1 .. Len(q) : q[i] <= b)
                     => /\ Head(q) <= b
                        /\ \A i \in 1 .. Len(Tail(q)) : Tail(q)[i] <= b
<1>1. Append(q, v) \in Seq(Nat)
  BY AppendProperties
<1>2. ASSUME NEW b \in Nat, v <= b, \A i \in 1 .. Len(q) : q[i] <= b
      PROVE  \A i \in 1 .. Len(Append(q, v)) : Append(q, v)[i] <= b
  BY <1>2, AppendProperties
<1>3. ASSUME q # <<>>
      PROVE  /\ Head(q) \in Nat
             /\ Tail(q) \in Seq(Nat)
             /\ Len(Tail(q)) = Len(q) - 1
             /\ \A i \in 1 .. Len(Tail(q)) : Tail(q)[i] = q[i + 1]
  BY <1>3, HeadTailProperties
<1>4. ASSUME q # <<>>, NEW b \in Nat, \A i \in 1 .. Len(q) : q[i] <= b
      PROVE  /\ Head(q) <= b
             /\ \A i \in 1 .. Len(Tail(q)) : Tail(q)[i] <= b
  <2>1. Len(q) \in Nat \ {0}
    BY <1>4, EmptySeq, LenProperties
  <2>2. Head(q) = q[1]
    BY <1>4, HeadTailProperties
  <2>3. \A i \in 1 .. Len(Tail(q)) : Tail(q)[i] <= b
    BY <1>3, <1>4, <2>1
  <2> QED
    BY <1>4, <2>1, <2>2, <2>3
<1> QED
  BY <1>1, <1>2, <1>3, <1>4

\* The entry of one fetch changes, and all of them stay fetches.
LEMMA FetchesTyped ==
    ASSUME fetches \in [Fetches -> Fetch], NEW f \in Fetches, NEW r \in Fetch
    PROVE  [fetches EXCEPT ![f] = r] \in [Fetches -> Fetch]
OBVIOUS

LEMMA FetchValues ==
    /\ Idle \in Fetch
    /\ Contents \in Fetch
    /\ \A n \in Nat : /\ [waits |-> "custom", seen |-> n] \in Fetch
                      /\ [waits |-> "answer", seen |-> n] \in Fetch
BY DEF Idle, Contents, Fetch

--------------------------------------------------------------------------------
\* Until getNlength has run nothing counts as seen, and the number is never
\* behind the two counters that decide whether it is shown.
BadgeInv ==
    /\ TypeOK
    /\ reading => savedN = 0
    /\ savedN < length => finalN >= length - savedN
    /\ BadgeCountsSomething

LEMMA BadgeInit == Init => BadgeInv
  BY BadgeAssumption, FetchValues
     DEF Init, BadgeInv, TypeOK, BadgeCountsSomething, AtStart, NoBadge, Badge

LEMMA BadgeStep == BadgeInv /\ [Next]_vars => BadgeInv'
<1> SUFFICES ASSUME BadgeInv, [Next]_vars
             PROVE  BadgeInv'
  OBVIOUS
<1> USE DEF counters, store
<1>1. CASE Publish
  BY <1>1 DEF BadgeInv, TypeOK, BadgeCountsSomething, Publish
<1>2. CASE GetNlength
  <2>1. TypeOK' /\ reading' = FALSE
    BY <1>2 DEF BadgeInv, TypeOK, GetNlength
  <2>2. savedN' < length' => finalN' >= length' - savedN'
    <3>1. /\ savedN = 0
          /\ length \in Nat /\ finalN \in Int /\ stored \in Nat
          /\ savedN < length => finalN >= length - savedN
      BY <1>2 DEF BadgeInv, TypeOK, GetNlength
    <3>2. savedN' = stored /\ length' = length /\ finalN' = finalN
      BY <1>2 DEF GetNlength
    <3> QED
      BY <3>1, <3>2
  <2>3. BadgeCountsSomething'
    BY <1>2 DEF BadgeInv, BadgeCountsSomething, GetNlength
  <2> QED
    BY <2>1, <2>2, <2>3 DEF BadgeInv
<1>3. ASSUME NEW f \in Fetches, FetchStep(f)
      PROVE  BadgeInv'
  <2>0. fetches \in [Fetches -> Fetch] /\ fetches[f].seen \in Nat
    BY DEF BadgeInv, TypeOK, Fetch
  <2>1. CASE ContentsAnswered(f)
    <3>1. fetches' \in [Fetches -> Fetch]
      BY <2>0, <2>1, FetchesTyped, FetchValues DEF ContentsAnswered
    <3> QED
      BY <2>1, <3>1 DEF BadgeInv, TypeOK, BadgeCountsSomething, ContentsAnswered
  <2>2. CASE ServerReads(f)
    <3>1. fetches' \in [Fetches -> Fetch]
      BY <2>0, <2>2, FetchesTyped, FetchValues DEF ServerReads, BadgeInv, TypeOK
    <3> QED
      BY <2>2, <3>1 DEF BadgeInv, TypeOK, BadgeCountsSomething, ServerReads
  <2>3. CASE CustomAnswered(f)
    <3>1. fetches' \in [Fetches -> Fetch]
      BY <2>0, <2>3, FetchesTyped, FetchValues DEF CustomAnswered
    <3>2. /\ length' \in Nat
          /\ finalN' = length' - savedN
      BY <2>0, <2>3 DEF CustomAnswered, BadgeInv, TypeOK
    <3> QED
      BY <2>0, <2>3, <3>1, <3>2 DEF BadgeInv, TypeOK, BadgeCountsSomething, CustomAnswered
  <2>4. CASE FetchFails(f)
    <3>1. fetches' \in [Fetches -> Fetch]
      BY <2>0, <2>4, FetchesTyped, FetchValues DEF FetchFails
    <3> QED
      BY <2>4, <3>1 DEF BadgeInv, TypeOK, BadgeCountsSomething, FetchFails
  <2> QED
    BY <1>3, <2>1, <2>2, <2>3, <2>4 DEF FetchStep
<1>4. CASE Reload
  <2>1. fetches' \in [Fetches -> Fetch]
    BY <1>4, FetchesTyped, FetchValues DEF Reload, BadgeInv, TypeOK
  <2> QED
    BY <1>4, <2>1 DEF BadgeInv, TypeOK, BadgeCountsSomething, Reload
<1>5. CASE Build
  <2>1. badge' = [shown |-> savedN < length, number |-> finalN]
    BY <1>5 DEF Build
  <2>2. finalN \in Int /\ (savedN < length) \in BOOLEAN
    BY DEF BadgeInv, TypeOK
  <2>3. badge' \in Badge
    BY <2>1, <2>2 DEF Badge
  <2>4. TypeOK'
    BY <1>5, <2>3 DEF BadgeInv, TypeOK, Build
  <2>5. badge'.shown => badge'.number >= 1
    <3>1. ASSUME savedN < length
          PROVE  finalN >= 1
      BY <3>1 DEF BadgeInv, TypeOK
    <3>2. badge'.shown = (savedN < length) /\ badge'.number = finalN
      BY <2>1
    <3> QED
      BY <3>1, <3>2
  <2> QED
    BY <1>5, <2>4, <2>5 DEF BadgeInv, BadgeCountsSomething, Build
<1>6. CASE TouchBell
  <2>1. pending' \in Seq(Nat)
    BY <1>6, QueueOps DEF TouchBell, Put, BadgeInv, TypeOK
  <2> QED
    BY <1>6, <2>1 DEF BadgeInv, TypeOK, BadgeCountsSomething, TouchBell, Put
<1>7. CASE LogoutClears
  <2>1. pending' \in Seq(Nat)
    BY <1>7, QueueOps DEF LogoutClears, Put, BadgeInv, TypeOK
  <2> QED
    BY <1>7, <2>1 DEF BadgeInv, TypeOK, BadgeCountsSomething, LogoutClears, Put
<1>8. CASE Flush
  <2>1. disk' \in Nat /\ pending' \in Seq(Nat)
    BY <1>8, QueueOps DEF Flush, BadgeInv, TypeOK
  <2> QED
    BY <1>8, <2>1 DEF BadgeInv, TypeOK, BadgeCountsSomething, Flush
<1>9. CASE Restart
  BY <1>9, FetchValues
     DEF BadgeInv, TypeOK, BadgeCountsSomething, Restart, AtStart, NoBadge, Badge
<1>10. CASE UNCHANGED vars
  BY <1>10 DEF BadgeInv, TypeOK, BadgeCountsSomething, vars
<1> QED
  BY <1>1, <1>2, <1>3, <1>4, <1>5, <1>6, <1>7, <1>8, <1>9, <1>10 DEF Next

\* The badge of the bell, when shown, shows at least one (NotificationBloc and
\* the Badge of HomePage), for any number of fetches, reloads and touches.
THEOREM BadgePositive == Spec => []BadgeCountsSomething
<1>1. BadgeInv => BadgeCountsSomething
  BY DEF BadgeInv
<1> QED
  BY <1>1, BadgeInit, BadgeStep, PTL DEF Spec

\* Every reachable state of the badge is well typed.
THEOREM BadgeTypeCorrect == Spec => []TypeOK
<1>1. BadgeInv => TypeOK
  BY DEF BadgeInv
<1> QED
  BY <1>1, BadgeInit, BadgeStep, PTL DEF Spec

--------------------------------------------------------------------------------
\* Without a reload the list is filled at most once in the life of the app:
\* only the fetch of the constructor runs, and the list is empty until then.
FetchedOnce ==
    /\ ndata <= published
    /\ length <= published
    /\ \A f \in Fetches :
          /\ fetches[f].waits = "nothing" \/ (f = First /\ ndata = 0)
          /\ fetches[f].seen <= published

AcksInv == BadgeInv /\ (reloads = 0 => FetchedOnce /\ AcksOnlyPublished)

LEMMA AcksInit == Init => AcksInv
<1> SUFFICES ASSUME Init
             PROVE  FetchedOnce /\ AcksOnlyPublished
  BY BadgeInit DEF AcksInv
<1>1. published \in Nat
  BY BadgeAssumption DEF Init
<1>2. FetchedOnce
  BY <1>1 DEF Init, FetchedOnce, AtStart, Idle, Contents
<1>3. AcksOnlyPublished
  BY <1>1 DEF Init, AcksOnlyPublished
<1> QED
  BY <1>2, <1>3

LEMMA AcksStep == AcksInv /\ [Next]_vars => AcksInv'
<1> SUFFICES ASSUME AcksInv, [Next]_vars, reloads' = 0
             PROVE  FetchedOnce' /\ AcksOnlyPublished'
  BY BadgeStep DEF AcksInv
<1>r. reloads = 0 /\ ~Reload
  BY DEF AcksInv, BadgeInv, TypeOK, Next, vars, Publish, GetNlength, FetchStep,
         ContentsAnswered, ServerReads, CustomAnswered, FetchFails, Reload, Build,
         TouchBell, LogoutClears, Flush, Restart
<1>0. /\ TypeOK
      /\ FetchedOnce
      /\ AcksOnlyPublished
  BY <1>r DEF AcksInv, BadgeInv
<1>t. /\ published \in Nat /\ ndata \in Nat /\ length \in Nat /\ savedN \in Nat
      /\ stored \in Nat /\ disk \in Nat /\ pending \in Seq(Nat)
      /\ Len(pending) \in Nat
      /\ \A i \in 1 .. Len(pending) : pending[i] \in Nat
      /\ \A f \in Fetches : fetches[f].seen \in Nat
  BY <1>0, LenProperties, ElementOfSeq DEF TypeOK, Fetch
<1> USE DEF counters, store
<1>1. CASE Publish
  BY <1>0, <1>t, <1>1 DEF FetchedOnce, AcksOnlyPublished, Publish
<1>2. CASE GetNlength
  BY <1>0, <1>t, <1>2 DEF FetchedOnce, AcksOnlyPublished, GetNlength
<1>3. ASSUME NEW f \in Fetches, FetchStep(f)
      PROVE  FetchedOnce' /\ AcksOnlyPublished'
  <2>1. CASE ContentsAnswered(f)
    BY <1>0, <1>t, <2>1 DEF FetchedOnce, AcksOnlyPublished, ContentsAnswered, TypeOK
  <2>2. CASE ServerReads(f)
    BY <1>0, <1>t, <2>2 DEF FetchedOnce, AcksOnlyPublished, ServerReads, TypeOK
  <2>3. CASE CustomAnswered(f)
    <3>1. f = First /\ ndata = 0
      BY <1>0, <2>3 DEF FetchedOnce, CustomAnswered
    <3>2. \A g \in Fetches : fetches'[g].waits = "nothing" /\ fetches'[g].seen <= published
      BY <1>0, <1>t, <2>3, <3>1 DEF FetchedOnce, CustomAnswered, TypeOK, Idle
    <3>3. ndata' <= published /\ length' <= published
      BY <1>0, <1>t, <2>3, <3>1 DEF FetchedOnce, CustomAnswered
    <3> QED
      BY <1>0, <2>3, <3>2, <3>3 DEF FetchedOnce, AcksOnlyPublished, CustomAnswered
  <2>4. CASE FetchFails(f)
    BY <1>0, <1>t, <2>4 DEF FetchedOnce, AcksOnlyPublished, FetchFails, TypeOK, Idle
  <2> QED
    BY <1>3, <2>1, <2>2, <2>3, <2>4 DEF FetchStep
<1>5. CASE Build
  BY <1>0, <1>5 DEF FetchedOnce, AcksOnlyPublished, Build
<1>6. CASE TouchBell
  <2>1. \A i \in 1 .. Len(pending') : pending'[i] <= published
    BY <1>0, <1>t, <1>6, QueueOps DEF TouchBell, Put, FetchedOnce, AcksOnlyPublished
  <2> QED
    BY <1>0, <1>6, <2>1 DEF FetchedOnce, AcksOnlyPublished, TouchBell, Put
<1>7. CASE LogoutClears
  <2>1. \A i \in 1 .. Len(pending') : pending'[i] <= published
    BY <1>0, <1>t, <1>7, QueueOps DEF LogoutClears, Put, AcksOnlyPublished
  <2> QED
    BY <1>0, <1>t, <1>7, <2>1 DEF FetchedOnce, AcksOnlyPublished, LogoutClears, Put
<1>8. CASE Flush
  <2>1. /\ disk' <= published
        /\ \A i \in 1 .. Len(pending') : pending'[i] <= published
    BY <1>0, <1>t, <1>8, QueueOps DEF Flush, AcksOnlyPublished
  <2> QED
    BY <1>0, <1>8, <2>1 DEF FetchedOnce, AcksOnlyPublished, Flush
<1>9. CASE Restart
  BY <1>0, <1>t, <1>9
     DEF FetchedOnce, AcksOnlyPublished, Restart, AtStart, Idle, Contents
<1>10. CASE UNCHANGED vars
  BY <1>0, <1>10 DEF FetchedOnce, AcksOnlyPublished, vars
<1> QED
  BY <1>1, <1>2, <1>3, <1>r, <1>5, <1>6, <1>7, <1>8, <1>9, <1>10 DEF Next

\* Until somebody reloads, a touch of the bell acknowledges only notifications
\* that exist (saveNlength), across any number of restarts and logouts.
THEOREM AcksSound == Spec => []AcksOnlyPublished
<1>1. AcksInv => AcksOnlyPublished
  BY DEF AcksInv, AcksOnlyPublished
<1> QED
  BY <1>1, AcksStep, AcksInit, PTL DEF Spec
================================================================================
