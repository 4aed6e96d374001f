------------------------------- MODULE Poll_proofs -------------------------------
(***************************************************************************)
(* Safety of Poll.  The group may learn of errors in any order, so what    *)
(* makes the properties inductive is where an error can be between the end *)
(* of its task and the end of the group:                                   *)
(*   - an error a task ended with is still to be noticed or was collected  *)
(*     (KeptInv), hence ExpiryWins: when the group is over, all are;       *)
(*   - whatever was collected is what some task ended with (OriginInv),    *)
(*     and a task ends only with errors its kind can raise (KindInv),      *)
(*     hence DailyFailsByShapeOnly and ReauthOnRejection;                  *)
(*   - a task runs only within a pass (PassInv).                           *)
(***************************************************************************)
EXTENDS Poll, SequenceTheorems, TLAPS

In(e, s) == \E i \in 1..Len(s) : s[i] = e

KeptInv ==
    \A k \in Children :
        child[k] = "done" /\ outcome[k] \in Errors => In(k, ended) \/ In(outcome[k], errors)

OriginInv == \A i \in 1..Len(errors) : \E k \in Children : outcome[k] = errors[i]

KindInv ==
    /\ \A k \in Children : child[k] # "done" => outcome[k] = "pending"
    /\ \A k \in Required : outcome[k] \notin {"auth", "other"}
    /\ outcome["daily"] \notin {"auth", "api"}

\* Tasks run only while run() fetches, and a second pass does not renew.
PassInv ==
    /\ phase # "fetching" => \A k \in Children : child[k] \in {"none", "done"}
    /\ phase \in {"opening", "ensuring", "renewing"} => attempt = 1

Inv ==
    /\ TypeOK /\ KeptInv /\ OriginInv /\ KindInv /\ PassInv
    /\ ReauthOnRejection

-------------------------------------------------------------------------------
\* What Append and Tail do to the members of a sequence.
LEMMA InAppend ==
    ASSUME NEW S, NEW s \in Seq(S), NEW e \in S
    PROVE  /\ Append(s, e) \in Seq(S)
           /\ In(e, Append(s, e))
           /\ \A d : In(d, s) => In(d, Append(s, e))
           /\ \A i \in 1..Len(Append(s, e)) : Append(s, e)[i] = e \/ In(Append(s, e)[i], s)
<1>1. /\ Append(s, e) \in Seq(S)
      /\ Len(Append(s, e)) = Len(s) + 1
      /\ \A i \in 1..Len(s) : Append(s, e)[i] = s[i]
      /\ Append(s, e)[Len(s) + 1] = e
  BY AppendProperties
<1>2. Len(s) \in Nat
  BY LenProperties
<1>3. In(e, Append(s, e))
  BY <1>1, <1>2 DEF In
<1>4. ASSUME NEW d, In(d, s) PROVE In(d, Append(s, e))
  BY <1>1, <1>2, <1>4 DEF In
<1>5. ASSUME NEW i \in 1..Len(Append(s, e))
      PROVE  Append(s, e)[i] = e \/ In(Append(s, e)[i], s)
  BY <1>1, <1>2 DEF In
<1> QED
  BY <1>1, <1>3, <1>4, <1>5

LEMMA InTail ==
    ASSUME NEW S, NEW s \in Seq(S), s # <<>>
    PROVE  /\ Head(s) \in S /\ Tail(s) \in Seq(S)
           /\ \A d : In(d, s) => d = Head(s) \/ In(d, Tail(s))
<1>1. /\ Head(s) \in S
      /\ Tail(s) \in Seq(S)
      /\ Len(Tail(s)) = Len(s) - 1
      /\ \A i \in 1..Len(Tail(s)) : Tail(s)[i] = s[i + 1]
  BY HeadTailProperties
<1>2. Len(s) \in Nat /\ Head(s) = s[1]
  BY LenProperties
<1>3. ASSUME NEW d, In(d, s) PROVE d = Head(s) \/ In(d, Tail(s))
  <2>1. PICK i \in 1..Len(s) : s[i] = d
    BY <1>3 DEF In
  <2>2. CASE i = 1
    BY <1>2, <2>1, <2>2
  <2>3. CASE i # 1
    <3>1. i - 1 \in 1..Len(Tail(s)) /\ (i - 1) + 1 = i
      BY <1>1, <1>2, <2>1, <2>3
    <3> QED
      BY <1>1, <2>1, <3>1 DEF In
  <2> QED
    BY <2>2, <2>3
<1> QED
  BY <1>1, <1>3

\* The error that is raised was collected, and is an expiry if there is one.
LEMMA FirstErrorCollected ==
    ASSUME errors \in Seq(Errors), errors # <<>>
    PROVE  /\ FirstError \in Errors
           /\ In(FirstError, errors)
           /\ In("expired", errors) => FirstError = "expired"
<1>1. Len(errors) \in Nat \ {0} /\ DOMAIN errors = 1..Len(errors)
  BY EmptySeq, LenProperties
<1>2. Head(errors) = errors[1] /\ Head(errors) \in Errors
  BY HeadTailProperties
<1>3. In(Head(errors), errors)
  BY <1>1, <1>2 DEF In
<1> QED
  BY <1>1, <1>2, <1>3 DEF FirstError, In, Errors

-------------------------------------------------------------------------------
LEMMA InitInv == Init => Inv
<1> SUFFICES ASSUME Init PROVE Inv
  OBVIOUS
<1>1. TypeOK
  <2>1. ended \in Seq(Children) /\ errors \in Seq(Errors)
    BY EmptySeq DEF Init
  <2>2. attempt \in 1..2 /\ phase \in Phases
    BY DEF Init, Phases
  <2>3. /\ child \in [Children -> {"none", "web", "mobile", "cancelling", "done"}]
        /\ outcome \in [Children -> Outcomes]
    BY DEF Init, Outcomes
  <2> QED
    BY <2>1, <2>2, <2>3 DEF Init, TypeOK
<1>2. KeptInv /\ OriginInv /\ KindInv
  BY DEF Init, KeptInv, OriginInv, KindInv, Errors, Children, Required
<1> QED
  BY <1>1, <1>2 DEF Init, Inv, PassInv, ReauthOnRejection

\* The steps outside of the group, which leave no task or start all of them.
LEMMA SessionStepsKeepInv ==
    ASSUME Inv, Start \/ Opened \/ Ensured \/ Renewed PROVE Inv'
<1>1. ASSUME Start PROVE Inv'
  <2>1. ended' \in Seq(Children) /\ errors' \in Seq(Errors)
    BY <1>1, EmptySeq DEF Start, NoTasks
  <2>2. TypeOK'
    <3>1. attempt' \in 1..2 /\ phase' \in Phases
      BY <1>1 DEF Start, Phases
    <3>2. /\ child' \in [Children -> {"none", "web", "mobile", "cancelling", "done"}]
          /\ outcome' \in [Children -> Outcomes]
      BY <1>1 DEF Start, NoTasks, Outcomes
    <3> QED
      BY <1>1, <2>1, <3>1, <3>2 DEF Start, TypeOK
  <2>3. KeptInv' /\ OriginInv' /\ KindInv'
    BY <1>1 DEF Start, NoTasks, KeptInv, OriginInv, KindInv, Errors, Children, Required
  <2> QED
    BY <1>1, <2>2, <2>3 DEF Inv, Start, NoTasks, PassInv, ReauthOnRejection
<1>2. ASSUME Opened PROVE Inv'
  BY <1>2 DEF Inv, Opened, TypeOK, Phases, KeptInv, OriginInv, KindInv, PassInv,
              ReauthOnRejection
<1>3. ASSUME Spawns, attempt' \in 1..2, UNCHANGED <<update, rejected>> PROVE Inv'
  BY <1>3, EmptySeq
     DEF Inv, Spawns, TypeOK, Phases, Outcomes, KeptInv, OriginInv, KindInv, PassInv,
         ReauthOnRejection, Errors, Children, Required
<1>4. ASSUME Ensured PROVE Inv'
  BY <1>3, <1>4 DEF Ensured, Inv, TypeOK
<1>5. ASSUME Renewed PROVE Inv'
  <2>1. attempt' \in 1..2
    BY <1>5 DEF Inv, PassInv, Renewed
  <2> QED
    BY <1>3, <1>5, <2>1 DEF Renewed
<1> QED
  BY <1>1, <1>2, <1>4, <1>5

LEMMA LoginFailsKeepsInv == ASSUME Inv, LoginFails PROVE Inv'
<1>1. PICK error \in {"auth", "api"} : Ends(Update(error)) /\ rejected' = (error = "auth")
  BY DEF LoginFails
<1>2. Update(error) = IF error = "auth" THEN "reauth" ELSE "failed"
  BY DEF Update
<1>3. /\ phase' = "idle" /\ update' = Update(error)
      /\ UNCHANGED <<attempt, child, outcome, ended, errors>>
      /\ phase # "fetching"
  BY <1>1 DEF LoginFails, Ends
<1>4. rejected' \in BOOLEAN /\ ReauthOnRejection'
  BY <1>1, <1>2, <1>3 DEF ReauthOnRejection
<1> QED
  BY <1>2, <1>3, <1>4
     DEF Inv, TypeOK, Phases, KeptInv, OriginInv, KindInv, PassInv

\* A task that runs ends with something its kind can end with.
LEMMA TaskEndsKeepsInv ==
    ASSUME Inv, NEW k \in Children, child[k] \notin {"none", "done"}, phase = "fetching",
           NEW how \in Outcomes \ {"pending"},
           k \in Required => how \notin {"auth", "other"},
           k = "daily" => how \notin {"auth", "api"},
           TaskEnds(k, how)
    PROVE  Inv'
<1>1. /\ child' = [child EXCEPT ![k] = "done"]
      /\ outcome' = [outcome EXCEPT ![k] = how]
      /\ ended' = Append(ended, k)
      /\ UNCHANGED <<phase, attempt, errors, update, rejected>>
  BY DEF TaskEnds
<1>2. /\ ended' \in Seq(Children)
      /\ In(k, ended')
      /\ \A d : In(d, ended) => In(d, ended')
  BY <1>1, InAppend DEF Inv, TypeOK
<1>3. child[k] # "done" /\ outcome[k] = "pending"
  BY DEF Inv, KindInv
<1>4. TypeOK'
  BY <1>1, <1>2 DEF Inv, TypeOK
<1>5. KeptInv'
  <2> SUFFICES ASSUME NEW l \in Children, child'[l] = "done", outcome'[l] \in Errors
               PROVE  In(l, ended') \/ In(outcome'[l], errors)
    BY <1>1 DEF KeptInv
  <2>1. CASE l = k
    BY <1>2, <2>1
  <2>2. CASE l # k
    <3>1. child[l] = "done" /\ outcome'[l] = outcome[l]
      BY <1>1, <2>2 DEF Inv, TypeOK
    <3> QED
      BY <1>2, <3>1 DEF Inv, KeptInv
  <2> QED
    BY <2>1, <2>2
<1>6. OriginInv'
  <2> SUFFICES ASSUME NEW i \in 1..Len(errors)
               PROVE  \E l \in Children : outcome'[l] = errors[i]
    BY <1>1 DEF OriginInv
  <2>1. PICK l \in Children : outcome[l] = errors[i]
    BY DEF Inv, OriginInv
  <2>2. errors[i] \in Errors
    BY DEF Inv, TypeOK
  <2>3. l # k
    BY <1>3, <2>1, <2>2 DEF Errors
  <2> QED
    BY <1>1, <2>1, <2>3 DEF Inv, TypeOK
<1>7. KindInv'
  BY <1>1 DEF Inv, TypeOK, KindInv, Children, Required
<1> QED
  BY <1>1, <1>4, <1>5, <1>6, <1>7 DEF Inv, PassInv, ReauthOnRejection

\* A task that has not ended belongs to a pass that is not over.
LEMMA RunningTask ==
    ASSUME Inv, NEW k \in Children, child[k] \notin {"none", "done"}
    PROVE  phase = "fetching"
BY DEF Inv, PassInv

LEMMA RequiredAnswerKeepsInv ==
    ASSUME Inv, NEW k \in Children, RequiredAnswer(k) PROVE Inv'
<1>1. PICK how \in {"data", "empty", "expired", "api"} : TaskEnds(k, how)
  BY DEF RequiredAnswer
<1>2. k \in Required /\ k # "daily" /\ child[k] = "web"
  BY DEF RequiredAnswer, Required
<1>3. phase = "fetching"
  BY <1>2, RunningTask
<1> QED
  BY <1>1, <1>2, <1>3, TaskEndsKeepsInv DEF Outcomes, Errors

LEMMA DailyAnswerKeepsInv == ASSUME Inv, DailyAnswer PROVE Inv'
<1>1. "daily" \in Children /\ "daily" \notin Required /\ child["daily"] = "web"
  BY DEF DailyAnswer, Children, Required
<1>2. phase = "fetching"
  BY <1>1, RunningTask
<1>3. PICK how \in {"data", "empty", "expired"} :
         IF how = "empty" /\ HasMobile
         THEN /\ child' = [child EXCEPT !["daily"] = "mobile"]
              /\ UNCHANGED <<phase, attempt, outcome, ended, errors, update, rejected>>
         ELSE TaskEnds("daily", how)
  BY DEF DailyAnswer
<1>4. CASE how = "empty" /\ HasMobile
  <2>1. /\ child' = [child EXCEPT !["daily"] = "mobile"]
        /\ UNCHANGED <<phase, attempt, outcome, ended, errors, update, rejected>>
    BY <1>3, <1>4
  <2>2. TypeOK'
    BY <2>1 DEF Inv, TypeOK
  <2>3. KeptInv' /\ KindInv'
    BY <1>1, <2>1 DEF Inv, TypeOK, KeptInv, KindInv
  <2> QED
    BY <1>2, <2>1, <2>2, <2>3 DEF Inv, OriginInv, PassInv, ReauthOnRejection
<1>5. CASE ~(how = "empty" /\ HasMobile)
  BY <1>1, <1>2, <1>3, <1>5, TaskEndsKeepsInv DEF Outcomes, Errors
<1> QED
  BY <1>4, <1>5

LEMMA MobileAnswerKeepsInv == ASSUME Inv, MobileAnswer PROVE Inv'
<1>1. "daily" \in Children /\ "daily" \notin Required /\ child["daily"] = "mobile"
  BY DEF MobileAnswer, Children, Required
<1>2. phase = "fetching"
  BY <1>1, RunningTask
<1>3. PICK how \in {"data", "empty"} \cup Errors : TaskEnds("daily", MobileDaily(how))
  BY DEF MobileAnswer
<1>4. MobileDaily(how) \in {"data", "empty", "other"}
  BY DEF MobileDaily, Errors
<1> QED
  BY <1>1, <1>2, <1>3, <1>4, TaskEndsKeepsInv DEF Outcomes, Errors

LEMMA CancelLandsKeepsInv ==
    ASSUME Inv, NEW k \in Children, CancelLands(k) PROVE Inv'
<1>1. child[k] = "cancelling" /\ TaskEnds(k, "cancelled")
  BY DEF CancelLands
<1>2. phase = "fetching"
  BY <1>1, RunningTask
<1> QED
  BY <1>1, <1>2, TaskEndsKeepsInv DEF Outcomes

\* The group keeps the error of the task it learns about.
LEMMA NoticedKeepsInv == ASSUME Inv, Noticed PROVE Inv'
<1> DEFINE how == outcome[Head(ended)]
<1>1. /\ ended # <<>> /\ ended' = Tail(ended)
      /\ UNCHANGED <<phase, attempt, outcome, update, rejected>>
  BY DEF Noticed
<1>2. /\ Head(ended) \in Children /\ ended' \in Seq(Children)
      /\ \A d : In(d, ended) => d = Head(ended) \/ In(d, ended')
  BY <1>1, InTail DEF Inv, TypeOK
<1>3. CASE how \in Errors
  <2>1. /\ errors' = Append(errors, how)
        /\ child' = [k \in Children |->
                       IF child[k] \in {"web", "mobile"} THEN "cancelling" ELSE child[k]]
    BY <1>3 DEF Noticed
  <2>2. /\ errors' \in Seq(Errors)
        /\ In(how, errors')
        /\ \A e : In(e, errors) => In(e, errors')
        /\ \A i \in 1..Len(errors') : errors'[i] = how \/ In(errors'[i], errors)
    BY <1>3, <2>1, InAppend DEF Inv, TypeOK
  <2>3. TypeOK'
    BY <1>1, <1>2, <2>1, <2>2 DEF Inv, TypeOK
  <2>4. \A k \in Children :
           /\ child'[k] = "done" <=> child[k] = "done"
           /\ child'[k] = "none" <=> child[k] = "none"
    BY <2>1 DEF Inv, TypeOK
  <2>5. KeptInv'
    BY <1>1, <1>2, <2>2, <2>4 DEF Inv, KeptInv
  <2>6. OriginInv'
    BY <1>1, <1>2, <2>2 DEF Inv, OriginInv, In
  <2>7. KindInv' /\ PassInv'
    BY <1>1, <2>4 DEF Inv, KindInv, PassInv
  <2> QED
    BY <1>1, <2>3, <2>5, <2>6, <2>7 DEF Inv, PassInv, ReauthOnRejection
<1>4. CASE how \notin Errors
  <2>1. UNCHANGED <<errors, child>>
    BY <1>4 DEF Noticed
  <2>2. KeptInv'
    BY <1>1, <1>2, <1>4, <2>1 DEF Inv, KeptInv
  <2> QED
    BY <1>1, <1>2, <2>1, <2>2
       DEF Inv, TypeOK, OriginInv, KindInv, PassInv, ReauthOnRejection
<1> QED
  BY <1>3, <1>4

\* The error that leaves the group is never one that asks for a password, and
\* if it is not an expiry no task of the group saw one.
LEMMA RaisedError ==
    ASSUME Inv, GroupOver, errors # <<>>
    PROVE  /\ FirstError \in Errors \ {"auth"}
           /\ \E k \in Children : outcome[k] = FirstError
           /\ FirstError # "expired" => \A k \in Children : outcome[k] # "expired"
<1>1. /\ FirstError \in Errors /\ In(FirstError, errors)
      /\ In("expired", errors) => FirstError = "expired"
  BY FirstErrorCollected DEF Inv, TypeOK
<1>2. PICK k \in Children : outcome[k] = FirstError
  BY <1>1 DEF Inv, OriginInv, In
<1>3. FirstError # "auth"
  BY <1>2 DEF Inv, KindInv, Children
<1>4. ASSUME NEW l \in Children, outcome[l] = "expired" PROVE FirstError = "expired"
  <2>1. child[l] = "done" /\ ended = <<>>
    BY DEF GroupOver
  <2>2. ~In(l, ended)
    BY <2>1 DEF In
  <2> QED
    BY <1>1, <1>4, <2>1, <2>2 DEF Inv, KeptInv, Errors
<1> QED
  BY <1>1, <1>2, <1>3, <1>4

LEMMA GroupEndsKeepsInv == ASSUME Inv, Fetched \/ FetchRaises PROVE Inv'
<1>1. /\ GroupOver /\ phase = "fetching"
      /\ UNCHANGED <<attempt, child, outcome, ended, errors, rejected>>
  BY DEF Fetched, FetchRaises
<1>2. /\ phase' \in {"idle", "renewing"} /\ (phase' = "renewing" => attempt = 1)
      /\ update' \in {"none", "data", "reauth", "failed", "crashed"}
      /\ ReauthOnRejection'
  <2>1. CASE Fetched
    BY <2>1 DEF Fetched, Ends, ReauthOnRejection
  <2>2. CASE FetchRaises
    <3>1. FirstError \in Errors \ {"auth"}
      BY <1>1, <2>2, RaisedError DEF FetchRaises
    <3>2. Update(FirstError) \in {"failed", "crashed"}
      BY <3>1 DEF Update, Errors
    <3> QED
      BY <2>2, <3>2 DEF FetchRaises, ShouldRenew, Ends, Inv, TypeOK, ReauthOnRejection
  <2> QED
    BY <2>1, <2>2
<1>3. \A k \in Children : child'[k] = "done"
  BY <1>1 DEF GroupOver
<1> QED
  BY <1>1, <1>2, <1>3 DEF Inv, TypeOK, Phases, KeptInv, OriginInv, KindInv, PassInv

LEMMA NextKeepsInv == Inv /\ [Next]_vars => Inv'
<1> SUFFICES ASSUME Inv, [Next]_vars PROVE Inv'
  OBVIOUS
<1>1. ASSUME NEW k \in Children, Task(k) PROVE Inv'
  BY <1>1, RequiredAnswerKeepsInv, CancelLandsKeepsInv DEF Task
<1>2. CASE UNCHANGED vars
  BY <1>2 DEF vars, Inv, TypeOK, KeptInv, OriginInv, KindInv, PassInv,
              ReauthOnRejection
<1> QED
  BY <1>1, <1>2, SessionStepsKeepInv, LoginFailsKeepsInv, DailyAnswerKeepsInv,
     MobileAnswerKeepsInv, NoticedKeepsInv, GroupEndsKeepsInv DEF Next, Progress

-------------------------------------------------------------------------------
\* The invariant of an update.
THEOREM PollInv == Spec => []Inv
<1>1. Init => Inv
  BY InitInv
<1>2. Inv /\ [Next]_vars => Inv'
  BY NextKeepsInv
<1> QED
  BY <1>1, <1>2, PTL DEF Spec

\* The type invariant: among others, run() never starts a third pass.
THEOREM PollTypeCorrect == Spec => []TypeOK
<1>1. Inv => TypeOK
  BY DEF Inv
<1> QED
  BY <1>1, PollInv, PTL

\* Only a login that the portal refused asks for a password.
THEOREM ReauthNeedsRejection == Spec => []ReauthOnRejection
<1>1. Inv => ReauthOnRejection
  BY DEF Inv
<1> QED
  BY <1>1, PollInv, PTL

\* A step that ends an update while it fetches is the end of the group.
LEMMA FetchingEnds ==
    ASSUME Inv, [Next]_vars, phase = "fetching", phase' = "idle"
    PROVE  /\ GroupOver /\ UNCHANGED outcome
           /\ \/ errors = <<>> /\ update' = "data"
              \/ errors # <<>> /\ ~ShouldRenew /\ update' = Update(FirstError)
<1>1. Fetched \/ FetchRaises
  BY DEF Next, Progress, vars, Start, Opened, Ensured, Renewed, LoginFails, Task,
         RequiredAnswer, CancelLands, DailyAnswer, MobileAnswer, Noticed, TaskEnds, Spawns
<1> QED
  BY <1>1 DEF Fetched, FetchRaises, Ends

\* An expiry wins over every error, in whatever order the group learnt of them.
THEOREM AnExpiryWins == Spec => ExpiryWins
<1>1. ASSUME Inv, [Next]_vars, phase = "fetching", phase' = "idle", attempt = 1,
             NEW k \in Children
      PROVE  outcome[k] # "expired"
  <2>1. CASE errors = <<>>
    <3>1. ended = <<>> /\ child[k] = "done"
      BY <1>1, FetchingEnds DEF GroupOver
    <3>2. ~In(k, ended) /\ ~In(outcome[k], errors)
      BY <2>1, <3>1 DEF In
    <3> QED
      BY <1>1, <3>1, <3>2 DEF Inv, KeptInv, Errors
  <2>2. CASE errors # <<>>
    <3>1. GroupOver /\ ~ShouldRenew
      BY <1>1, <2>2, FetchingEnds
    <3>2. FirstError # "expired"
      BY <1>1, <3>1 DEF ShouldRenew
    <3> QED
      BY <1>1, <2>2, <3>1, <3>2, RaisedError
  <2> QED
    BY <2>1, <2>2
<1>2. Inv /\ [Next]_vars =>
         [phase = "fetching" /\ phase' = "idle" /\ attempt = 1 =>
             \A k \in Children : outcome[k] # "expired"]_vars
  BY <1>1
<1> QED
  BY <1>2, PollInv, PTL DEF Spec, ExpiryWins

\* Of all the daily series may end with, only an expiry of the portal's session
\* and a payload of another shape keep an update from its data
\* (api.py:236-296).
THEOREM OnlyShapeBreaksTheDailySeries == Spec => DailyFailsByShapeOnly
<1>1. ASSUME Inv, [Next]_vars, phase = "fetching", phase' = "idle", update' # "data"
      PROVE  \/ \E k \in Required : outcome[k] \in Errors
             \/ outcome["daily"] = "expired"
             \/ outcome["daily"] = "other" /\ update' = "crashed"
  <2>1. GroupOver /\ errors # <<>> /\ update' = Update(FirstError)
    BY <1>1, FetchingEnds
  <2>2. FirstError \in Errors \ {"auth"}
    BY <1>1, <2>1, RaisedError
  <2>3. FirstError = "other" => update' = "crashed"
    BY <2>1 DEF Update
  <2>4. PICK k \in Children : outcome[k] = FirstError
    BY <1>1, <2>1, RaisedError
  <2>5. CASE k = "daily"
    <3>1. FirstError \in {"expired", "other"}
      BY <1>1, <2>2, <2>4, <2>5 DEF Inv, KindInv, Errors
    <3> QED
      BY <2>3, <2>4, <2>5, <3>1
  <2>6. CASE k \in Required
    BY <2>2, <2>4, <2>6
  <2> QED
    BY <2>5, <2>6 DEF Children
<1>2. Inv /\ [Next]_vars =>
         [phase = "fetching" /\ phase' = "idle" /\ update' # "data" =>
             \/ \E k \in Required : outcome[k] \in Errors
             \/ outcome["daily"] = "expired"
             \/ outcome["daily"] = "other" /\ update' = "crashed"]_vars
  BY <1>1
<1> QED
  BY <1>2, PollInv, PTL DEF Spec, DailyFailsByShapeOnly
===============================================================================
