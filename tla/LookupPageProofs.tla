-------------------------- MODULE LookupPageProofs --------------------------
(***************************************************************************)
(* The page for any inputs, shares and number of handlers that wait at a time:    *)
(* whatever fails and in whatever order the answers come, the flags end with the     *)
(* requests they stand for, and a report stays until another lookup or link.       *)
(***************************************************************************)
EXTENDS LookupPage, TLAPS

-----------------------------------------------------------------------------
(* The inductive invariant *)

LookingUp(c) == calls[c].step \in {"lookup", "resolve", "lookupShared"}
Sharing(c) == calls[c].step \in {"create", "copy"}

(* Somebody will reset each flag; two shares are never under way. *)
FlagsInv ==
  /\ busy => \E c \in Call : LookingUp(c)
  /\ sharing => \E c \in Call : Sharing(c)
  /\ \A c \in Call : Sharing(c) => sharing
  /\ \A c, d \in Call : Sharing(c) /\ Sharing(d) => c = d

(* Only a lookup shows a report, and none is under way in the client's mode. *)
ReportInv ==
  /\ shown = "report" => report = last /\ mode # "client"
  /\ \A c \in Call : LookingUp(c) => mode # "client"

IInv == FlagsInv /\ ReportInv

-----------------------------------------------------------------------------
(* Types *)

(* What a handler may wait for. *)
LEMMA WaitingTypes ==
  /\ Idle \in Waiting
  /\ \A step \in Step, input \in Input \cup {Nothing} : For(step, input) \in Waiting
  /\ \A w \in Waiting, b \in BOOLEAN : [w EXCEPT !.clear = b] \in Waiting
  /\ \A b \in Bearer : [Idle EXCEPT !.step = "resolve", !.bearer = b] \in Waiting
<1>1. Idle \in Waiting
  BY DEF Waiting, Idle, Step
<1>2. \A step \in Step, input \in Input \cup {Nothing} : For(step, input) \in Waiting
  BY DEF Waiting, Idle, For
<1>3. \A w \in Waiting, b \in BOOLEAN : [w EXCEPT !.clear = b] \in Waiting
  BY DEF Waiting
<1>4. \A b \in Bearer : [Idle EXCEPT !.step = "resolve", !.bearer = b] \in Waiting
  BY DEF Waiting, Idle, Step
<1> QED
  BY <1>1, <1>2, <1>3, <1>4

(* The step of a handler that waits for nothing. *)
LEMMA IdleStep == Idle.step = "idle"
BY DEF Idle

(* Every step keeps the types.                                                *)
LEMMA ValuesStep == TypeOK /\ [Next]_vars => ValuesOK'
<1> SUFFICES ASSUME ValuesOK, BearersOK, [Next]_vars PROVE ValuesOK'
  BY DEF TypeOK
<1> USE DEF ValuesOK, location, results, link
<1>1. ASSUME NEW text \in Input \cup {Nothing}, Type(text)
      PROVE  ValuesOK'
  BY <1>1 DEF Type
<1>2. ASSUME NEW c \in Call, ClientAnswers(c)
      PROVE  ValuesOK'
  BY <1>2, WaitingTypes DEF ClientAnswers, End
<1>3. ASSUME NEW c \in Call, Submit(c)
      PROVE  ValuesOK'
  <2>1. For("lookup", field) \in Waiting
    BY WaitingTypes DEF Step
  <2>2. calls' \in [Call -> Waiting]
    BY <1>3, <2>1, WaitingTypes DEF Submit, Begin
  <2> QED
    BY <1>3, <2>2 DEF Submit
<1>4. ASSUME NEW c \in Call, LookupAnswers(c)
      PROVE  ValuesOK'
  <2>1. calls[c].input \in Input \cup {Nothing}
    BY DEF Waiting
  <2> QED
    BY <1>4, <2>1, WaitingTypes DEF LookupAnswers, End, ShowReport, ClearHash
<1>5. ASSUME NEW c \in Call, LookupFails(c)
      PROVE  ValuesOK'
  BY <1>5, WaitingTypes DEF LookupFails, End
<1>6. ASSUME NEW c \in Call, NEW b \in Bearer, FollowLink(c, b)
      PROVE  ValuesOK'
  BY <1>6, WaitingTypes DEF FollowLink, Begin
<1>7. ASSUME NEW c \in Call, ShareResolves(c)
      PROVE  ValuesOK'
  <2>1. shares[calls[c].bearer] \in Input \cup {Nothing}
    BY <1>7 DEF ShareResolves, BearersOK
  <2> DEFINE w == [calls[c] EXCEPT !.step = "lookupShared", !.input = shares[calls[c].bearer]]
  <2>2. w \in Waiting
    BY <2>1 DEF Waiting, Step
  <2>3. calls' = [calls EXCEPT ![c] = w]
    BY <1>7 DEF ShareResolves
  <2>4. calls' \in [Call -> Waiting]
    <3> HIDE DEF w
    <3> QED
      BY <2>2, <2>3
  <2> QED
    BY <1>7, <2>1, <2>4 DEF ShareResolves
<1>8. ASSUME NEW c \in Call, SharedLookupAnswers(c)
      PROVE  ValuesOK'
  <2>1. calls[c].input \in Input \cup {Nothing} /\ calls[c].bearer \in Bearer \cup {Nothing}
    BY DEF Waiting
  <2> QED
    BY <1>8, <2>1, WaitingTypes DEF SharedLookupAnswers, End, ShowReport
<1>9. ASSUME NEW c \in Call, SharedLookupFails(c)
      PROVE  ValuesOK'
  BY <1>9, WaitingTypes DEF SharedLookupFails, End, ClearHash
<1>10. ASSUME NEW c \in Call, ShareClick(c)
      PROVE  ValuesOK'
  <2>1. last \in Input /\ (shareFor = last => shares[sharePath] \in Input \cup {Nothing})
    BY <1>10 DEF ShareClick, CanShare, BearersOK
  <2>2. For("create", last) \in Waiting /\ For("copy", last) \in Waiting
    BY <2>1, WaitingTypes DEF Step
  <2>3. calls' \in [Call -> Waiting]
    BY <1>10, <2>2 DEF ShareClick, Begin
  <2> QED
    BY <1>10, <2>1, <2>3 DEF ShareClick, Copy
<1>11. ASSUME NEW c \in Call, ShareCreated(c)
      PROVE  ValuesOK'
  BY <1>11 DEF ShareCreated, Copy, Waiting, Step
<1>12. ASSUME NEW c \in Call, ShareEnds(c)
      PROVE  ValuesOK'
  BY <1>12, WaitingTypes DEF ShareEnds, End
<1>13. CASE LeaveLink
  BY <1>13 DEF LeaveLink
<1>14. CASE UNCHANGED vars
  BY <1>14 DEF vars
<1> QED
  BY <1>1, <1>2, <1>3, <1>4, <1>5, <1>6, <1>7, <1>8, <1>9, <1>10, <1>11, <1>12, <1>13, <1>14
     DEF Next

(* A handler that asks for a share keeps its bearer.                              *)
LEMMA BearersStep == TypeOK /\ [Next]_vars => BearersOK'
<1> SUFFICES ASSUME ValuesOK, BearersOK, [Next]_vars PROVE BearersOK'
  BY DEF TypeOK
<1> USE DEF BearersOK, location, results, link
<1>0. calls \in [Call -> Waiting]
  BY DEF ValuesOK
<1>1. ASSUME NEW c \in Call,
             \/ ClientAnswers(c) \/ LookupAnswers(c) \/ LookupFails(c)
             \/ SharedLookupFails(c) \/ ShareEnds(c)
      PROVE  BearersOK'
  BY <1>0, <1>1, IdleStep
     DEF ClientAnswers, LookupAnswers, LookupFails, SharedLookupFails, ShareEnds, End
<1>2. ASSUME NEW c \in Call, Submit(c)
      PROVE  BearersOK'
  BY <1>0, <1>2 DEF Submit, Begin, For, Idle
<1>3. ASSUME NEW c \in Call, NEW b \in Bearer, FollowLink(c, b)
      PROVE  BearersOK'
  BY <1>0, <1>3 DEF FollowLink, Begin, Idle
<1>4. ASSUME NEW c \in Call, ShareResolves(c)
      PROVE  BearersOK'
  BY <1>0, <1>4 DEF ShareResolves, Waiting
<1>5. ASSUME NEW c \in Call, SharedLookupAnswers(c)
      PROVE  BearersOK'
  BY <1>0, <1>5, IdleStep DEF SharedLookupAnswers, End
<1>6. ASSUME NEW c \in Call, ShareClick(c)
      PROVE  BearersOK'
  BY <1>0, <1>6 DEF ShareClick, Begin, For, Idle
<1>7. ASSUME NEW c \in Call, ShareCreated(c)
      PROVE  BearersOK'
  BY <1>0, <1>7 DEF ShareCreated, Waiting
<1>8. CASE LeaveLink \/ UNCHANGED vars \/ \E text \in Input \cup {Nothing} : Type(text)
  BY <1>8 DEF LeaveLink, vars, Type
<1> QED
  BY <1>1, <1>2, <1>3, <1>4, <1>5, <1>6, <1>7, <1>8 DEF Next

(* The variables of the page keep their types, and links their bearers.              *)
THEOREM TypeCorrect == Spec => []TypeOK
<1>1. Init => TypeOK
  <2> SUFFICES ASSUME Init PROVE TypeOK
    OBVIOUS
  <2>1. PICK c \in Call : calls = [x \in Call |->
          IF x # c THEN Idle
          ELSE IF hash = Nothing THEN [Idle EXCEPT !.step = "client"]
          ELSE [Idle EXCEPT !.step = "resolve", !.bearer = hash]]
    BY DEF Init
  <2>2. hash \in Bearer \cup {Nothing}
    BY DEF Init
  <2>3. calls \in [Call -> Waiting]
    BY <2>1, <2>2 DEF Waiting, Step, Idle
  <2>4. BearersOK
    BY <2>1, <2>2 DEF BearersOK, Idle, Init
  <2>5. busy \in BOOLEAN
    BY DEF Init
  <2>6. ValuesOK
    BY <2>2, <2>3, <2>5 DEF Init, ValuesOK, NoCopy
  <2> QED
    BY <2>4, <2>6 DEF TypeOK
<1>2. TypeOK /\ [Next]_vars => TypeOK'
  BY ValuesStep, BearersStep DEF TypeOK
<1> QED
  BY <1>1, <1>2, PTL DEF Spec

-----------------------------------------------------------------------------
(* The invariant *)

(* The page is opened with at most one request under way, whose flag is set.          *)
LEMMA InitInv == Init => IInv
<1> SUFFICES ASSUME Init PROVE IInv
  OBVIOUS
<1>1. PICK c \in Call : calls = [x \in Call |->
        IF x # c THEN Idle
        ELSE IF hash = Nothing THEN [Idle EXCEPT !.step = "client"]
        ELSE [Idle EXCEPT !.step = "resolve", !.bearer = hash]]
  BY DEF Init
<1>2. (busy => LookingUp(c)) /\ \A d \in Call : LookingUp(d) => mode # "client"
  BY <1>1 DEF Init, LookingUp, Idle
<1>3. \A d \in Call : ~Sharing(d)
  BY <1>1 DEF Sharing, Idle
<1>4. ~sharing /\ shown = "loading"
  BY DEF Init
<1> QED
  BY <1>2, <1>3, <1>4 DEF IInv, FlagsInv, ReportInv

(* Each step that ends a request resets the flag of the request, and of it alone.       *)
LEMMA FlagsStep == TypeOK /\ IInv /\ [Next]_vars => FlagsInv'
<1> SUFFICES ASSUME calls \in [Call -> Waiting], FlagsInv, [Next]_vars PROVE FlagsInv'
  BY DEF TypeOK, ValuesOK, IInv
<1> USE IdleStep DEF FlagsInv, LookingUp, Sharing
<1>1. ASSUME NEW c \in Call, ClientAnswers(c)
      PROVE  FlagsInv'
  BY <1>1 DEF ClientAnswers, End
<1>2. ASSUME NEW c \in Call, Submit(c)
      PROVE  FlagsInv'
  BY <1>2 DEF Submit, Begin, For, Idle
<1>3. ASSUME NEW c \in Call, LookupAnswers(c) \/ LookupFails(c) \/ SharedLookupAnswers(c) \/ SharedLookupFails(c)
      PROVE  FlagsInv'
  BY <1>3 DEF LookupAnswers, LookupFails, SharedLookupAnswers, SharedLookupFails, End
<1>4. ASSUME NEW c \in Call, NEW b \in Bearer, FollowLink(c, b)
      PROVE  FlagsInv'
  BY <1>4 DEF FollowLink, Begin, Idle
<1>5. ASSUME NEW c \in Call, ShareResolves(c)
      PROVE  FlagsInv'
  BY <1>5 DEF ShareResolves, Waiting
<1>6. ASSUME NEW c \in Call, ShareClick(c)
      PROVE  FlagsInv'
  BY <1>6 DEF ShareClick, CanShare, Begin, For, Idle
<1>7. ASSUME NEW c \in Call, ShareCreated(c)
      PROVE  FlagsInv'
  BY <1>7 DEF ShareCreated, Waiting
<1>8. ASSUME NEW c \in Call, ShareEnds(c)
      PROVE  FlagsInv'
  BY <1>8 DEF ShareEnds, End
<1>9. CASE LeaveLink \/ UNCHANGED vars \/ \E text \in Input \cup {Nothing} : Type(text)
  BY <1>9 DEF LeaveLink, vars, Type
<1> QED
  BY <1>1, <1>2, <1>3, <1>4, <1>5, <1>6, <1>7, <1>8, <1>9 DEF Next

(* A report is shown together with last, by a lookup, which has taken the mode.        *)
LEMMA ReportStep == TypeOK /\ IInv /\ [Next]_vars => ReportInv'
<1> SUFFICES ASSUME calls \in [Call -> Waiting], ReportInv, [Next]_vars PROVE ReportInv'
  BY DEF TypeOK, ValuesOK, IInv
<1> USE IdleStep DEF ReportInv, LookingUp, location, results, link
<1>1. ASSUME NEW c \in Call, ClientAnswers(c)
      PROVE  ReportInv'
  BY <1>1 DEF ClientAnswers, End
<1>2. ASSUME NEW c \in Call, Submit(c)
      PROVE  ReportInv'
  BY <1>2 DEF Submit, Begin, For, Idle
<1>3. ASSUME NEW c \in Call, LookupAnswers(c) \/ SharedLookupAnswers(c)
      PROVE  ReportInv'
  BY <1>3 DEF LookupAnswers, SharedLookupAnswers, ShowReport, End
<1>4. ASSUME NEW c \in Call, LookupFails(c) \/ SharedLookupFails(c)
      PROVE  ReportInv'
  BY <1>4 DEF LookupFails, SharedLookupFails, End
<1>5. ASSUME NEW c \in Call, NEW b \in Bearer, FollowLink(c, b)
      PROVE  ReportInv'
  BY <1>5 DEF FollowLink, Begin
<1>6. ASSUME NEW c \in Call, ShareResolves(c)
      PROVE  ReportInv'
  BY <1>6 DEF ShareResolves, Waiting
<1>7. ASSUME NEW c \in Call, ShareClick(c)
      PROVE  ReportInv'
  BY <1>7 DEF ShareClick, Begin, For, Idle
<1>8. ASSUME NEW c \in Call, ShareCreated(c)
      PROVE  ReportInv'
  BY <1>8 DEF ShareCreated, Waiting
<1>9. ASSUME NEW c \in Call, ShareEnds(c)
      PROVE  ReportInv'
  BY <1>9 DEF ShareEnds, End
<1>10. CASE LeaveLink \/ UNCHANGED vars \/ \E text \in Input \cup {Nothing} : Type(text)
  BY <1>10 DEF LeaveLink, vars, Type
<1> QED
  BY <1>1, <1>2, <1>3, <1>4, <1>5, <1>6, <1>7, <1>8, <1>9, <1>10 DEF Next

(* Both parts hold in every state that can be reached.                             *)
THEOREM InvariantHolds == Spec => [](TypeOK /\ IInv)
<1>1. TypeOK /\ IInv /\ [Next]_vars => IInv'
  BY FlagsStep, ReportStep DEF IInv
<1> QED
  BY InitInv, TypeCorrect, <1>1, PTL DEF Spec

-----------------------------------------------------------------------------
(* What the page promises *)

(* When no request is under way the form and the share button can be used.              *)
THEOREM QuietPageIsReady == Spec => []QuietIsReady
<1>1. IInv => QuietIsReady
  BY IdleStep DEF IInv, FlagsInv, QuietIsReady, LookingUp, Sharing
<1> QED
  BY InvariantHolds, <1>1, PTL

(* The report on the page is that of the lookup the share button takes for the last.      *)
THEOREM ReportAgreesWithLast == Spec => []ReportIsLast
<1>1. IInv => ReportIsLast
  BY DEF IInv, ReportInv, ReportIsLast
<1> QED
  BY InvariantHolds, <1>1, PTL

(* The late answer about the client's own address replaces no report.                 *)
THEOREM ClientYieldsToReport == Spec => ReportStays
<1>1. TypeOK /\ IInv /\ [Next]_vars => [shown = "report" => shown' # "client"]_vars
  <2> SUFFICES ASSUME ReportInv, shown = "report", [Next]_vars PROVE shown' # "client"
    BY DEF IInv
  <2> USE DEF results
  <2>1. ASSUME NEW c \in Call, ClientAnswers(c)
        PROVE  shown' # "client"
    BY <2>1 DEF ClientAnswers, ReportInv
  <2>2. ASSUME NEW c \in Call,
               \/ Submit(c) \/ LookupAnswers(c) \/ LookupFails(c)
               \/ \E b \in Bearer : FollowLink(c, b)
               \/ ShareResolves(c) \/ SharedLookupAnswers(c) \/ SharedLookupFails(c)
        PROVE  shown' # "client"
    BY <2>2 DEF Submit, LookupAnswers, LookupFails, FollowLink, ShareResolves,
                SharedLookupAnswers, SharedLookupFails, ShowReport
  <2>3. ASSUME NEW c \in Call, ShareClick(c) \/ ShareCreated(c) \/ ShareEnds(c)
        PROVE  shown' # "client"
    BY <2>3 DEF ShareClick, ShareCreated, ShareEnds
  <2>4. CASE LeaveLink \/ UNCHANGED vars \/ \E text \in Input \cup {Nothing} : Type(text)
    BY <2>4 DEF LeaveLink, vars, Type
  <2> QED
    BY <2>1, <2>2, <2>3, <2>4 DEF Next
<1> QED
  BY InvariantHolds, <1>1, PTL DEF Spec, ReportStays
=============================================================================
