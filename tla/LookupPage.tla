----------------------------- MODULE LookupPage -----------------------------
(***************************************************************************)
(* The page of the lookup form (src/internal/server/static/app.js): one thread,  *)
(* whose handlers give way at every await.  Between a request and its answer the   *)
(* user may type, look up, share and follow links, and answers come in any order.   *)
(*                                                                         *)
(* An input stands for its encoded body and its report as well.  Whitespace is no    *)
(* input; an input beyond the size limit, which is only complained about, is left    *)
(* out, and so are sorting, filters, details and timers.                      *)
(***************************************************************************)
EXTENDS Naturals

CONSTANTS
  Input,
  WithoutAddress,    \* the inputs with nothing to report
  Bearer,            \* of shares
  Call,              \* the handlers that may be waiting at a time
  Nothing

VARIABLES
  field,        \* the text area
  hash,         \* the bearer in the address bar
  mode,         \* state.mode
  busy, sharing,
  shown,        \* the results: loading, client, report or unavailable
  report,       \* the input of state.report
  last,         \* lastLookupInput
  shareFor, sharePath,   \* the input of shareLookupBody, the bearer of sharePath
  sharedInput,  \* sharedLookupInput
  calls,        \* what each handler waits for
  shares,       \* on the server: the input of each bearer
  copied        \* history: the last link copied, with what was the current lookup then

location == <<hash, sharedInput>>
results  == <<mode, shown, report, last>>
link     == <<shareFor, sharePath, copied>>
vars     == <<field, busy, sharing, calls, shares, location, results, link>>

Step == {"idle", "client", "lookup", "resolve", "lookupShared", "create", "copy"}
Waiting == [step : Step, input : Input \cup {Nothing}, bearer : Bearer \cup {Nothing},
            clear : BOOLEAN]
Idle == [step |-> "idle", input |-> Nothing, bearer |-> Nothing, clear |-> FALSE]
For(step, input) == [Idle EXCEPT !.step = step, !.input = input]

Begin(c, waiting) == calls[c] = Idle /\ calls' = [calls EXCEPT ![c] = waiting]
End(c) == calls' = [calls EXCEPT ![c] = Idle]

NoCopy == [of |-> Nothing, clicked |-> Nothing, current |-> Nothing]

(* The page is opened, with a link to a share or without.                          *)
Init ==
  /\ field = Nothing
  /\ hash \in Bearer \cup {Nothing}
  /\ mode = IF hash = Nothing THEN "client" ELSE "share"
  /\ busy = (hash # Nothing) /\ sharing = FALSE
  /\ shown = "loading" /\ report = Nothing /\ last = Nothing
  /\ shareFor = Nothing /\ sharePath = Nothing /\ sharedInput = Nothing
  /\ shares \in [Bearer -> Input \cup {Nothing}]
  /\ copied = NoCopy
  /\ \E c \in Call : calls = [x \in Call |->
       IF x # c THEN Idle
       ELSE IF hash = Nothing THEN [Idle EXCEPT !.step = "client"]
       ELSE [Idle EXCEPT !.step = "resolve", !.bearer = hash]]

Type(text) ==
  /\ field' = text
  /\ UNCHANGED <<busy, sharing, calls, shares, location, results, link>>

-----------------------------------------------------------------------------
(* loadClientIPReport: it yields to whatever was begun meanwhile.                   *)

ClientAnswers(c) ==
  /\ calls[c].step = "client"
  /\ End(c)
  /\ IF mode = "client"
     THEN /\ report' = Nothing
          /\ shown' \in {"client", "unavailable"}
     ELSE UNCHANGED <<report, shown>>
  /\ UNCHANGED <<field, busy, sharing, shares, location, mode, last, link>>

-----------------------------------------------------------------------------
(* handleLookupSubmit *)

Submit(c) ==
  /\ ~busy /\ field # Nothing /\ field # last
  /\ Begin(c, [For("lookup", field) EXCEPT
       !.clear = sharedInput # Nothing /\ field # sharedInput])
  /\ mode' = "lookup" /\ busy' = TRUE
  /\ UNCHANGED <<field, sharing, shares, location, shown, report, last, link>>

(* rememberLookup, loadReport and renderApp *)
ShowReport(input) == last' = input /\ report' = input /\ shown' = "report"

ClearHash == hash' = Nothing /\ sharedInput' = Nothing

LookupAnswers(c) ==
  /\ calls[c].step = "lookup"
  /\ End(c)
  /\ ShowReport(calls[c].input)
  /\ IF calls[c].clear THEN ClearHash ELSE UNCHANGED location
  /\ busy' = FALSE
  /\ UNCHANGED <<field, sharing, shares, mode, link>>

LookupFails(c) ==
  /\ calls[c].step = "lookup"
  /\ End(c)
  /\ busy' = FALSE
  /\ UNCHANGED <<field, sharing, shares, location, results, link>>

-----------------------------------------------------------------------------
(* handleHashChange and loadSharedLookup *)

FollowLink(c, b) ==
  /\ b # hash /\ hash' = b
  /\ Begin(c, [Idle EXCEPT !.step = "resolve", !.bearer = b])
  /\ mode' = "share" /\ shown' = "loading"
  /\ field' = Nothing
  /\ busy' = TRUE
  /\ UNCHANGED <<sharing, shares, sharedInput, report, last, link>>

(* The address changes to one without a bearer: nothing is done.                   *)
LeaveLink ==
  /\ hash # Nothing /\ hash' = Nothing
  /\ UNCHANGED <<field, busy, sharing, calls, shares, sharedInput, results, link>>

ShareResolves(c) ==
  /\ calls[c].step = "resolve"
  /\ LET input == shares[calls[c].bearer]
     IN /\ input # Nothing
        /\ field' = input
        /\ calls' = [calls EXCEPT ![c].step = "lookupShared", ![c].input = input]
  /\ UNCHANGED <<busy, sharing, shares, location, results, link>>

SharedLookupAnswers(c) ==
  /\ calls[c].step = "lookupShared"
  /\ End(c)
  /\ ShowReport(calls[c].input)
  /\ shareFor' = calls[c].input /\ sharePath' = calls[c].bearer
  /\ sharedInput' = calls[c].input
  /\ busy' = FALSE
  /\ UNCHANGED <<field, sharing, shares, hash, mode, copied>>

(* The share is gone, or a request fails.                                        *)
SharedLookupFails(c) ==
  /\ calls[c].step \in {"resolve", "lookupShared"}
  /\ End(c)
  /\ ClearHash
  /\ shown' = "unavailable"
  /\ busy' = FALSE
  /\ UNCHANGED <<field, sharing, shares, mode, report, last, link>>

-----------------------------------------------------------------------------
(* handleShareClick; the button is part of the report.                           *)

CanShare ==
  /\ ~busy /\ ~sharing
  /\ last # Nothing /\ last \notin WithoutAddress
  /\ field = last

(* copySharePath reads the state when it is called; clicked is the lookup of the click.  *)
Copy(of, clicked, current) ==
  copied' = [of |-> of, clicked |-> clicked, current |-> current]

ShareClick(c) ==
  /\ shown = "report" /\ CanShare
  /\ sharing' = TRUE
  /\ IF shareFor # last
     THEN Begin(c, For("create", last)) /\ UNCHANGED copied
     ELSE Begin(c, For("copy", last)) /\ Copy(shares[sharePath], last, last)
  /\ UNCHANGED <<field, busy, shares, location, results, shareFor, sharePath>>

(* The lookup remembered for the new share is the one that is current by now.         *)
ShareCreated(c) ==
  /\ calls[c].step = "create"
  /\ \E b \in Bearer :
       /\ shares[b] = Nothing /\ b # hash
       /\ shares' = [shares EXCEPT ![b] = calls[c].input]
       /\ sharePath' = b
       /\ Copy(calls[c].input, calls[c].input, last)
  /\ shareFor' = last
  /\ calls' = [calls EXCEPT ![c].step = "copy"]
  /\ UNCHANGED <<field, busy, sharing, location, results>>

(* The clipboard took the link or not, or the request failed.                        *)
ShareEnds(c) ==
  /\ calls[c].step \in {"create", "copy"}
  /\ End(c)
  /\ sharing' = FALSE
  /\ UNCHANGED <<field, busy, shares, location, results, link>>

-----------------------------------------------------------------------------
Next ==
  \/ \E text \in Input \cup {Nothing} : Type(text)
  \/ \E c \in Call :
       \/ ClientAnswers(c)
       \/ Submit(c) \/ LookupAnswers(c) \/ LookupFails(c)
       \/ \E b \in Bearer : FollowLink(c, b)
       \/ ShareResolves(c) \/ SharedLookupAnswers(c) \/ SharedLookupFails(c)
       \/ ShareClick(c) \/ ShareCreated(c) \/ ShareEnds(c)
  \/ LeaveLink

Spec == Init /\ [][Next]_vars

-----------------------------------------------------------------------------
(* Properties *)

ValuesOK ==
  /\ {field, report, last, shareFor, sharedInput} \subseteq Input \cup {Nothing}
  /\ {hash, sharePath} \subseteq Bearer \cup {Nothing}
  /\ mode \in {"client", "share", "lookup"}
  /\ shown \in {"loading", "client", "report", "unavailable"}
  /\ busy \in BOOLEAN /\ sharing \in BOOLEAN
  /\ calls \in [Call -> Waiting]
  /\ shares \in [Bearer -> Input \cup {Nothing}]
  /\ copied \in [of : Input \cup {Nothing}, clicked : Input \cup {Nothing},
                 current : Input \cup {Nothing}]

BearersOK ==
  /\ \A c \in Call :
       calls[c].step \in {"resolve", "lookupShared"} => calls[c].bearer \in Bearer
  /\ shareFor # Nothing => sharePath \in Bearer

TypeOK == ValuesOK /\ BearersOK

(* "Copy a link to the current lookup.", says the button: the link leads to the lookup   *)
(* that was current when it was clicked, or at least when the link was copied.          *)
CopiedLinkIsCurrent == copied.of \in {copied.clicked, copied.current}

(* When no request is under way the form can be used: whatever failed, and in whatever   *)
(* order the answers came, no flag is left set.                                   *)
QuietIsReady == (\A c \in Call : calls[c] = Idle) => ~busy /\ ~sharing

(* The report on the page is that of the lookup the share button takes for the last.      *)
ReportIsLast == shown = "report" => report = last

(* The late answer about the client's own address never replaces a report.              *)
ReportStays == [][shown = "report" => shown' # "client"]_vars
=============================================================================
