------------------------------ MODULE Console ------------------------------
(* The web console: the order store behind the page, the agent drawer and the *)
(* approval card inside it. Page loads and agent requests are asynchronous:   *)
(* they answer late, in any order, or not at all, while the user selects      *)
(* another order, closes the drawer, follows an order switch or leaves for    *)
(* the run history. Request sequence numbers decide which answers count.      *)
(*                                                                            *)
(* Vue flushes watchers in the microtasks after a change, before the next     *)
(* event, so a handler and the watchers it triggers are one step. The agent   *)
(* service decides a request when the console hears of it, or later when the  *)
(* console has stopped waiting. The timeline of SSE events is RunEventClient. *)
EXTENDS Integers, Sequences

CONSTANTS
    Orders, FirstOrder,  \* the orders of the list, and the one shown at start
    MaxApprovals,        \* bound: approvals the service creates
    MaxRequests,         \* bound: page loads and agent requests together
    MaxSeq               \* bound: request sequence at which the view is left

ASSUME ConsoleAssumption ==
    FirstOrder \in Orders /\ MaxApprovals \in Nat /\ MaxRequests \in Nat /\ MaxSeq \in Nat

VARIABLES
    page,       \* the order store: listed, selected, overview, seq, loading, error
    loads,      \* overview requests under way
    drawer,     \* the agent drawer
    card,       \* the approval card
    calls,      \* agent requests under way
    approvals,  \* the approvals of the agent service, in the order of their creation
    issued      \* number of agent requests made

vars == <<page, loads, drawer, card, calls, approvals, issued>>

NoOrder == "NO_ORDER"
NoSession == "NO_SESSION"
NoError == [of |-> "none", retryable |-> FALSE]
NoResult == [kind |-> "none"]
NoCard == [pending |-> "none", dialog |-> FALSE, from |-> 0, conclusion |-> "none", comment |-> FALSE]
Conclusions == {"APPROVED", "REWORK_REQUIRED"}

(* loading, acting, switching are loading, actionLoading, switchingOrder; seq *)
(* is requestSequence; session names the order its first message was about.   *)
FreshDrawer(n) ==
    [up |-> TRUE, visible |-> FALSE, seq |-> n, loading |-> FALSE, acting |-> FALSE, switching |-> FALSE,
     result |-> NoResult, error |-> NoError, session |-> NoSession, last |-> "none"]

Init ==
    /\ page = [listed |-> "fetching", selected |-> FirstOrder, overview |-> NoOrder, seq |-> 0,
               loading |-> FALSE, error |-> FALSE]
    /\ loads = {} /\ calls = {} /\ issued = 0
    /\ drawer = FreshDrawer(0)
    /\ card = NoCard
    /\ approvals = <<>>

Requests == page.seq + issued
Busy(d) == d.loading \/ d.acting \/ d.switching

----------------------------------------------------------------------------
(* The card inside the drawer. *)

Shown(d) == d.visible /\ d.result.kind = "APPROVAL"
Submitting(d) == d.acting \/ d.loading

ResetFromApproval(r) ==
    [NoCard EXCEPT !.from = r.approval, !.conclusion = r.conclusion, !.comment = TRUE]

(* The card is mounted with the result and unmounted with the drawer; its      *)
(* watchers reset it when the approval or its status changes, and unlock it    *)
(* when the request of the drawer ended and the approval still waits.          *)
Watched(c, d, e) ==
    IF ~Shown(e) THEN NoCard
    ELSE IF ~Shown(d) \/ d.result.approval # e.result.approval \/ d.result.status # e.result.status
         THEN ResetFromApproval(e.result)
    ELSE IF Submitting(d) /\ ~Submitting(e) /\ e.result.status = "WAITING_CONFIRMATION"
         THEN [c EXCEPT !.pending = "none"]
    ELSE c

Draw(c, e) == drawer' = e /\ card' = Watched(c, drawer, e)

----------------------------------------------------------------------------
(* Leaving an order: the sequence moves on, the event stream is closed and the *)
(* requests still waiting for it are rejected.                                 *)

MutResetKeepsSession(d) ==
    [d EXCEPT !.seq = @ + 1, !.loading = FALSE, !.acting = FALSE, !.result = NoResult,
              !.error = NoError, !.last = "none"]

ResetConversation(d) ==
    [d EXCEPT !.seq = @ + 1, !.loading = FALSE, !.acting = FALSE, !.result = NoResult,
              !.error = NoError, !.session = NoSession, !.last = "none"]

Connected(cs) == {c \in cs : c.stage = "sent"}

(* connectEventStream and the request that follows it. *)
Opened(order, d, kind, content, approval, conclusion) ==
    [kind |-> kind, order |-> order, seq |-> d.seq + 1, session |-> NoSession, content |-> content,
     approval |-> approval, conclusion |-> conclusion, stage |-> "connecting", waiting |-> TRUE]

(* submitAgent and submitFixedDiagnosis after their guards; only the first     *)
(* remembers what it sent.                                                     *)
Submitted(d, kind, content) ==
    [d EXCEPT !.seq = @ + 1, !.loading = TRUE, !.error = NoError, !.result = NoResult,
              !.last = IF kind = "message" THEN content ELSE @]

----------------------------------------------------------------------------
(* The order store. *)

(* What the page shows changes the order of the drawer, whose watcher resets  *)
(* the conversation.                                                          *)
Display(p) ==
    /\ page' = p
    /\ IF p.overview # page.overview /\ drawer.up
       THEN Draw(card, ResetConversation(drawer)) /\ calls' = Connected(calls)
       ELSE UNCHANGED <<drawer, card, calls>>

Selecting(p, o) == [p EXCEPT !.selected = o, !.seq = @ + 1, !.loading = TRUE, !.error = FALSE]
Load(o, by) == [order |-> o, seq |-> page.seq + 1, by |-> by, dseq |-> drawer.seq]

Initialize(ok) ==
    /\ page.listed = "fetching"
    /\ IF ok
       THEN /\ page' = Selecting([page EXCEPT !.listed = "yes"], FirstOrder)
            /\ loads' = loads \cup {Load(FirstOrder, "page")}
       ELSE page' = [page EXCEPT !.listed = "no", !.error = TRUE] /\ UNCHANGED loads
    /\ UNCHANGED <<drawer, card, calls, approvals, issued>>

(* The open drawer covers the list and the navigation. *)
SelectOrder(o) ==
    /\ drawer.up /\ ~drawer.visible /\ page.listed = "yes" /\ Requests < MaxRequests
    /\ page' = Selecting(page, o)
    /\ loads' = loads \cup {Load(o, "page")}
    /\ UNCHANGED <<drawer, card, calls, approvals, issued>>

Retry ==
    /\ drawer.up /\ ~drawer.visible /\ page.error
    /\ IF page.listed = "yes"
       THEN SelectOrder(page.selected)
       ELSE /\ page' = [page EXCEPT !.listed = "fetching", !.error = FALSE]
            /\ UNCHANGED <<loads, drawer, card, calls, approvals, issued>>

(* selectOrder after its request. *)
PageLoaded(l, ok) ==
    /\ l.by = "page"
    /\ loads' = loads \ {l}
    /\ IF l.seq # page.seq
       THEN UNCHANGED <<page, drawer, card, calls>>
       ELSE Display([page EXCEPT !.overview = IF ok THEN l.order ELSE NoOrder,
                                 !.error = ~ok, !.loading = FALSE])
    /\ UNCHANGED <<approvals, issued>>

(* switchOrderForAgent after its request, and confirmOrderSwitch after it: the *)
(* question is asked again on the new page. A drawer that was unmounted        *)
(* meanwhile does not go on.                                                   *)
SwitchLoaded(l) ==
    /\ l.seq = page.seq /\ l.by # "page"
    /\ loads' = loads \ {l}
    /\ LET p == [page EXCEPT !.selected = l.order, !.overview = l.order, !.error = FALSE, !.loading = FALSE]
           d == [ResetConversation(drawer) EXCEPT !.switching = FALSE]
       IN IF l.by = "gone" THEN Display(p)
          ELSE /\ page' = p
               /\ IF d.seq = l.dseq + 1
                  THEN /\ Draw(card, Submitted(d, "message", "typed"))
                       /\ calls' = Connected(calls) \cup {Opened(l.order, d, "message", "typed", 0, "none")}
                  ELSE Draw(card, d) /\ calls' = Connected(calls)
    /\ UNCHANGED <<approvals, issued>>

SwitchFailed(l) ==
    /\ l.by # "page"
    /\ loads' = loads \ {l}
    /\ page' = IF l.seq = page.seq THEN [page EXCEPT !.loading = FALSE] ELSE page
    /\ IF l.by = "gone" THEN UNCHANGED <<drawer, card>>
       ELSE Draw(card, [drawer EXCEPT !.switching = FALSE,
                        !.error = IF l.dseq = drawer.seq THEN [of |-> "switch", retryable |-> FALSE] ELSE @])
    /\ UNCHANGED <<calls, approvals, issued>>

----------------------------------------------------------------------------
(* What the user does in the drawer. *)

OpenDrawer ==
    /\ drawer.up /\ ~drawer.visible /\ page.overview # NoOrder
    /\ Draw(card, [drawer EXCEPT !.visible = TRUE])
    /\ UNCHANGED <<page, loads, calls, approvals, issued>>

CloseDrawer ==
    /\ drawer.visible
    /\ Draw(card, [drawer EXCEPT !.visible = FALSE])
    /\ UNCHANGED <<page, loads, calls, approvals, issued>>

(* The view of the run history unmounts the drawer; coming back mounts a new one. *)
LeaveBusinessView ==
    /\ drawer.up /\ ~drawer.visible /\ drawer.seq < MaxSeq
    /\ Draw(card, [FreshDrawer(drawer.seq + 1) EXCEPT !.up = FALSE])
    /\ calls' = Connected(calls)
    /\ loads' = {IF l.by = "agent" THEN [l EXCEPT !.by = "gone"] ELSE l : l \in loads}
    /\ UNCHANGED <<page, approvals, issued>>

ReturnToBusinessView ==
    /\ ~drawer.up
    /\ Draw(card, [drawer EXCEPT !.up = TRUE])
    /\ UNCHANGED <<page, loads, calls, approvals, issued>>

Submit(kind, content) ==
    /\ drawer.visible /\ page.overview # NoOrder /\ ~Busy(drawer) /\ Requests < MaxRequests
    /\ Draw(card, Submitted(drawer, kind, content))
    /\ calls' = calls \cup {Opened(page.overview, drawer, kind, content, 0, "none")}
    /\ issued' = issued + 1
    /\ UNCHANGED <<page, loads, approvals>>

SubmitAgent == Submit("message", "typed")
SubmitFixedDiagnosis == Submit("fixed", "typed")
SubmitClarification == drawer.result.kind = "CHOICE" /\ Submit("message", "choice")

RetryLastRequest ==
    /\ drawer.error.retryable
    /\ Submit("message", IF drawer.last = "none" THEN "typed" ELSE drawer.last)

ConfirmOrderSwitch ==
    /\ drawer.visible /\ drawer.result.kind = "SWITCH" /\ drawer.last # "none" /\ ~Busy(drawer)
    /\ drawer.result.order = page.overview
    /\ Requests + 1 < MaxRequests
    /\ loads' = loads \cup {Load(drawer.result.target, "agent")}
    /\ page' = [page EXCEPT !.seq = @ + 1, !.loading = TRUE]
    /\ Draw(card, [drawer EXCEPT !.switching = TRUE, !.error = NoError])
    /\ issued' = issued + 1
    /\ UNCHANGED <<calls, approvals>>

CancelOrderSwitch ==
    /\ drawer.visible /\ drawer.result.kind = "SWITCH" /\ ~Busy(drawer)
    /\ Draw(card, [drawer EXCEPT !.result = NoResult, !.last = "none"])
    /\ UNCHANGED <<page, loads, calls, approvals, issued>>

----------------------------------------------------------------------------
(* What the user does on the card, up to the request of the drawer. *)

ControlsEnabled ==
    /\ Shown(drawer) /\ drawer.result.status = "WAITING_CONFIRMATION"
    /\ ~Submitting(drawer) /\ card.pending = "none"

EditDraft(conclusion, comment) ==
    /\ ControlsEnabled
    /\ card' = [card EXCEPT !.conclusion = conclusion, !.comment = comment]
    /\ UNCHANGED <<page, loads, drawer, calls, approvals, issued>>

OpenConfirmation ==
    /\ ControlsEnabled /\ card.comment /\ ~card.dialog
    /\ card' = [card EXCEPT !.dialog = TRUE]
    /\ UNCHANGED <<page, loads, drawer, calls, approvals, issued>>

CloseConfirmation ==
    /\ card.dialog /\ card.pending = "none"
    /\ card' = [card EXCEPT !.dialog = FALSE]
    /\ UNCHANGED <<page, loads, drawer, calls, approvals, issued>>

(* confirmDecision, then confirmApproval: the request follows a new stream. *)
ConfirmDecision ==
    /\ ControlsEnabled /\ card.comment /\ card.dialog
    /\ page.overview # NoOrder /\ ~drawer.acting /\ Requests < MaxRequests
    /\ Draw([card EXCEPT !.pending = "confirm", !.dialog = FALSE],
            [drawer EXCEPT !.seq = @ + 1, !.acting = TRUE, !.error = NoError])
    /\ calls' = calls \cup {Opened(page.overview, drawer, "confirm", "typed", drawer.result.approval, card.conclusion)}
    /\ issued' = issued + 1
    /\ UNCHANGED <<page, loads, approvals>>

(* cancelApproval and requestRework send at once under the current sequence. *)
SendNow(c, kind) ==
    /\ ~drawer.acting /\ Requests < MaxRequests
    /\ Draw(c, [drawer EXCEPT !.acting = TRUE, !.error = NoError])
    /\ calls' = calls \cup
            {[Opened(page.overview, drawer, kind, "typed", drawer.result.approval, "none")
                EXCEPT !.seq = drawer.seq, !.stage = "sent"]}
    /\ issued' = issued + 1
    /\ UNCHANGED <<page, loads, approvals>>

CancelApproval ==
    /\ ControlsEnabled
    /\ SendNow([card EXCEPT !.pending = "cancel", !.dialog = FALSE], "cancel")

(* Offered by the draft the service first proposed, not by the confirmed one. *)
RequestRework ==
    /\ Shown(drawer) /\ ~Submitting(drawer) /\ drawer.session # NoSession
    /\ drawer.result.op = "review" /\ drawer.result.status = "SUCCEEDED"
    /\ drawer.result.conclusion = "REWORK_REQUIRED"
    /\ SendNow(card, "rework")

----------------------------------------------------------------------------
(* How requests end. *)

IsMessage(r) == r.kind \in {"message", "fixed"}

StreamReady(r) ==
    /\ r.stage = "connecting"
    /\ calls' = (calls \ {r}) \cup
            {[r EXCEPT !.stage = "sent", !.session = IF IsMessage(r) THEN drawer.session ELSE @]}
    /\ UNCHANGED <<page, loads, drawer, card, approvals, issued>>

Current(r) == drawer.up /\ r.seq = drawer.seq /\ r.order = page.overview

(* The finally blocks: the flag of the request falls. *)
MutEndedWhenSuperseded(r, d) == [d EXCEPT !.loading = FALSE, !.acting = FALSE]
Ended(r, d) ==
    IF r.seq # d.seq THEN d
    ELSE IF IsMessage(r) THEN [d EXCEPT !.loading = FALSE] ELSE [d EXCEPT !.acting = FALSE]

Heard(r, d) == Draw(card, Ended(r, IF Current(r) THEN d ELSE drawer))

FailedWith(r, retryable) == [drawer EXCEPT !.error = [of |-> r.kind, retryable |-> retryable]]

StreamFails(r, retryable) ==
    /\ r.stage = "connecting"
    /\ calls' = calls \ {r}
    /\ Heard(r, FailedWith(r, retryable))
    /\ UNCHANGED <<page, loads, approvals, issued>>

Awaited(r) == r.stage = "sent" /\ r.waiting

(* The service refused the request, or its answer was not valid. *)
RequestFails(r, retryable) ==
    /\ Awaited(r)
    /\ calls' = calls \ {r}
    /\ Heard(r, FailedWith(r, retryable))
    /\ UNCHANGED <<page, loads, approvals, issued>>

(* The console stops waiting: a timeout or a broken connection. The service   *)
(* goes on with a decision on an approval.                                    *)
GiveUp(r, retryable) ==
    /\ Awaited(r) /\ ~IsMessage(r)
    /\ calls' = (calls \ {r}) \cup {[r EXCEPT !.waiting = FALSE, !.seq = 0, !.order = NoOrder]}
    /\ Heard(r, FailedWith(r, retryable))
    /\ UNCHANGED <<page, loads, approvals, issued>>

SessionOf(r) == IF r.session = NoSession THEN r.order ELSE r.session
Proposed(a, o, op, conclusion) ==
    [kind |-> "APPROVAL", order |-> o, approval |-> a, op |-> op,
     status |-> "WAITING_CONFIRMATION", conclusion |-> conclusion]

MessageAnswered(r) ==
    /\ Awaited(r) /\ IsMessage(r)
    /\ \E result \in {[kind |-> "ANSWER", order |-> r.order]} \cup
                     (IF r.kind = "fixed" THEN {}
                      ELSE {[kind |-> "CHOICE", order |-> r.order]} \cup
                           {[kind |-> "SWITCH", order |-> r.order, target |-> o] : o \in Orders \ {r.order}}) :
            Heard(r, [drawer EXCEPT !.session = SessionOf(r), !.result = result])
    /\ calls' = calls \ {r}
    /\ UNCHANGED <<page, loads, approvals, issued>>

(* The service keeps a draft and asks for its confirmation. *)
Propose(op, source) ==
    /\ Len(approvals) < MaxApprovals
    /\ approvals' = Append(approvals, [status |-> "WAITING_CONFIRMATION", op |-> op, source |-> source,
                                       written |-> "none"])

ReviewProposed(r, conclusion) ==
    /\ Awaited(r) /\ r.kind = "message" /\ Propose("review", 0)
    /\ Heard(r, [drawer EXCEPT !.session = SessionOf(r),
                               !.result = Proposed(Len(approvals'), r.order, "review", conclusion)])
    /\ calls' = calls \ {r}
    /\ UNCHANGED <<page, loads, issued>>

(* What the service does with a confirmation: ApprovalFlow in one step. *)
Confirmed(ap, conclusion) ==
    IF ap.status # "WAITING_CONFIRMATION" THEN {ap}
    ELSE {ap, [ap EXCEPT !.status = "SUCCEEDED", !.written = conclusion], [ap EXCEPT !.status = "FAILED"]}

UpdateApprovalStatus(d, status) ==
    IF d.result.kind = "APPROVAL" THEN [d EXCEPT !.result.status = status] ELSE d

MutUpdateUnheard(r, ap) ==
    /\ approvals' = [approvals EXCEPT ![r.approval] = ap]
    /\ Draw(card, Ended(r, UpdateApprovalStatus(drawer, ap.status)))

ConfirmHeard(r, ap) ==
    /\ approvals' = [approvals EXCEPT ![r.approval] = ap]
    /\ \E retryable \in BOOLEAN :
            Heard(r, UpdateApprovalStatus(
                IF ap.status = "SUCCEEDED" /\ ap.written = r.conclusion
                THEN drawer ELSE FailedWith(r, retryable), ap.status))

ConfirmAnswered(r) ==
    /\ Awaited(r) /\ r.kind = "confirm"
    /\ \E ap \in Confirmed(approvals[r.approval], r.conclusion) : ConfirmHeard(r, ap)
    /\ calls' = calls \ {r}
    /\ UNCHANGED <<page, loads, issued>>

Cancelled(ap) == [ap EXCEPT !.status = IF @ = "WAITING_CONFIRMATION" THEN "CANCELLED" ELSE @]

CancelAnswered(r) ==
    /\ Awaited(r) /\ r.kind = "cancel"
    /\ approvals[r.approval].status \in {"WAITING_CONFIRMATION", "CANCELLED"}
    /\ approvals' = [approvals EXCEPT ![r.approval] = Cancelled(@)]
    /\ Heard(r, UpdateApprovalStatus(drawer, "CANCELLED"))
    /\ calls' = calls \ {r}
    /\ UNCHANGED <<page, loads, issued>>

(* One live rework approval for a review that was written with REWORK_REQUIRED: *)
(* asked again, the service answers with the one that is there.                *)
MayRework(a) ==
    approvals[a].status = "SUCCEEDED" /\ approvals[a].op = "review" /\ approvals[a].written = "REWORK_REQUIRED"
ExistingRework(a) ==
    {b \in DOMAIN approvals : approvals[b].source = a /\ approvals[b].status \notin {"FAILED", "CANCELLED"}}

Reworked(a) ==
    /\ MayRework(a)
    /\ IF ExistingRework(a) = {} THEN Propose("rework", a) ELSE UNCHANGED approvals

ReworkAnswered(r) ==
    /\ Awaited(r) /\ r.kind = "rework" /\ Reworked(r.approval)
    /\ \E b \in ExistingRework(r.approval)' :
            Heard(r, [drawer EXCEPT !.result = [Proposed(b, r.order, "rework", "REWORK_REQUIRED")
                                                    EXCEPT !.status = approvals'[b].status]])
    /\ calls' = calls \ {r}
    /\ UNCHANGED <<page, loads, issued>>

(* The service acts on a request nobody waits for. *)
LateEffect(r) ==
    /\ ~r.waiting
    /\ \/ /\ r.kind = "confirm"
          /\ \E ap \in Confirmed(approvals[r.approval], r.conclusion) :
                approvals' = [approvals EXCEPT ![r.approval] = ap]
       \/ r.kind = "cancel" /\ approvals' = [approvals EXCEPT ![r.approval] = Cancelled(@)]
       \/ r.kind = "rework" /\ (Reworked(r.approval) \/ UNCHANGED approvals)
    /\ calls' = calls \ {r}
    /\ UNCHANGED <<page, loads, drawer, card, issued>>

----------------------------------------------------------------------------
User ==
    \/ \E o \in Orders : SelectOrder(o)
    \/ Retry \/ OpenDrawer \/ CloseDrawer \/ LeaveBusinessView \/ ReturnToBusinessView
    \/ SubmitAgent \/ SubmitFixedDiagnosis \/ SubmitClarification \/ RetryLastRequest
    \/ ConfirmOrderSwitch \/ CancelOrderSwitch
    \/ \E c \in Conclusions, comment \in BOOLEAN : EditDraft(c, comment)
    \/ OpenConfirmation \/ CloseConfirmation \/ ConfirmDecision \/ CancelApproval \/ RequestRework

LoadEnds ==
    \/ \E ok \in BOOLEAN : Initialize(ok)
    \/ \E l \in loads : SwitchLoaded(l) \/ SwitchFailed(l) \/ \E ok \in BOOLEAN : PageLoaded(l, ok)

CallEnds ==
    \E r \in calls :
        \/ StreamReady(r) \/ MessageAnswered(r) \/ ConfirmAnswered(r) \/ CancelAnswered(r) \/ LateEffect(r)
        \/ \E retryable \in BOOLEAN : StreamFails(r, retryable) \/ RequestFails(r, retryable) \/ GiveUp(r, retryable)
        \/ \E c \in Conclusions : ReviewProposed(r, c)
        \/ ReworkAnswered(r)

Next == User \/ LoadEnds \/ CallEnds

Spec == Init /\ [][Next]_vars

----------------------------------------------------------------------------
(* Everything shown belongs to the order on the page: the result, the session *)
(* that the next message continues, and the session that a message under way  *)
(* was sent in.                                                               *)
OrderIsolation ==
    /\ drawer.result # NoResult => drawer.result.order = page.overview
    /\ drawer.session \in {NoSession, page.overview}
    /\ \A r \in calls : r.session \in {NoSession, r.order}

(* The flags of the drawer are true exactly while a request that still counts *)
(* is under way: no spinner outlives its request, and no second request can   *)
(* be made beside one whose answer will be shown.                             *)
SpinnerHonest ==
    LET counts(r) == r.waiting /\ r.seq = drawer.seq
    IN /\ drawer.loading <=> \E r \in calls : counts(r) /\ IsMessage(r)
       /\ drawer.acting <=> \E r \in calls : counts(r) /\ ~IsMessage(r)
       /\ drawer.switching <=> \E l \in loads : l.by = "agent"
       /\ page.loading <=> \E l \in loads : l.seq = page.seq

(* The card says SUCCEEDED or CANCELLED only of an approval the service has   *)
(* written or cancelled, edits the draft of the approval it shows, and never  *)
(* has two decisions on one approval waiting for their answers.               *)
DecisionIsHonest ==
    /\ drawer.result.kind = "APPROVAL" /\ drawer.result.status \in {"SUCCEEDED", "CANCELLED"}
            => approvals[drawer.result.approval].status = drawer.result.status
    /\ Shown(drawer) => card.from = drawer.result.approval
    /\ \A q, r \in calls : q.waiting /\ r.waiting /\ ~IsMessage(q) /\ ~IsMessage(r) /\ q.approval = r.approval => q = r

----------------------------------------------------------------------------
(* What makes them inductive. *)

Kinds == {"message", "fixed", "confirm", "cancel", "rework"}
Statuses == {"WAITING_CONFIRMATION", "SUCCEEDED", "FAILED", "CANCELLED"}
Shows == Orders \cup {NoOrder}

Page == [listed : {"fetching", "yes", "no"}, selected : Orders, overview : Shows, seq : Nat,
         loading : BOOLEAN, error : BOOLEAN]
OverviewLoad == [order : Orders, seq : Nat, by : {"page", "agent", "gone"}, dseq : Nat]
Result ==
    {NoResult} \cup [kind : {"ANSWER", "CHOICE"}, order : Shows]
               \cup [kind : {"SWITCH"}, order : Shows, target : Orders]
               \cup [kind : {"APPROVAL"}, order : Shows, approval : Nat, op : {"review", "rework"},
                     status : Statuses, conclusion : Conclusions]
Drawer == [up : BOOLEAN, visible : BOOLEAN, seq : Nat, loading : BOOLEAN, acting : BOOLEAN,
           switching : BOOLEAN, result : Result, error : [of : {"none", "switch"} \cup Kinds, retryable : BOOLEAN],
           session : Shows \cup {NoSession}, last : {"none", "typed", "choice"}]
Card == [pending : {"none", "confirm", "cancel"}, dialog : BOOLEAN, from : Nat,
         conclusion : Conclusions \cup {"none"}, comment : BOOLEAN]
AgentCall == [kind : Kinds, order : Shows, seq : Nat, session : Shows \cup {NoSession},
              content : {"typed", "choice"}, approval : Nat, conclusion : Conclusions \cup {"none"},
              stage : {"connecting", "sent"}, waiting : BOOLEAN]
Approval == [status : Statuses, op : {"review", "rework"}, source : Nat,
             written : Conclusions \cup {"none"}]

TypeOK ==
    /\ page \in Page /\ loads \subseteq OverviewLoad
    /\ drawer \in Drawer /\ card \in Card /\ calls \subseteq AgentCall
    /\ approvals \in Seq(Approval) /\ issued \in Nat

(* Sequence numbers of loads are those of the page at their start, and only    *)
(* the open drawer follows a switch.                                           *)
LoadsKept(p, ls, d) ==
    /\ \A l \in ls : l.seq <= p.seq
    /\ \A l, m \in ls : l.seq = m.seq \/ (l.by = "agent" /\ m.by = "agent") => l = m
    /\ p.loading <=> \E l \in ls : l.seq = p.seq
    /\ d.switching <=> \E l \in ls : l.by = "agent"
    /\ d.switching => d.up

(* A rework names the review it repairs. *)
ApprovalsKept(aps) ==
    \A b \in DOMAIN aps :
        /\ aps[b].op = "review" => aps[b].source = 0
        /\ aps[b].op = "rework" => aps[b].source \in DOMAIN aps /\ aps[aps[b].source].op = "review"

Counts(r, d) == r.waiting /\ r.seq = d.seq

(* A request whose stream is not open yet still counts; a decision that counts *)
(* is about the approval the drawer shows.                                     *)
CallKept(r, d, aps, shown) ==
    /\ r.seq <= d.seq
    /\ r.session \in {NoSession, r.order}
    /\ ~IsMessage(r) => r.session = NoSession /\ r.approval \in DOMAIN aps
    /\ r.stage = "connecting" => Counts(r, d) /\ r.order = shown
    /\ Counts(r, d) /\ ~IsMessage(r) => d.result.kind = "APPROVAL" /\ d.result.approval = r.approval

(* Nothing of an unmounted drawer is left, and at most one request counts.     *)
FlagsKept(d, cs) ==
    /\ d.visible => d.up
    /\ ~d.up => d.result = NoResult /\ d.session = NoSession /\ ~d.loading /\ ~d.acting
    /\ \A q, r \in cs : Counts(q, d) /\ Counts(r, d) => q = r
    /\ d.loading <=> \E r \in cs : Counts(r, d) /\ IsMessage(r)
    /\ d.acting <=> \E r \in cs : Counts(r, d) /\ ~IsMessage(r)

(* Of the approval shown, a decision that waits counts; and nobody waits for a *)
(* decision on a rework of it, which is shown only once it is asked for.       *)
ResultKept(d, cs, aps, shown) ==
    /\ d.result # NoResult => d.result.order = shown
    /\ d.session \in {NoSession, shown}
    /\ d.result.kind = "APPROVAL" =>
          LET a == d.result.approval IN
          /\ a \in DOMAIN aps
          /\ d.result.status \in {"SUCCEEDED", "CANCELLED"} => aps[a].status = d.result.status
          /\ \A r \in cs : r.waiting /\ ~IsMessage(r) =>
                /\ r.approval = a => Counts(r, d)
                /\ aps[r.approval].source # a

OneDecision(cs) ==
    \A q, r \in cs :
        q.waiting /\ r.waiting /\ ~IsMessage(q) /\ ~IsMessage(r) /\ q.approval = r.approval => q = r

DrawerKept(d, cs, aps, shown) ==
    /\ \A r \in cs : CallKept(r, d, aps, shown)
    /\ FlagsKept(d, cs) /\ ResultKept(d, cs, aps, shown) /\ OneDecision(cs)

ConsoleIInv ==
    /\ TypeOK
    /\ LoadsKept(page, loads, drawer)
    /\ ApprovalsKept(approvals)
    /\ DrawerKept(drawer, calls, approvals, page.overview)
    /\ Shown(drawer) => card.from = drawer.result.approval
============================================================================
