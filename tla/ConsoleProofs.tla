---------------------------- MODULE ConsoleProofs ----------------------------
(* Theorems about Console.  Where a request under way stands against the       *)
(* drawer is an invariant of four values: the drawer, its requests, the        *)
(* approvals and the order shown.  Each handler does one of a few things to    *)
(* them, and each of these has a lemma of its own.                             *)
EXTENDS Console, TLAPS

-----------------------------------------------------------------------------
(* Results, cards and approvals *)

\* A result is none, or belongs to an order; only an approval has a status.
LEMMA ResultIs ==
    ASSUME NEW x \in Result
    PROVE  /\ x = NoResult <=> x.kind = "none"
           /\ x # NoResult => x.order \in Shows
           /\ x.kind = "APPROVAL" =>
                 x \in [kind : {"APPROVAL"}, order : Shows, approval : Nat, op : {"review", "rework"},
                        status : Statuses, conclusion : Conclusions]
           /\ x.kind = "SWITCH" => x.target \in Orders
BY DEF Result, NoResult

\* The card that is shown edits the approval the drawer shows.
LEMMA CardFollows ==
    ASSUME NEW c \in Card, NEW d \in Drawer, NEW e \in Drawer,
           Shown(d) => c.from = d.result.approval
    PROVE  /\ Watched(c, d, e) \in Card
           /\ Shown(e) => Watched(c, d, e).from = e.result.approval
<1>1. NoCard \in Card
  BY DEF NoCard, Card
<1>2. ASSUME Shown(e)
      PROVE  ResetFromApproval(e.result) \in Card /\ ResetFromApproval(e.result).from = e.result.approval
  BY <1>1, <1>2, ResultIs DEF ResetFromApproval, Card, Shown, Drawer
<1>3. [c EXCEPT !.pending = "none"] \in Card /\ [c EXCEPT !.pending = "none"].from = c.from
  BY DEF Card
<1> QED BY <1>1, <1>2, <1>3 DEF Watched

\* What the service may do to its approvals: add some, and decide those that wait.
Grows(aps, bps) ==
    /\ DOMAIN aps \subseteq DOMAIN bps
    /\ \A b \in DOMAIN aps :
          /\ bps[b].source = aps[b].source
          /\ aps[b].status \in {"SUCCEEDED", "CANCELLED"} => bps[b].status = aps[b].status

LEMMA GrowsItself == ASSUME NEW aps PROVE Grows(aps, aps)
BY DEF Grows

\* One approval changes its status, never from a final one.
LEMMA DecidedGrows ==
    ASSUME NEW aps \in Seq(Approval), NEW b \in DOMAIN aps, NEW ap \in Approval,
           ApprovalsKept(aps), ap.source = aps[b].source, ap.op = aps[b].op,
           ap.status = aps[b].status \/ aps[b].status = "WAITING_CONFIRMATION"
    PROVE  /\ [aps EXCEPT ![b] = ap] \in Seq(Approval)
           /\ Grows(aps, [aps EXCEPT ![b] = ap])
           /\ ApprovalsKept([aps EXCEPT ![b] = ap])
           /\ [aps EXCEPT ![b] = ap][b] = ap
<1> DEFINE bps == [aps EXCEPT ![b] = ap]
<1>1. bps \in Seq(Approval) /\ DOMAIN bps = DOMAIN aps
  OBVIOUS
<1>2. \A k \in DOMAIN aps : bps[k] = IF k = b THEN ap ELSE aps[k]
  OBVIOUS
<1>3. Grows(aps, bps)
  BY <1>1, <1>2 DEF Grows
<1>4. \A k \in DOMAIN aps : bps[k].source = aps[k].source /\ bps[k].op = aps[k].op
  BY <1>2
<1>5. ApprovalsKept(bps)
  BY <1>1, <1>4 DEF ApprovalsKept
<1> QED BY <1>1, <1>2, <1>3, <1>5

\* A new approval is a review, or a rework of a review that is there.
LEMMA ProposedGrows ==
    ASSUME NEW aps \in Seq(Approval), NEW ap \in Approval, ApprovalsKept(aps),
           ap.op = "review" => ap.source = 0,
           ap.op = "rework" => ap.source \in DOMAIN aps /\ aps[ap.source].op = "review"
    PROVE  LET bps == Append(aps, ap) IN
           /\ bps \in Seq(Approval)
           /\ Grows(aps, bps)
           /\ ApprovalsKept(bps)
           /\ Len(bps) \in DOMAIN bps /\ Len(bps) \notin DOMAIN aps /\ bps[Len(bps)] = ap
           /\ \A b \in DOMAIN bps : b # Len(bps) => b \in DOMAIN aps
<1> DEFINE bps == Append(aps, ap)
<1>n. PICK n \in Nat : n = Len(aps)
  OBVIOUS
<1>1. /\ bps \in Seq(Approval) /\ Len(bps) = n + 1
      /\ DOMAIN aps = 1 .. n /\ DOMAIN bps = 1 .. n + 1
  BY <1>n
<1>2. \A k \in 1 .. n : bps[k] = aps[k]
  BY <1>n
<1>3. bps[n + 1] = ap
  BY <1>n
<1>s. \A k \in 1 .. n : k \in 1 .. n + 1
  OBVIOUS
<1> HIDE DEF bps
<1>4. Grows(aps, bps)
  BY <1>1, <1>2 DEF Grows
<1>5. \A k \in 1 .. n : (aps[k].op = "rework" => aps[k].source \in 1 .. n /\ aps[aps[k].source].op = "review")
                         /\ (aps[k].op = "review" => aps[k].source = 0)
  BY <1>1 DEF ApprovalsKept
<1>6. ASSUME NEW k \in 1 .. n + 1
      PROVE  /\ bps[k].op = "review" => bps[k].source = 0
             /\ bps[k].op = "rework" => bps[k].source \in 1 .. n + 1 /\ bps[bps[k].source].op = "review"
  <2>1. CASE k = n + 1
    BY <2>1, <1>1, <1>2, <1>3, <1>s
  <2>2. CASE k # n + 1
    <3>1. k \in 1 .. n
      BY <2>2
    <3> QED BY <3>1, <1>2, <1>5, <1>s
  <2> QED BY <2>1, <2>2
<1>7. ApprovalsKept(bps)
  BY <1>1, <1>6 DEF ApprovalsKept
<1>8. n + 1 \in 1 .. n + 1 /\ n + 1 \notin 1 .. n /\ \A k \in 1 .. n + 1 : k # n + 1 => k \in 1 .. n
  OBVIOUS
<1>9. /\ Len(bps) \in DOMAIN bps /\ Len(bps) \notin DOMAIN aps /\ bps[Len(bps)] = ap
      /\ \A b \in DOMAIN bps : b # Len(bps) => b \in DOMAIN aps
  BY <1>1, <1>3, <1>8
<1> QED BY <1>1, <1>4, <1>7, <1>9 DEF bps

-----------------------------------------------------------------------------
(* What handlers do to the drawer d and its requests cs *)

\* The order is left: whatever is on its way no longer counts.
LEMMA MovesOn ==
    ASSUME NEW d \in Drawer, NEW e \in Drawer, NEW cs \in SUBSET AgentCall, NEW aps, NEW shown, NEW next,
           DrawerKept(d, cs, aps, shown),
           e.seq = d.seq + 1, ~e.loading, ~e.acting, e.visible => e.up,
           e.result = NoResult, e.session = NoSession
    PROVE  DrawerKept(e, Connected(cs), aps, next)
<1>1. \A r \in Connected(cs) : r \in cs /\ r.stage = "sent"
  BY DEF Connected
<1>2. \A r \in cs : r.seq \in Nat /\ r.seq <= d.seq
  BY DEF DrawerKept, CallKept, AgentCall
<1>3. \A r \in cs : r.seq < e.seq /\ r.seq # e.seq
  BY <1>2 DEF Drawer
<1>4. \A r \in Connected(cs) : CallKept(r, e, aps, next)
  <2> SUFFICES ASSUME NEW r \in Connected(cs) PROVE CallKept(r, e, aps, next)
    OBVIOUS
  <2>1. CallKept(r, d, aps, shown)
    BY <1>1 DEF DrawerKept
  <2> QED BY <2>1, <1>1, <1>2, <1>3 DEF CallKept, Counts, Drawer
<1>5. FlagsKept(e, Connected(cs))
  BY <1>1, <1>3 DEF FlagsKept, Counts
<1>6. ResultKept(e, Connected(cs), aps, next)
  BY DEF ResultKept, NoResult
<1>7. OneDecision(Connected(cs))
  BY <1>1 DEF DrawerKept, OneDecision
<1> QED BY <1>4, <1>5, <1>6, <1>7 DEF DrawerKept

\* No request counts in an idle drawer.
LEMMA NoneCounts ==
    ASSUME NEW d, NEW cs, FlagsKept(d, cs), ~d.loading, ~d.acting, NEW r \in cs
    PROVE  ~Counts(r, d)
BY DEF FlagsKept

\* A request is made by an idle drawer, under its present number or the next.
LEMMA Begins ==
    ASSUME NEW d \in Drawer, NEW e \in Drawer, NEW cs \in SUBSET AgentCall, NEW aps \in Seq(Approval),
           NEW shown, NEW r \in AgentCall,
           DrawerKept(d, cs, aps, shown), ApprovalsKept(aps),
           ~d.loading, ~d.acting, e.up, e.session = d.session,
           e.seq = d.seq \/ e.seq = d.seq + 1,
           e.result = d.result \/ e.result = NoResult,
           r.waiting, r.seq = e.seq, r.order = shown, r.session = NoSession,
           e.loading <=> IsMessage(r), e.acting <=> ~IsMessage(r),
           ~IsMessage(r) => e.result = d.result /\ d.result.kind = "APPROVAL" /\ d.result.approval = r.approval
    PROVE  DrawerKept(e, cs \cup {r}, aps, shown)
<1>1. \A q \in cs : ~Counts(q, d)
  BY NoneCounts DEF DrawerKept
<1>2. \A q \in cs : q.seq \in Nat /\ q.seq <= d.seq /\ d.seq \in Nat
  BY DEF DrawerKept, CallKept, AgentCall, Drawer
<1>3. \A q \in cs : ~Counts(q, e) /\ q.seq <= e.seq
  BY <1>1, <1>2 DEF Counts
<1>4. Counts(r, e)
  BY DEF Counts
<1>k. \A q \in cs : CallKept(q, d, aps, shown)
  BY DEF DrawerKept
<1>r. ResultKept(d, cs, aps, shown)
  BY DEF DrawerKept
<1>a. ~IsMessage(r) => r.approval \in DOMAIN aps
  BY <1>r DEF ResultKept
<1>5. \A q \in cs \cup {r} : CallKept(q, e, aps, shown)
  <2>1. \A q \in cs : CallKept(q, e, aps, shown)
    BY <1>k, <1>1, <1>3 DEF CallKept
  <2>2. CallKept(r, e, aps, shown)
    BY <1>4, <1>a DEF CallKept, Drawer
  <2> QED BY <2>1, <2>2
<1>6. FlagsKept(e, cs \cup {r})
  BY <1>3, <1>4 DEF FlagsKept
<1>7. ResultKept(e, cs \cup {r}, aps, shown)
  <2>1. CASE e.result = NoResult
    BY <2>1, <1>r DEF ResultKept, NoResult
  <2>2. CASE e.result = d.result
    <3> SUFFICES ASSUME d.result.kind = "APPROVAL", NEW a, a = d.result.approval,
                        NEW q \in cs \cup {r}, q.waiting, ~IsMessage(q)
                 PROVE  /\ q.approval = a => Counts(q, e)
                        /\ aps[q.approval].source # a
      BY <2>2, <1>r DEF ResultKept
    <3>1. CASE q \in cs
      BY <3>1, <1>1, <1>r DEF ResultKept
    <3>2. CASE q = r
      <4>1. q.approval = a /\ a \in DOMAIN aps
        BY <3>2, <1>a
      <4>2. a # 0 /\ aps[a].op \in {"review", "rework"}
        <5>1. \A k \in DOMAIN aps : k # 0 /\ aps[k] \in Approval
          OBVIOUS
        <5> QED BY <5>1, <4>1 DEF Approval
      <4>3. aps[a].source # a
        BY <4>1, <4>2 DEF ApprovalsKept
      <4> QED BY <3>2, <4>1, <4>3, <1>4
    <3> QED BY <3>1, <3>2
  <2> QED BY <2>1, <2>2
<1>8. OneDecision(cs \cup {r})
  <2>1. ASSUME NEW q \in cs, q.waiting, ~IsMessage(q), ~IsMessage(r), q.approval = r.approval
        PROVE  FALSE
    BY <2>1, <1>1, <1>r DEF ResultKept
  <2>2. OneDecision(cs)
    BY DEF DrawerKept
  <2> QED BY <2>1, <2>2 DEF OneDecision
<1> QED BY <1>5, <1>6, <1>7, <1>8 DEF DrawerKept

\* What no request is about changes: what is visible, an error, a choice.
LEMMA Stays ==
    ASSUME NEW d \in Drawer, NEW e \in Drawer, NEW cs, NEW aps, NEW shown,
           DrawerKept(d, cs, aps, shown),
           e.seq = d.seq, e.loading = d.loading, e.acting = d.acting, e.session = d.session,
           e.result = d.result \/ (e.result = NoResult /\ d.result.kind # "APPROVAL"),
           d.up => e.up, e.visible => e.up
    PROVE  DrawerKept(e, cs, aps, shown)
<1>1. \A r \in cs : Counts(r, e) = Counts(r, d)
  BY DEF Counts
<1>2. \A r \in cs : CallKept(r, e, aps, shown)
  BY <1>1 DEF DrawerKept, CallKept, Counts
<1>3. FlagsKept(e, cs)
  BY <1>1 DEF DrawerKept, FlagsKept, Counts
<1>4. ResultKept(e, cs, aps, shown)
  BY <1>1 DEF DrawerKept, ResultKept, NoResult, Counts
<1> QED BY <1>2, <1>3, <1>4 DEF DrawerKept

\* The service works on while the drawer shows what it did.
LEMMA ResultStays ==
    ASSUME NEW d, NEW e, NEW cs, NEW bs \in SUBSET cs, NEW aps, NEW bps, NEW shown,
           DrawerKept(d, cs, aps, shown), Grows(aps, bps),
           e.seq = d.seq, e.result = d.result, e.session = d.session
    PROVE  ResultKept(e, bs, bps, shown)
<1>1. \A r \in cs : ~IsMessage(r) => r.approval \in DOMAIN aps
  BY DEF DrawerKept, CallKept
<1>2. ResultKept(d, cs, aps, shown)
  BY DEF DrawerKept
<1>3. \A r \in bs : r \in cs /\ Counts(r, e) = Counts(r, d)
  BY DEF Counts
<1>4. \A r \in bs : ~IsMessage(r) => bps[r.approval].source = aps[r.approval].source
  BY <1>1, <1>3 DEF Grows
<1> SUFFICES ASSUME d.result.kind = "APPROVAL"
             PROVE  LET a == d.result.approval IN
                    /\ a \in DOMAIN bps
                    /\ d.result.status \in {"SUCCEEDED", "CANCELLED"} => bps[a].status = d.result.status
                    /\ \A r \in bs : r.waiting /\ ~IsMessage(r) =>
                          /\ r.approval = a => Counts(r, e)
                          /\ bps[r.approval].source # a
  BY <1>2 DEF ResultKept
<1>5. /\ d.result.approval \in DOMAIN bps
      /\ d.result.status \in {"SUCCEEDED", "CANCELLED"} => bps[d.result.approval].status = d.result.status
  BY <1>2 DEF ResultKept, Grows
<1>6. \A r \in bs : r.waiting /\ ~IsMessage(r) =>
          /\ r.approval = d.result.approval => Counts(r, e)
          /\ bps[r.approval].source # d.result.approval
  BY <1>2, <1>3, <1>4 DEF ResultKept
<1> QED BY <1>5, <1>6

\* The end of a request lowers its flag if it still counts, and only a request
\* that counts is heard.
LEMMA Ends ==
    ASSUME NEW d \in Drawer, NEW e \in Drawer, NEW cs \in SUBSET AgentCall, NEW aps, NEW bps, NEW shown,
           NEW r \in cs, r.waiting,
           DrawerKept(d, cs, aps, shown), Grows(aps, bps),
           e.seq = d.seq, e.up = d.up, e.visible = d.visible,
           e.loading <=> d.loading /\ ~(r.seq = d.seq /\ IsMessage(r)),
           e.acting <=> d.acting /\ ~(r.seq = d.seq /\ ~IsMessage(r)),
           ~(r.seq = d.seq /\ d.up) => e.result = d.result /\ e.session = d.session,
           ResultKept(e, cs \ {r}, bps, shown)
    PROVE  DrawerKept(e, cs \ {r}, bps, shown)
<1>f. FlagsKept(d, cs)
  BY DEF DrawerKept
<1>1. \A q \in cs : Counts(q, e) = Counts(q, d)
  BY DEF Counts
<1>2. ASSUME NEW q \in cs \ {r} PROVE ~(Counts(q, d) /\ Counts(r, d))
  BY <1>f DEF FlagsKept
<1>3. \A q \in cs \ {r} : CallKept(q, e, bps, shown)
  <2> SUFFICES ASSUME NEW q \in cs \ {r} PROVE CallKept(q, e, bps, shown)
    OBVIOUS
  <2>1. CallKept(q, d, aps, shown)
    BY DEF DrawerKept
  <2>2. ~IsMessage(q) => q.approval \in DOMAIN bps
    BY <2>1 DEF CallKept, Grows
  <2>3. Counts(q, d) => e.result = d.result
    BY <1>2 DEF Counts
  <2> QED BY <2>1, <2>2, <2>3, <1>1 DEF CallKept
<1>4. FlagsKept(e, cs \ {r})
  <2>1. e.visible => e.up
    BY <1>f DEF FlagsKept
  <2>2. ~e.up => e.result = NoResult /\ e.session = NoSession /\ ~e.loading /\ ~e.acting
    BY <1>f DEF FlagsKept
  <2>3. \A p, q \in cs \ {r} : Counts(p, e) /\ Counts(q, e) => p = q
    BY <1>f, <1>1 DEF FlagsKept
  <2>4. e.loading <=> \E q \in cs \ {r} : Counts(q, e) /\ IsMessage(q)
    <3>1. CASE Counts(r, d)
      BY <3>1, <1>f, <1>1, <1>2 DEF FlagsKept, Counts
    <3>2. CASE ~Counts(r, d)
      BY <3>2, <1>f, <1>1 DEF FlagsKept, Counts
    <3> QED BY <3>1, <3>2
  <2>5. e.acting <=> \E q \in cs \ {r} : Counts(q, e) /\ ~IsMessage(q)
    <3>1. CASE Counts(r, d)
      BY <3>1, <1>f, <1>1, <1>2 DEF FlagsKept, Counts
    <3>2. CASE ~Counts(r, d)
      BY <3>2, <1>f, <1>1 DEF FlagsKept, Counts
    <3> QED BY <3>1, <3>2
  <2> QED BY <2>1, <2>2, <2>3, <2>4, <2>5 DEF FlagsKept
<1>5. OneDecision(cs \ {r})
  BY DEF DrawerKept, OneDecision
<1> QED BY <1>3, <1>4, <1>5 DEF DrawerKept

\* A decision the console has given up is still under way, and no longer counts.
LEMMA Forgotten ==
    ASSUME NEW d \in Drawer, NEW cs, NEW aps, NEW shown, NEW r,
           DrawerKept(d, cs, aps, shown),
           ~r.waiting, r.seq = 0, ~IsMessage(r), r.session = NoSession, r.stage = "sent",
           r.approval \in DOMAIN aps
    PROVE  DrawerKept(d, cs \cup {r}, aps, shown)
<1>1. ~Counts(r, d)
  BY DEF Counts
<1>2. \A q \in cs \cup {r} : CallKept(q, d, aps, shown)
  <2>1. CallKept(r, d, aps, shown)
    BY <1>1 DEF CallKept, Drawer
  <2> QED BY <2>1 DEF DrawerKept
<1>3. FlagsKept(d, cs \cup {r})
  BY <1>1 DEF DrawerKept, FlagsKept
<1>4. ResultKept(d, cs \cup {r}, aps, shown)
  BY DEF DrawerKept, ResultKept
<1>5. OneDecision(cs \cup {r})
  BY DEF DrawerKept, OneDecision
<1> QED BY <1>2, <1>3, <1>4, <1>5 DEF DrawerKept

\* The service has acted on a request nobody waits for.
LEMMA Unnoticed ==
    ASSUME NEW d, NEW cs, NEW aps, NEW bps, NEW shown, NEW r \in cs, ~r.waiting,
           DrawerKept(d, cs, aps, shown), Grows(aps, bps)
    PROVE  DrawerKept(d, cs \ {r}, bps, shown)
<1>1. \A q \in cs \ {r} : CallKept(q, d, bps, shown)
  BY DEF DrawerKept, CallKept, Grows
<1>2. FlagsKept(d, cs \ {r})
  BY DEF DrawerKept, FlagsKept, Counts
<1>3. cs \ {r} \in SUBSET cs
  OBVIOUS
<1>4. ResultKept(d, cs \ {r}, bps, shown)
  BY <1>3, ResultStays
<1>5. OneDecision(cs \ {r})
  BY DEF DrawerKept, OneDecision
<1> QED BY <1>1, <1>2, <1>4, <1>5 DEF DrawerKept

\* The stream of a request is open and the request is sent.
LEMMA Sent ==
    ASSUME NEW d, NEW cs, NEW aps, NEW shown, NEW r \in cs, NEW q,
           DrawerKept(d, cs, aps, shown), r.stage = "connecting", q.stage = "sent",
           q.kind = r.kind, q.seq = r.seq, q.order = r.order, q.waiting = r.waiting, q.approval = r.approval,
           q.session = IF IsMessage(r) THEN d.session ELSE r.session
    PROVE  DrawerKept(d, (cs \ {r}) \cup {q}, aps, shown)
<1> DEFINE bs == (cs \ {r}) \cup {q}
<1>r. /\ FlagsKept(d, cs) /\ ResultKept(d, cs, aps, shown) /\ OneDecision(cs)
      /\ CallKept(r, d, aps, shown)
  BY DEF DrawerKept
<1>1. Counts(q, d) /\ Counts(r, d) /\ IsMessage(q) = IsMessage(r)
  BY <1>r DEF CallKept, Counts, IsMessage
<1>2. \A p \in bs : CallKept(p, d, aps, shown)
  <2>1. q.session \in {NoSession, q.order}
    BY <1>r DEF CallKept, ResultKept
  <2>2. CallKept(q, d, aps, shown)
    BY <2>1, <1>1, <1>r DEF CallKept
  <2> QED BY <2>2 DEF DrawerKept
<1>3. FlagsKept(d, bs)
  <2>1. \A p \in cs \ {r} : ~Counts(p, d)
    BY <1>1, <1>r DEF FlagsKept
  <2>2. /\ d.loading <=> \E p \in bs : Counts(p, d) /\ IsMessage(p)
        /\ d.acting <=> \E p \in bs : Counts(p, d) /\ ~IsMessage(p)
    BY <2>1, <1>1, <1>r DEF FlagsKept
  <2>3. \A p, o \in bs : Counts(p, d) /\ Counts(o, d) => p = o
    BY <2>1
  <2> QED BY <2>2, <2>3, <1>r DEF FlagsKept
<1>4. ResultKept(d, bs, aps, shown)
  BY <1>1, <1>r DEF ResultKept, Counts
<1>5. OneDecision(bs)
  BY <1>1, <1>r DEF OneDecision
<1> QED BY <1>2, <1>3, <1>4, <1>5 DEF DrawerKept

\* An unmounted drawer has nothing that could belong to an order.
LEMMA NothingShown ==
    ASSUME NEW d, NEW cs, NEW aps, NEW shown, NEW next, DrawerKept(d, cs, aps, shown), ~d.up
    PROVE  DrawerKept(d, cs, aps, next)
<1>1. FlagsKept(d, cs) /\ d.result = NoResult /\ d.session = NoSession
  BY DEF DrawerKept, FlagsKept
<1>2. \A r \in cs : r.stage # "connecting"
  BY <1>1 DEF DrawerKept, FlagsKept, CallKept
<1>3. \A r \in cs : CallKept(r, d, aps, next)
  BY <1>2 DEF DrawerKept, CallKept
<1>4. ResultKept(d, cs, aps, next)
  BY <1>1 DEF ResultKept, NoResult
<1> QED BY <1>1, <1>3, <1>4 DEF DrawerKept

-----------------------------------------------------------------------------
(* The page *)

\* Loads are untouched, and so is whether the drawer follows one of them.
LEMMA LoadsStay ==
    ASSUME NEW p, NEW ls, NEW d, NEW e, LoadsKept(p, ls, d),
           e.switching = d.switching, d.up => e.up
    PROVE  LoadsKept(p, ls, e)
BY DEF LoadsKept

\* The page asks for another overview.
LEMMA LoadBegins ==
    ASSUME NEW p \in Page, NEW q \in Page, NEW ls \in SUBSET OverviewLoad, NEW d \in Drawer, NEW e \in Drawer,
           NEW l \in OverviewLoad, LoadsKept(p, ls, d),
           q.seq = p.seq + 1, q.loading, l.seq = q.seq,
           IF l.by = "agent" THEN e.up /\ e.switching /\ ~d.switching
           ELSE e.up = d.up /\ e.switching = d.switching
    PROVE  LoadsKept(q, ls \cup {l}, e)
<1>1. \A m \in ls : m.seq \in Nat /\ m.seq <= p.seq /\ p.seq \in Nat
  BY DEF LoadsKept, OverviewLoad, Page
<1>2. \A m \in ls : m.seq # l.seq /\ m.seq <= q.seq
  BY <1>1
<1>3. l.by = "agent" => \A m \in ls : m.by # "agent"
  BY DEF LoadsKept
<1>4. l.seq <= q.seq
  BY DEF Page
<1>5. \A k, m \in ls \cup {l} : k.seq = m.seq \/ (k.by = "agent" /\ m.by = "agent") => k = m
  BY <1>2, <1>3 DEF LoadsKept
<1>6. e.switching <=> \E m \in ls \cup {l} : m.by = "agent"
  BY <1>3 DEF LoadsKept
<1>7. e.switching => e.up
  BY DEF LoadsKept
<1>8. \A m \in ls \cup {l} : m.seq <= q.seq
  BY <1>2, <1>4
<1> QED BY <1>5, <1>6, <1>7, <1>8 DEF LoadsKept

\* A load has ended: its flag falls if it is the latest, and the switch if the
\* drawer followed it.
LEMMA LoadEnded ==
    ASSUME NEW p, NEW q, NEW ls, NEW d, NEW e, NEW l \in ls, LoadsKept(p, ls, d),
           q.seq = p.seq, q.loading <=> p.loading /\ l.seq # p.seq,
           e.up = d.up, e.switching <=> d.switching /\ l.by # "agent"
    PROVE  LoadsKept(q, ls \ {l}, e)
<1>1. q.loading <=> \E m \in ls \ {l} : m.seq = q.seq
  BY DEF LoadsKept
<1>2. e.switching <=> \E m \in ls \ {l} : m.by = "agent"
  BY DEF LoadsKept
<1> QED BY <1>1, <1>2 DEF LoadsKept

-----------------------------------------------------------------------------
(* Actions *)

LEMMA SelectingIs ==
    ASSUME NEW p \in Page, NEW o \in Orders
    PROVE  LET q == Selecting(p, o) IN
           q \in Page /\ q.seq = p.seq + 1 /\ q.overview = p.overview /\ q.loading
<1>q. PICK q : q = Selecting(p, o)
  OBVIOUS
<1>1. q = [listed |-> p.listed, selected |-> o, overview |-> p.overview,
                         seq |-> p.seq + 1, loading |-> TRUE, error |-> FALSE]
  BY <1>q DEF Selecting, Page
<1>2. q \in Page
  BY <1>1 DEF Page
<1> QED BY <1>q, <1>1, <1>2

\* The page asks for an overview, whatever the drawer does.
LEMMA PageSteps ==
    ASSUME ConsoleIInv,
           \/ \E ok \in BOOLEAN : Initialize(ok)
           \/ \E o \in Orders : SelectOrder(o)
           \/ Retry
    PROVE  ConsoleIInv'
<1>t. TypeOK /\ FirstOrder \in Orders
  BY ConsoleAssumption DEF ConsoleIInv
<1>u. UNCHANGED <<drawer, card, calls, approvals, issued>> /\ page'.overview = page.overview
  BY <1>t DEF Initialize, SelectOrder, Retry, Selecting, TypeOK, Page
<1>1. TypeOK' /\ LoadsKept(page', loads', drawer')
  <2>1. ASSUME NEW o \in Orders, NEW p \in Page, p.seq = page.seq, page' = Selecting(p, o),
               loads' = loads \cup {Load(o, "page")}
        PROVE  TypeOK' /\ LoadsKept(page', loads', drawer')
    <3>1. page' \in Page /\ page'.seq = page.seq + 1 /\ page'.loading
      BY <2>1, SelectingIs
    <3>2. Load(o, "page") \in OverviewLoad /\ Load(o, "page").seq = page.seq + 1 /\ Load(o, "page").by = "page"
      BY <1>t DEF Load, TypeOK, Page, Drawer, OverviewLoad
    <3>3. LoadsKept(page', loads', drawer)
      BY <3>1, <3>2, <2>1, <1>t, LoadBegins DEF ConsoleIInv, TypeOK
    <3> QED BY <3>1, <3>2, <3>3, <2>1, <1>t, <1>u DEF TypeOK
  <2>2. ASSUME page' \in Page, page'.seq = page.seq, page'.loading = page.loading, UNCHANGED loads
        PROVE  TypeOK' /\ LoadsKept(page', loads', drawer')
    BY <2>2, <1>t, <1>u DEF ConsoleIInv, LoadsKept, TypeOK
  <2>3. ASSUME NEW ok \in BOOLEAN, Initialize(ok) PROVE TypeOK' /\ LoadsKept(page', loads', drawer')
    <3>1. CASE ok
      <4>1. [page EXCEPT !.listed = "yes"] \in Page /\ [page EXCEPT !.listed = "yes"].seq = page.seq
        BY <1>t DEF TypeOK, Page
      <4> QED BY <4>1, <3>1, <2>3, <2>1, <1>t DEF Initialize
    <3>2. CASE ~ok
      <4>1. /\ page' \in Page /\ page'.seq = page.seq /\ page'.loading = page.loading /\ UNCHANGED loads
        BY <3>2, <2>3, <1>t DEF Initialize, TypeOK, Page
      <4> QED BY <4>1, <2>2
    <3> QED BY <3>1, <3>2
  <2>4. ASSUME NEW o \in Orders, SelectOrder(o) PROVE TypeOK' /\ LoadsKept(page', loads', drawer')
    BY <2>4, <2>1, <1>t DEF SelectOrder, TypeOK
  <2>5. ASSUME Retry PROVE TypeOK' /\ LoadsKept(page', loads', drawer')
    <3>1. CASE page.listed = "yes"
      <4>1. page.selected \in Orders
        BY <1>t DEF TypeOK, Page
      <4> QED BY <4>1, <3>1, <2>5, <2>4 DEF Retry
    <3>2. CASE page.listed # "yes"
      <4>1. /\ page' \in Page /\ page'.seq = page.seq /\ page'.loading = page.loading /\ UNCHANGED loads
        BY <3>2, <2>5, <1>t DEF Retry, TypeOK, Page
      <4> QED BY <4>1, <2>2
    <3> QED BY <3>1, <3>2
  <2> QED BY <2>3, <2>4, <2>5
<1>2. ApprovalsKept(approvals') /\ DrawerKept(drawer', calls', approvals', page'.overview)
  BY <1>u DEF ConsoleIInv
<1>3. Shown(drawer') => card'.from = drawer'.result.approval
  BY <1>u DEF ConsoleIInv
<1> QED BY <1>1, <1>2, <1>3 DEF ConsoleIInv

-----------------------------------------------------------------------------
(* The drawer's own steps *)

LEMMA NothingTyped == NoResult \in Result /\ NoError \in [of : {"none", "switch"} \cup Kinds, retryable : BOOLEAN]
BY DEF Result, NoResult, NoError

LEMMA ResetIs ==
    ASSUME NEW d \in Drawer
    PROVE  LET e == ResetConversation(d) IN
           /\ e \in Drawer /\ e.seq = d.seq + 1 /\ ~e.loading /\ ~e.acting
           /\ e.result = NoResult /\ e.session = NoSession
           /\ e.up = d.up /\ e.visible = d.visible /\ e.switching = d.switching
<1>q. PICK q : q = ResetConversation(d)
  OBVIOUS
<1>1. q =
        [up |-> d.up, visible |-> d.visible, seq |-> d.seq + 1, loading |-> FALSE, acting |-> FALSE,
         switching |-> d.switching, result |-> NoResult, error |-> NoError, session |-> NoSession, last |-> "none"]
  BY <1>q DEF ResetConversation, Drawer
<1>2. q \in Drawer
  BY <1>1, NothingTyped DEF Drawer
<1> QED BY <1>q, <1>1, <1>2

LEMMA SubmittedIs ==
    ASSUME NEW d \in Drawer, NEW kind \in {"message", "fixed"}, NEW content \in {"typed", "choice"}
    PROVE  LET e == Submitted(d, kind, content) IN
           /\ e \in Drawer /\ e.seq = d.seq + 1 /\ e.loading /\ e.acting = d.acting
           /\ e.result = NoResult /\ e.session = d.session
           /\ e.up = d.up /\ e.visible = d.visible /\ e.switching = d.switching
<1>q. PICK q : q = Submitted(d, kind, content)
  OBVIOUS
<1>1. PICK last \in {"none", "typed", "choice"} : last = IF kind = "message" THEN content ELSE d.last
  BY DEF Drawer
<1>2. q =
        [up |-> d.up, visible |-> d.visible, seq |-> d.seq + 1, loading |-> TRUE, acting |-> d.acting,
         switching |-> d.switching, result |-> NoResult, error |-> NoError, session |-> d.session, last |-> last]
  BY <1>q, <1>1 DEF Submitted, Drawer
<1>3. q \in Drawer
  BY <1>2, NothingTyped DEF Drawer
<1> QED BY <1>q, <1>2, <1>3

LEMMA FreshIs ==
    ASSUME NEW n \in Nat
    PROVE  LET e == [FreshDrawer(n) EXCEPT !.up = FALSE] IN
           /\ FreshDrawer(n) \in Drawer
           /\ e \in Drawer /\ e.seq = n /\ ~e.loading /\ ~e.acting /\ ~e.switching
           /\ e.result = NoResult /\ e.session = NoSession /\ ~e.up /\ ~e.visible
<1>q. PICK q : q = [FreshDrawer(n) EXCEPT !.up = FALSE]
  OBVIOUS
<1>1. q =
        [up |-> FALSE, visible |-> FALSE, seq |-> n, loading |-> FALSE, acting |-> FALSE, switching |-> FALSE,
         result |-> NoResult, error |-> NoError, session |-> NoSession, last |-> "none"]
  BY <1>q DEF FreshDrawer
<1>2. FreshDrawer(n) \in Drawer /\ q \in Drawer
  BY <1>1, NothingTyped DEF FreshDrawer, Drawer
<1> QED BY <1>q, <1>1, <1>2

LEMMA OpenedIs ==
    ASSUME NEW order \in Shows, NEW d \in Drawer, NEW kind \in Kinds, NEW content \in {"typed", "choice"},
           NEW approval \in Nat, NEW conclusion \in Conclusions \cup {"none"}
    PROVE  LET r == Opened(order, d, kind, content, approval, conclusion) IN
           /\ r \in AgentCall /\ r.seq = d.seq + 1 /\ r.order = order /\ r.session = NoSession /\ r.waiting
           /\ r.kind = kind /\ r.approval = approval
BY DEF Opened, AgentCall, Drawer

\* The drawer draws the card again.
LEMMA DrawTyped ==
    ASSUME ConsoleIInv, NEW c \in Card, c.from = card.from, NEW e \in Drawer, Draw(c, e)
    PROVE  drawer' = e /\ card' \in Card /\ (Shown(e) => card'.from = e.result.approval)
<1>1. drawer \in Drawer /\ (Shown(drawer) => c.from = drawer.result.approval)
  BY DEF ConsoleIInv, TypeOK
<1> QED BY <1>1, CardFollows DEF Draw

\* The invariant of the next state, from that of its parts.
LEMMA Kept ==
    ASSUME TypeOK', LoadsKept(page', loads', drawer'), ApprovalsKept(approvals'),
           DrawerKept(drawer', calls', approvals', page'.overview),
           Shown(drawer') => card'.from = drawer'.result.approval
    PROVE  ConsoleIInv'
BY DEF ConsoleIInv

\* Steps of the drawer that make no request.
LEMMA DrawerSteps ==
    ASSUME ConsoleIInv, OpenDrawer \/ CloseDrawer \/ ReturnToBusinessView \/ CancelOrderSwitch
    PROVE  ConsoleIInv'
<1>t. TypeOK /\ drawer \in Drawer /\ card \in Card /\ FlagsKept(drawer, calls)
  BY DEF ConsoleIInv, TypeOK, DrawerKept
<1>u. UNCHANGED <<page, loads, calls, approvals, issued>>
  BY DEF OpenDrawer, CloseDrawer, ReturnToBusinessView, CancelOrderSwitch
<1>1. PICK e \in Drawer :
        /\ Draw(card, e)
        /\ e.seq = drawer.seq /\ e.loading = drawer.loading /\ e.acting = drawer.acting
        /\ e.session = drawer.session /\ e.switching = drawer.switching
        /\ e.result = drawer.result \/ (e.result = NoResult /\ drawer.result.kind # "APPROVAL")
        /\ drawer.up => e.up
        /\ e.visible => e.up
  <2>1. CASE OpenDrawer
    <3>1. PICK e : e = [drawer EXCEPT !.visible = TRUE]
      OBVIOUS
    <3>2. e \in Drawer
      BY <3>1, <1>t DEF Drawer
    <3> QED BY <3>1, <3>2, <2>1, <1>t DEF OpenDrawer, Drawer
  <2>2. CASE CloseDrawer
    <3>1. PICK e : e = [drawer EXCEPT !.visible = FALSE]
      OBVIOUS
    <3>2. e \in Drawer
      BY <3>1, <1>t DEF Drawer
    <3> QED BY <3>1, <3>2, <2>2, <1>t DEF CloseDrawer, Drawer
  <2>3. CASE ReturnToBusinessView
    <3>1. PICK e : e = [drawer EXCEPT !.up = TRUE]
      OBVIOUS
    <3>2. e \in Drawer
      BY <3>1, <1>t DEF Drawer
    <3> QED BY <3>1, <3>2, <2>3, <1>t DEF ReturnToBusinessView, Drawer
  <2>4. CASE CancelOrderSwitch
    <3>1. PICK e : e = [drawer EXCEPT !.result = NoResult, !.last = "none"]
      OBVIOUS
    <3>2. e \in Drawer
      BY <3>1, <1>t, NothingTyped DEF Drawer
    <3> QED BY <3>1, <3>2, <2>4, <1>t DEF CancelOrderSwitch, Drawer, FlagsKept
  <2> QED BY <2>1, <2>2, <2>3, <2>4
<1>2. drawer' = e /\ card' \in Card /\ (Shown(e) => card'.from = e.result.approval)
  BY <1>1, <1>t, DrawTyped
<1>3. LoadsKept(page, loads, e)
  BY <1>1, LoadsStay DEF ConsoleIInv
<1>4. DrawerKept(e, calls, approvals, page.overview)
  BY <1>1, <1>t, Stays DEF ConsoleIInv
<1>5. TypeOK'
  BY <1>2, <1>t, <1>u DEF TypeOK
<1> QED BY <1>2, <1>3, <1>4, <1>5, <1>u, Kept DEF ConsoleIInv

\* The drawer is unmounted.
LEMMA Leaves == ASSUME ConsoleIInv, LeaveBusinessView PROVE ConsoleIInv'
<1>t. TypeOK /\ drawer \in Drawer /\ card \in Card /\ calls \in SUBSET AgentCall
  BY DEF ConsoleIInv, TypeOK
<1>u. UNCHANGED <<page, approvals, issued>> /\ calls' = Connected(calls) /\ calls' \in SUBSET AgentCall
  BY <1>t DEF LeaveBusinessView, Connected
<1>e. PICK e : e = [FreshDrawer(drawer.seq + 1) EXCEPT !.up = FALSE]
  OBVIOUS
<1>1. /\ e \in Drawer /\ e.seq = drawer.seq + 1 /\ ~e.loading /\ ~e.acting /\ ~e.switching
      /\ e.result = NoResult /\ e.session = NoSession /\ ~e.up /\ ~e.visible
  <2>1. drawer.seq + 1 \in Nat
    BY <1>t DEF Drawer
  <2> QED BY <2>1, <1>e, FreshIs
<1>2. drawer' = e /\ card' \in Card /\ (Shown(e) => card'.from = e.result.approval)
  BY <1>1, <1>e, <1>t, DrawTyped DEF LeaveBusinessView
<1>3. DrawerKept(e, calls', approvals, page.overview)
  BY <1>1, <1>t, <1>u, MovesOn DEF ConsoleIInv
<1>4. LoadsKept(page, loads', e) /\ loads' \subseteq OverviewLoad
  <2> DEFINE g(l) == IF l.by = "agent" THEN [l EXCEPT !.by = "gone"] ELSE l
  <2>1. loads' = {g(l) : l \in loads}
    BY DEF LeaveBusinessView
  <2>2. \A l \in loads : g(l) \in OverviewLoad /\ g(l).seq = l.seq /\ g(l).by # "agent"
    BY <1>t DEF TypeOK, OverviewLoad
  <2> HIDE DEF g
  <2>3. LoadsKept(page, loads, drawer)
    BY DEF ConsoleIInv
  <2>4. \A l, m \in loads' : l.seq = m.seq => l = m
    BY <2>1, <2>2, <2>3 DEF LoadsKept
  <2>5. \A l \in loads' : l.seq <= page.seq /\ l.by # "agent"
    BY <2>1, <2>2, <2>3 DEF LoadsKept
  <2>6. page.loading <=> \E l \in loads' : l.seq = page.seq
    BY <2>1, <2>2, <2>3 DEF LoadsKept
  <2> QED BY <2>1, <2>2, <2>4, <2>5, <2>6, <1>1 DEF LoadsKept
<1>5. TypeOK'
  BY <1>1, <1>2, <1>4, <1>t, <1>u DEF TypeOK
<1> QED BY <1>2, <1>3, <1>4, <1>5, <1>u, Kept DEF ConsoleIInv

\* A message, a fixed diagnosis, a choice or a retry is sent.
LEMMA Submits ==
    ASSUME ConsoleIInv, NEW kind \in {"message", "fixed"}, NEW content \in {"typed", "choice"},
           Submit(kind, content)
    PROVE  ConsoleIInv'
<1>t. TypeOK /\ drawer \in Drawer /\ card \in Card /\ calls \in SUBSET AgentCall /\ approvals \in Seq(Approval)
  BY DEF ConsoleIInv, TypeOK
<1>u. UNCHANGED <<page, loads, approvals>> /\ issued' \in Nat
  BY <1>t DEF Submit, TypeOK
<1>e. PICK e : e = Submitted(drawer, kind, content)
  OBVIOUS
<1>1. /\ e \in Drawer /\ e.seq = drawer.seq + 1 /\ e.loading /\ e.acting = drawer.acting
      /\ e.result = NoResult /\ e.session = drawer.session
      /\ e.up = drawer.up /\ e.visible = drawer.visible /\ e.switching = drawer.switching
  BY <1>e, <1>t, SubmittedIs
<1>2. drawer' = e /\ card' \in Card /\ (Shown(e) => card'.from = e.result.approval)
  BY <1>1, <1>e, <1>t, DrawTyped DEF Submit
<1>r. PICK r : r = Opened(page.overview, drawer, kind, content, 0, "none")
  OBVIOUS
<1>3. /\ r \in AgentCall /\ r.seq = drawer.seq + 1 /\ r.order = page.overview /\ r.session = NoSession
      /\ r.waiting /\ r.kind = kind
  BY <1>r, <1>t, OpenedIs DEF Kinds, TypeOK, Page
<1>4. calls' = calls \cup {r} /\ IsMessage(r)
  BY <1>r, <1>3 DEF Submit, IsMessage
<1>5. drawer.up /\ ~drawer.loading /\ ~drawer.acting
  BY DEF Submit, Busy, ConsoleIInv, DrawerKept, FlagsKept
<1>6. DrawerKept(e, calls \cup {r}, approvals, page.overview)
  BY <1>1, <1>3, <1>4, <1>5, <1>t, Begins DEF ConsoleIInv
<1>7. LoadsKept(page, loads, e)
  BY <1>1, LoadsStay DEF ConsoleIInv
<1>8. TypeOK'
  BY <1>1, <1>2, <1>3, <1>4, <1>t, <1>u DEF TypeOK
<1> QED BY <1>2, <1>4, <1>6, <1>7, <1>8, <1>u, Kept DEF ConsoleIInv

LEMMA SubmitSteps ==
    ASSUME ConsoleIInv, SubmitAgent \/ SubmitFixedDiagnosis \/ SubmitClarification \/ RetryLastRequest
    PROVE  ConsoleIInv'
<1>1. drawer.last \in {"none", "typed", "choice"}
  BY DEF ConsoleIInv, TypeOK, Drawer
<1> QED BY <1>1, Submits DEF SubmitAgent, SubmitFixedDiagnosis, SubmitClarification, RetryLastRequest

\* The user agrees to another order: the page loads it for the drawer.
LEMMA Switches == ASSUME ConsoleIInv, ConfirmOrderSwitch PROVE ConsoleIInv'
<1>t. TypeOK /\ drawer \in Drawer /\ card \in Card /\ page \in Page /\ loads \in SUBSET OverviewLoad
  BY DEF ConsoleIInv, TypeOK
<1>u. UNCHANGED <<calls, approvals>> /\ issued' \in Nat
  BY <1>t DEF ConfirmOrderSwitch, TypeOK
<1>e. PICK e : e = [drawer EXCEPT !.switching = TRUE, !.error = NoError]
  OBVIOUS
<1>1. e \in Drawer
  BY <1>e, <1>t, NothingTyped DEF Drawer
<1>2. /\ e.seq = drawer.seq /\ e.loading = drawer.loading /\ e.acting = drawer.acting
      /\ e.session = drawer.session /\ e.result = drawer.result /\ e.switching
      /\ e.up = drawer.up /\ e.visible = drawer.visible
  BY <1>e, <1>t DEF Drawer
<1>3. drawer.up /\ drawer.visible /\ ~drawer.switching /\ drawer.result.target \in Orders
  <2>1. drawer.result \in Result
    BY <1>t DEF Drawer
  <2> QED BY <2>1, ResultIs DEF ConfirmOrderSwitch, Busy, ConsoleIInv, DrawerKept, FlagsKept
<1>4. drawer' = e /\ card' \in Card /\ (Shown(e) => card'.from = e.result.approval)
  BY <1>1, <1>e, <1>t, DrawTyped DEF ConfirmOrderSwitch
<1>5. page' \in Page /\ page'.seq = page.seq + 1 /\ page'.loading /\ page'.overview = page.overview
  <2>1. PICK p : p = [page EXCEPT !.seq = page.seq + 1, !.loading = TRUE]
    OBVIOUS
  <2>2. p = [listed |-> page.listed, selected |-> page.selected, overview |-> page.overview,
             seq |-> page.seq + 1, loading |-> TRUE, error |-> page.error]
    BY <2>1, <1>t DEF Page
  <2>3. p \in Page
    BY <2>2, <1>t DEF Page
  <2> QED BY <2>1, <2>2, <2>3 DEF ConfirmOrderSwitch
<1>l. PICK l : l = Load(drawer.result.target, "agent")
  OBVIOUS
<1>6. l \in OverviewLoad /\ l.seq = page.seq + 1 /\ l.by = "agent"
  BY <1>l, <1>3, <1>t DEF Load, OverviewLoad, Page, Drawer
<1>7. LoadsKept(page', loads \cup {l}, e)
  BY <1>1, <1>2, <1>3, <1>5, <1>6, <1>t, LoadBegins DEF ConsoleIInv
<1>8. DrawerKept(e, calls, approvals, page.overview)
  BY <1>1, <1>2, <1>3, <1>t, Stays DEF ConsoleIInv
<1>9. loads' = loads \cup {l}
  BY <1>l DEF ConfirmOrderSwitch
<1>10. TypeOK'
  BY <1>1, <1>4, <1>5, <1>6, <1>9, <1>t, <1>u DEF TypeOK
<1> QED BY <1>4, <1>5, <1>7, <1>8, <1>9, <1>10, <1>u, Kept DEF ConsoleIInv

\* The draft on the card is edited; nothing is sent.
LEMMA CardSteps ==
    ASSUME ConsoleIInv,
           \/ \E c \in Conclusions, comment \in BOOLEAN : EditDraft(c, comment)
           \/ OpenConfirmation
           \/ CloseConfirmation
    PROVE  ConsoleIInv'
<1>t. TypeOK /\ card \in Card
  BY DEF ConsoleIInv, TypeOK
<1>u. UNCHANGED <<page, loads, drawer, calls, approvals, issued>>
  BY DEF EditDraft, OpenConfirmation, CloseConfirmation
<1>1. card' \in Card /\ card'.from = card.from
  <2>1. ASSUME NEW c \in Conclusions, NEW comment \in BOOLEAN, EditDraft(c, comment)
        PROVE  card' \in Card /\ card'.from = card.from
    BY <2>1, <1>t DEF EditDraft, Card
  <2>2. CASE OpenConfirmation
    BY <2>2, <1>t DEF OpenConfirmation, Card
  <2>3. CASE CloseConfirmation
    BY <2>3, <1>t DEF CloseConfirmation, Card
  <2> QED BY <2>1, <2>2, <2>3
<1>2. TypeOK'
  BY <1>1, <1>t, <1>u DEF TypeOK
<1>3. Shown(drawer') => card'.from = drawer'.result.approval
  BY <1>1, <1>u DEF ConsoleIInv
<1> QED BY <1>2, <1>3, <1>u, Kept DEF ConsoleIInv

\* A decision on the approval shown is sent, under the next number (a
\* confirmation, which waits for its stream first) or under the present one.
LEMMA Decides ==
    ASSUME ConsoleIInv, NEW kind \in {"confirm", "cancel", "rework"}, NEW c \in Card, c.from = card.from,
           NEW e \in Drawer, NEW r \in AgentCall,
           Draw(c, e), calls' = calls \cup {r}, issued' = issued + 1, UNCHANGED <<page, loads, approvals>>,
           Shown(drawer), ~drawer.loading, ~drawer.acting,
           e.seq = drawer.seq \/ e.seq = drawer.seq + 1,
           e.loading = drawer.loading, e.acting, e.result = drawer.result, e.session = drawer.session,
           e.up = drawer.up, e.switching = drawer.switching,
           r.kind = kind, r.waiting, r.seq = e.seq, r.order = page.overview, r.session = NoSession,
           r.approval = drawer.result.approval
    PROVE  ConsoleIInv'
<1>t. /\ TypeOK /\ drawer \in Drawer /\ calls \in SUBSET AgentCall /\ approvals \in Seq(Approval)
      /\ issued' \in Nat
  BY DEF ConsoleIInv, TypeOK
<1>1. drawer' = e /\ card' \in Card /\ (Shown(e) => card'.from = e.result.approval)
  BY DrawTyped
<1>2. drawer.up /\ drawer.result.kind = "APPROVAL" /\ ~IsMessage(r)
  BY DEF Shown, IsMessage, ConsoleIInv, DrawerKept, FlagsKept
<1>3. DrawerKept(e, calls \cup {r}, approvals, page.overview)
  BY <1>2, <1>t, Begins DEF ConsoleIInv
<1>4. LoadsKept(page, loads, e)
  BY LoadsStay DEF ConsoleIInv
<1>5. TypeOK'
  BY <1>1, <1>t DEF TypeOK
<1> QED BY <1>1, <1>3, <1>4, <1>5, Kept DEF ConsoleIInv

LEMMA ApprovalShown ==
    ASSUME ConsoleIInv, Shown(drawer)
    PROVE  /\ drawer.result.approval \in Nat /\ drawer.result.approval \in DOMAIN approvals
           /\ drawer.result.conclusion \in Conclusions
           /\ page.overview \in Shows
<1>1. drawer.result \in Result /\ page.overview \in Shows
  BY DEF ConsoleIInv, TypeOK, Drawer, Page
<1>2. drawer.result.kind = "APPROVAL"
  BY DEF Shown
<1>3. drawer.result.approval \in Nat /\ drawer.result.conclusion \in Conclusions
  BY <1>1, <1>2, ResultIs
<1>4. drawer.result.approval \in DOMAIN approvals
  BY <1>2 DEF ConsoleIInv, DrawerKept, ResultKept
<1> QED BY <1>1, <1>3, <1>4

\* A decision is confirmed.
LEMMA Confirms == ASSUME ConsoleIInv, ConfirmDecision PROVE ConsoleIInv'
<1>t. drawer \in Drawer /\ card \in Card
  BY DEF ConsoleIInv, TypeOK
<1>g. Shown(drawer) /\ ~drawer.loading /\ ~drawer.acting
  BY DEF ConfirmDecision, ControlsEnabled, Submitting
<1>c. PICK c : c = [card EXCEPT !.pending = "confirm", !.dialog = FALSE]
  OBVIOUS
<1>1. c \in Card /\ c.from = card.from
  BY <1>c, <1>t DEF Card
<1>e. PICK e : e = [drawer EXCEPT !.seq = drawer.seq + 1, !.acting = TRUE, !.error = NoError]
  OBVIOUS
<1>2. e \in Drawer
  <2>1. e = [up |-> drawer.up, visible |-> drawer.visible, seq |-> drawer.seq + 1, loading |-> drawer.loading,
             acting |-> TRUE, switching |-> drawer.switching, result |-> drawer.result, error |-> NoError,
             session |-> drawer.session, last |-> drawer.last]
    BY <1>e, <1>t DEF Drawer
  <2> QED BY <2>1, <1>t, NothingTyped DEF Drawer
<1>3. /\ e.seq = drawer.seq + 1 /\ e.loading = drawer.loading /\ e.acting
      /\ e.result = drawer.result /\ e.session = drawer.session
      /\ e.up = drawer.up /\ e.switching = drawer.switching
  BY <1>e, <1>t DEF Drawer
<1>r. PICK r : r = Opened(page.overview, drawer, "confirm", "typed", drawer.result.approval, card.conclusion)
  OBVIOUS
<1>4. /\ r \in AgentCall /\ r.seq = drawer.seq + 1 /\ r.order = page.overview /\ r.session = NoSession
      /\ r.waiting /\ r.kind = "confirm" /\ r.approval = drawer.result.approval
  BY <1>r, <1>g, <1>t, ApprovalShown, OpenedIs DEF Kinds, Card
<1>5. /\ Draw(c, e) /\ calls' = calls \cup {r} /\ issued' = issued + 1
      /\ UNCHANGED <<page, loads, approvals>>
  BY <1>c, <1>e, <1>r DEF ConfirmDecision
<1> QED BY <1>1, <1>2, <1>3, <1>4, <1>5, <1>g, Decides

\* A cancellation or a rework is sent at once.
LEMMA Sends ==
    ASSUME ConsoleIInv, NEW kind \in {"cancel", "rework"}, NEW c \in Card, c.from = card.from,
           Shown(drawer), ~drawer.loading, SendNow(c, kind)
    PROVE  ConsoleIInv'
<1>t. drawer \in Drawer
  BY DEF ConsoleIInv, TypeOK
<1>g. ~drawer.acting
  BY DEF SendNow
<1>e. PICK e : e = [drawer EXCEPT !.acting = TRUE, !.error = NoError]
  OBVIOUS
<1>1. e \in Drawer
  BY <1>e, <1>t, NothingTyped DEF Drawer
<1>2. /\ e.seq = drawer.seq /\ e.loading = drawer.loading /\ e.acting
      /\ e.result = drawer.result /\ e.session = drawer.session
      /\ e.up = drawer.up /\ e.switching = drawer.switching
  BY <1>e, <1>t DEF Drawer
<1>o. PICK o : o = Opened(page.overview, drawer, kind, "typed", drawer.result.approval, "none")
  OBVIOUS
<1>3. /\ o \in AgentCall /\ o.order = page.overview /\ o.session = NoSession
      /\ o.waiting /\ o.kind = kind /\ o.approval = drawer.result.approval
  BY <1>o, <1>t, ApprovalShown, OpenedIs DEF Kinds
<1>r. PICK r : r = [o EXCEPT !.seq = drawer.seq, !.stage = "sent"]
  OBVIOUS
<1>4. r \in AgentCall
  BY <1>r, <1>3, <1>t DEF AgentCall, Drawer
<1>5. /\ r.order = page.overview /\ r.session = NoSession /\ r.seq = drawer.seq
      /\ r.waiting /\ r.kind = kind /\ r.approval = drawer.result.approval
  BY <1>r, <1>3 DEF AgentCall
<1>6. /\ Draw(c, e) /\ calls' = calls \cup {r} /\ issued' = issued + 1
      /\ UNCHANGED <<page, loads, approvals>>
  BY <1>e, <1>o, <1>r DEF SendNow
<1> QED BY <1>1, <1>2, <1>4, <1>5, <1>6, <1>g, Decides

LEMMA SendSteps == ASSUME ConsoleIInv, CancelApproval \/ RequestRework PROVE ConsoleIInv'
<1>t. card \in Card
  BY DEF ConsoleIInv, TypeOK
<1>1. CASE CancelApproval
  <2>1. PICK c : c = [card EXCEPT !.pending = "cancel", !.dialog = FALSE]
    OBVIOUS
  <2>2. c \in Card /\ c.from = card.from
    BY <2>1, <1>t DEF Card
  <2>3. SendNow(c, "cancel") /\ Shown(drawer) /\ ~drawer.loading
    BY <2>1, <1>1 DEF CancelApproval, ControlsEnabled, Submitting
  <2> QED BY <2>2, <2>3, Sends
<1>2. CASE RequestRework
  <2>1. SendNow(card, "rework") /\ Shown(drawer) /\ ~drawer.loading
    BY <1>2 DEF RequestRework, Submitting
  <2> QED BY <2>1, <1>t, Sends
<1> QED BY <1>1, <1>2

-----------------------------------------------------------------------------
(* The ends of loads *)

\* The page shows something else, or the same; the drawer follows.
LEMMA Displays ==
    ASSUME ConsoleIInv, NEW p \in Page, Display(p)
    PROVE  /\ page' = p
           /\ DrawerKept(drawer', calls', approvals, p.overview)
           /\ Shown(drawer') => card'.from = drawer'.result.approval
           /\ drawer' \in Drawer /\ card' \in Card /\ calls' \subseteq AgentCall
           /\ drawer'.up = drawer.up /\ drawer'.switching = drawer.switching
<1>t. drawer \in Drawer /\ card \in Card /\ calls \in SUBSET AgentCall /\ page' = p
  BY DEF ConsoleIInv, TypeOK, Display
<1>k. DrawerKept(drawer, calls, approvals, page.overview)
  BY DEF ConsoleIInv
<1>1. CASE p.overview # page.overview /\ drawer.up
  <2>e. PICK e : e = ResetConversation(drawer)
    OBVIOUS
  <2>1. /\ e \in Drawer /\ e.seq = drawer.seq + 1 /\ ~e.loading /\ ~e.acting
        /\ e.result = NoResult /\ e.session = NoSession /\ e.up = drawer.up /\ e.switching = drawer.switching
    BY <2>e, <1>t, ResetIs
  <2>2. drawer' = e /\ card' \in Card /\ (Shown(e) => card'.from = e.result.approval)
    BY <2>1, <2>e, <1>1, <1>t, DrawTyped DEF Display
  <2>3. DrawerKept(e, Connected(calls), approvals, p.overview)
    BY <2>1, <1>1, <1>t, <1>k, MovesOn
  <2>4. calls' = Connected(calls) /\ calls' \subseteq AgentCall
    BY <1>1, <1>t DEF Display, Connected
  <2> QED BY <2>1, <2>2, <2>3, <2>4, <1>t
<1>2. CASE ~(p.overview # page.overview /\ drawer.up)
  <2>1. UNCHANGED <<drawer, card, calls>>
    BY <1>2 DEF Display
  <2>2. DrawerKept(drawer, calls, approvals, p.overview)
    BY <1>2, <1>k, NothingShown
  <2> QED BY <2>1, <2>2, <1>t DEF ConsoleIInv
<1> QED BY <1>1, <1>2

\* An overview arrives, or fails to.
LEMMA PageLoads ==
    ASSUME ConsoleIInv, NEW l \in loads, NEW ok \in BOOLEAN, PageLoaded(l, ok)
    PROVE  ConsoleIInv'
<1>t. TypeOK /\ page \in Page /\ l \in OverviewLoad /\ loads' \subseteq OverviewLoad
  BY DEF ConsoleIInv, TypeOK, PageLoaded
<1>u. UNCHANGED <<approvals, issued>> /\ loads' = loads \ {l} /\ l.by = "page"
  BY DEF PageLoaded
<1>k. LoadsKept(page, loads, drawer)
  BY DEF ConsoleIInv
<1>1. CASE l.seq # page.seq
  <2>1. UNCHANGED <<page, drawer, card, calls>>
    BY <1>1 DEF PageLoaded
  <2>2. LoadsKept(page, loads \ {l}, drawer)
    BY <1>1, <1>u, <1>k, LoadEnded
  <2>3. TypeOK'
    BY <2>1, <1>t, <1>u DEF TypeOK
  <2> QED BY <2>1, <2>2, <2>3, <1>u, Kept DEF ConsoleIInv
<1>2. CASE l.seq = page.seq
  <2>1. PICK shown \in Shows : shown = IF ok THEN l.order ELSE NoOrder
    BY <1>t DEF OverviewLoad, Shows
  <2>2. PICK p : p = [page EXCEPT !.overview = shown, !.error = ~ok, !.loading = FALSE]
    OBVIOUS
  <2>3. p = [listed |-> page.listed, selected |-> page.selected, overview |-> shown, seq |-> page.seq,
             loading |-> FALSE, error |-> ~ok]
    BY <2>2, <1>t DEF Page
  <2>4. p \in Page
    BY <2>3, <1>t DEF Page
  <2>5. Display(p)
    BY <2>1, <2>2, <1>2 DEF PageLoaded
  <2>6. /\ page' = p
        /\ DrawerKept(drawer', calls', approvals, p.overview)
        /\ Shown(drawer') => card'.from = drawer'.result.approval
        /\ drawer' \in Drawer /\ card' \in Card /\ calls' \subseteq AgentCall
        /\ drawer'.up = drawer.up /\ drawer'.switching = drawer.switching
    BY <2>4, <2>5, Displays
  <2>7. LoadsKept(p, loads \ {l}, drawer')
    BY <2>3, <2>6, <1>2, <1>u, <1>k, LoadEnded
  <2>8. TypeOK'
    BY <2>4, <2>6, <1>t, <1>u DEF TypeOK
  <2> QED BY <2>6, <2>7, <2>8, <1>u, Kept DEF ConsoleIInv
<1> QED BY <1>1, <1>2

\* The order the drawer switches to arrives: the drawer starts anew on it, and
\* asks again.
LEMMA SwitchLoads ==
    ASSUME ConsoleIInv, NEW l \in loads, SwitchLoaded(l)
    PROVE  ConsoleIInv'
<1>t. /\ TypeOK /\ page \in Page /\ l \in OverviewLoad /\ loads' \subseteq OverviewLoad
      /\ drawer \in Drawer /\ card \in Card /\ calls \in SUBSET AgentCall /\ approvals \in Seq(Approval)
  BY DEF ConsoleIInv, TypeOK, SwitchLoaded
<1>u. UNCHANGED <<approvals, issued>> /\ loads' = loads \ {l} /\ l.by \in {"agent", "gone"} /\ l.seq = page.seq
  BY <1>t DEF SwitchLoaded, OverviewLoad
<1>k. LoadsKept(page, loads, drawer) /\ DrawerKept(drawer, calls, approvals, page.overview)
  BY DEF ConsoleIInv
<1>p. PICK p : p = [page EXCEPT !.selected = l.order, !.overview = l.order, !.error = FALSE, !.loading = FALSE]
  OBVIOUS
<1>1. p = [listed |-> page.listed, selected |-> l.order, overview |-> l.order, seq |-> page.seq,
           loading |-> FALSE, error |-> FALSE]
  BY <1>p, <1>t DEF Page
<1>2. p \in Page
  BY <1>1, <1>t DEF Page, OverviewLoad, Shows
<1>3. CASE l.by = "gone"
  <2>1. Display(p)
    BY <1>p, <1>3 DEF SwitchLoaded
  <2>2. /\ page' = p
        /\ DrawerKept(drawer', calls', approvals, p.overview)
        /\ Shown(drawer') => card'.from = drawer'.result.approval
        /\ drawer' \in Drawer /\ card' \in Card /\ calls' \subseteq AgentCall
        /\ drawer'.up = drawer.up /\ drawer'.switching = drawer.switching
    BY <2>1, <1>2, Displays
  <2>3. LoadsKept(p, loads \ {l}, drawer')
    BY <2>2, <1>1, <1>3, <1>u, <1>k, LoadEnded
  <2>4. TypeOK'
    BY <2>2, <1>2, <1>t, <1>u DEF TypeOK
  <2> QED BY <2>2, <2>3, <2>4, <1>u, Kept DEF ConsoleIInv
<1>4. CASE l.by = "agent"
  <2>r. PICK c : c = ResetConversation(drawer)
    OBVIOUS
  <2>d. PICK d : d = [c EXCEPT !.switching = FALSE]
    OBVIOUS
  <2>1. /\ c \in Drawer /\ c.seq = drawer.seq + 1 /\ ~c.loading /\ ~c.acting
        /\ c.result = NoResult /\ c.session = NoSession /\ c.up = drawer.up /\ c.visible = drawer.visible
    BY <2>r, <1>t, ResetIs
  <2>2. d \in Drawer
    BY <2>d, <2>1 DEF Drawer
  <2>3. /\ d.seq = c.seq /\ d.loading = c.loading /\ d.acting = c.acting /\ d.result = c.result
        /\ d.session = c.session /\ d.up = c.up /\ d.visible = c.visible /\ ~d.switching
    BY <2>d, <2>1 DEF Drawer
  <2>4. drawer.up /\ (drawer.visible => drawer.up)
    BY <1>4, <1>k DEF LoadsKept, DrawerKept, FlagsKept
  <2>5. DrawerKept(d, Connected(calls), approvals, p.overview)
    BY <2>1, <2>2, <2>3, <2>4, <1>t, <1>k, MovesOn
  <2>6. Connected(calls) \in SUBSET AgentCall /\ page' = p
    BY <1>4, <1>p, <1>t DEF Connected, SwitchLoaded
  <2>7. CASE d.seq = l.dseq + 1
    <3>e. PICK e : e = Submitted(d, "message", "typed")
      OBVIOUS
    <3>1. /\ e \in Drawer /\ e.seq = d.seq + 1 /\ e.loading /\ e.acting = d.acting
          /\ e.result = NoResult /\ e.session = d.session /\ e.up = d.up /\ e.switching = d.switching
      BY <3>e, <2>2, SubmittedIs
    <3>r. PICK r : r = Opened(l.order, d, "message", "typed", 0, "none")
      OBVIOUS
    <3>2. /\ r \in AgentCall /\ r.seq = d.seq + 1 /\ r.order = p.overview /\ r.session = NoSession
          /\ r.waiting /\ r.kind = "message"
      BY <3>r, <2>2, <1>1, <1>t, OpenedIs DEF Kinds, OverviewLoad, Shows
    <3>3. Draw(card, e) /\ calls' = Connected(calls) \cup {r}
      BY <3>e, <3>r, <2>7, <2>r, <2>d, <1>4 DEF SwitchLoaded
    <3>4. drawer' = e /\ card' \in Card /\ (Shown(e) => card'.from = e.result.approval)
      BY <3>1, <3>3, <1>t, DrawTyped
    <3>5. ApprovalsKept(approvals) /\ IsMessage(r)
      BY <3>2 DEF ConsoleIInv, IsMessage
    <3>6. DrawerKept(e, Connected(calls) \cup {r}, approvals, p.overview)
      BY <3>1, <3>2, <3>5, <2>1, <2>2, <2>3, <2>4, <2>5, <2>6, <1>t, Begins
    <3>7. LoadsKept(p, loads \ {l}, e)
      BY <3>1, <2>1, <2>3, <1>1, <1>4, <1>u, <1>k, LoadEnded
    <3>8. TypeOK'
      BY <3>1, <3>2, <3>3, <3>4, <2>6, <1>2, <1>t, <1>u DEF TypeOK
    <3> QED BY <3>3, <3>4, <3>6, <3>7, <3>8, <2>6, <1>u, Kept DEF ConsoleIInv
  <2>8. CASE d.seq # l.dseq + 1
    <3>1. Draw(card, d) /\ calls' = Connected(calls)
      BY <2>8, <2>r, <2>d, <1>4 DEF SwitchLoaded
    <3>2. drawer' = d /\ card' \in Card /\ (Shown(d) => card'.from = d.result.approval)
      BY <3>1, <2>2, <1>t, DrawTyped
    <3>3. LoadsKept(p, loads \ {l}, d)
      BY <2>1, <2>3, <1>1, <1>4, <1>u, <1>k, LoadEnded
    <3>4. TypeOK'
      BY <3>1, <3>2, <2>2, <2>6, <1>2, <1>t, <1>u DEF TypeOK
    <3> QED BY <3>1, <3>2, <3>3, <3>4, <2>5, <2>6, <1>u, Kept DEF ConsoleIInv
  <2> QED BY <2>7, <2>8
<1> QED BY <1>3, <1>4, <1>u

\* It does not arrive.
LEMMA SwitchFails ==
    ASSUME ConsoleIInv, NEW l \in loads, SwitchFailed(l)
    PROVE  ConsoleIInv'
<1>t. TypeOK /\ page \in Page /\ drawer \in Drawer /\ card \in Card /\ loads' \subseteq OverviewLoad /\ l \in OverviewLoad
  BY DEF ConsoleIInv, TypeOK, SwitchFailed
<1>u. UNCHANGED <<calls, approvals, issued>> /\ loads' = loads \ {l} /\ l.by \in {"agent", "gone"}
  BY <1>t DEF SwitchFailed, OverviewLoad
<1>k. LoadsKept(page, loads, drawer) /\ DrawerKept(drawer, calls, approvals, page.overview)
  BY DEF ConsoleIInv
<1>1. page' \in Page /\ page'.seq = page.seq /\ page'.overview = page.overview
      /\ (page'.loading <=> page.loading /\ l.seq # page.seq)
  <2>1. CASE l.seq = page.seq
    <3>1. PICK p : p = [page EXCEPT !.loading = FALSE]
      OBVIOUS
    <3>2. p = [listed |-> page.listed, selected |-> page.selected, overview |-> page.overview, seq |-> page.seq,
               loading |-> FALSE, error |-> page.error]
      BY <3>1, <1>t DEF Page
    <3>3. p \in Page
      BY <3>2, <1>t DEF Page
    <3> QED BY <3>1, <3>2, <3>3, <2>1 DEF SwitchFailed
  <2>2. CASE l.seq # page.seq
    BY <2>2, <1>t DEF SwitchFailed
  <2> QED BY <2>1, <2>2
<1>2. CASE l.by = "gone"
  <2>1. UNCHANGED <<drawer, card>>
    BY <1>2 DEF SwitchFailed
  <2>2. LoadsKept(page', loads \ {l}, drawer)
    BY <1>1, <1>2, <1>k, LoadEnded
  <2>3. TypeOK'
    BY <2>1, <1>1, <1>t, <1>u DEF TypeOK
  <2> QED BY <2>1, <2>2, <2>3, <1>1, <1>u, Kept DEF ConsoleIInv
<1>3. CASE l.by = "agent"
  <2>1. PICK err \in [of : {"none", "switch"} \cup Kinds, retryable : BOOLEAN] :
          err = IF l.dseq = drawer.seq THEN [of |-> "switch", retryable |-> FALSE] ELSE drawer.error
    BY <1>t DEF Drawer
  <2>2. PICK e : e = [drawer EXCEPT !.switching = FALSE, !.error = err]
    OBVIOUS
  <2>3. e \in Drawer
    BY <2>1, <2>2, <1>t DEF Drawer
  <2>4. /\ e.seq = drawer.seq /\ e.loading = drawer.loading /\ e.acting = drawer.acting
        /\ e.session = drawer.session /\ e.result = drawer.result /\ ~e.switching
        /\ e.up = drawer.up /\ e.visible = drawer.visible
    BY <2>2, <1>t DEF Drawer
  <2>5. Draw(card, e)
    BY <2>1, <2>2, <1>3 DEF SwitchFailed
  <2>6. drawer' = e /\ card' \in Card /\ (Shown(e) => card'.from = e.result.approval)
    BY <2>3, <2>5, <1>t, DrawTyped
  <2>7. LoadsKept(page', loads \ {l}, e)
    BY <2>4, <1>1, <1>3, <1>k, LoadEnded
  <2>8. e.visible => e.up
    BY <2>4, <1>k DEF DrawerKept, FlagsKept
  <2>9. DrawerKept(e, calls, approvals, page.overview)
    BY <2>3, <2>4, <2>8, <1>t, <1>k, Stays
  <2>10. TypeOK'
    BY <2>3, <2>6, <1>1, <1>t, <1>u DEF TypeOK
  <2> QED BY <2>6, <2>7, <2>9, <2>10, <1>1, <1>u, Kept DEF ConsoleIInv
<1> QED BY <1>2, <1>3, <1>u

-----------------------------------------------------------------------------
(* The ends of requests *)

LEMMA EndedIs ==
    ASSUME NEW r, NEW d \in Drawer
    PROVE  LET e == Ended(r, d) IN
           /\ e \in Drawer
           /\ e.seq = d.seq /\ e.up = d.up /\ e.visible = d.visible /\ e.switching = d.switching
           /\ e.result = d.result /\ e.session = d.session
           /\ e.loading <=> d.loading /\ ~(r.seq = d.seq /\ IsMessage(r))
           /\ e.acting <=> d.acting /\ ~(r.seq = d.seq /\ ~IsMessage(r))
<1>1. CASE r.seq # d.seq
  BY <1>1 DEF Ended
<1>2. CASE r.seq = d.seq /\ IsMessage(r)
  <2>1. PICK e : e = [d EXCEPT !.loading = FALSE]
    OBVIOUS
  <2>2. e \in Drawer
    BY <2>1 DEF Drawer
  <2>3. /\ e.seq = d.seq /\ e.up = d.up /\ e.visible = d.visible /\ e.switching = d.switching
        /\ e.result = d.result /\ e.session = d.session /\ e.loading = FALSE /\ e.acting = d.acting
    BY <2>1 DEF Drawer
  <2> QED BY <2>1, <2>2, <2>3, <1>2 DEF Ended
<1>3. CASE r.seq = d.seq /\ ~IsMessage(r)
  <2>1. PICK e : e = [d EXCEPT !.acting = FALSE]
    OBVIOUS
  <2>2. e \in Drawer
    BY <2>1 DEF Drawer
  <2>3. /\ e.seq = d.seq /\ e.up = d.up /\ e.visible = d.visible /\ e.switching = d.switching
        /\ e.result = d.result /\ e.session = d.session /\ e.loading = d.loading /\ e.acting = FALSE
    BY <2>1 DEF Drawer
  <2> QED BY <2>1, <2>2, <2>3, <1>3 DEF Ended
<1> QED BY <1>1, <1>2, <1>3

\* g is what the drawer would become if the request still is the current one.
SameBut(g) ==
    /\ g \in Drawer
    /\ g.seq = drawer.seq /\ g.up = drawer.up /\ g.visible = drawer.visible
    /\ g.loading = drawer.loading /\ g.acting = drawer.acting /\ g.switching = drawer.switching

\* The drawer hears of the end of a request.
LEMMA Hears ==
    ASSUME ConsoleIInv, NEW r \in calls, r.waiting, NEW g, SameBut(g), Heard(r, g),
           NEW bps, Grows(approvals, bps),
           Current(r) => ResultKept(g, calls \ {r}, bps, page.overview)
    PROVE  /\ DrawerKept(drawer', calls \ {r}, bps, page.overview)
           /\ Shown(drawer') => card'.from = drawer'.result.approval
           /\ drawer' \in Drawer /\ card' \in Card
           /\ LoadsKept(page, loads, drawer')
<1>t. drawer \in Drawer /\ card \in Card /\ calls \in SUBSET AgentCall
  BY DEF ConsoleIInv, TypeOK
<1>k. DrawerKept(drawer, calls, approvals, page.overview) /\ LoadsKept(page, loads, drawer)
  BY DEF ConsoleIInv
<1>d. PICK d \in Drawer : d = IF Current(r) THEN g ELSE drawer
  BY <1>t DEF SameBut
<1>e. PICK e : e = Ended(r, d)
  OBVIOUS
<1>1. /\ e \in Drawer
      /\ e.seq = d.seq /\ e.up = d.up /\ e.visible = d.visible /\ e.switching = d.switching
      /\ e.result = d.result /\ e.session = d.session
      /\ e.loading <=> d.loading /\ ~(r.seq = d.seq /\ IsMessage(r))
      /\ e.acting <=> d.acting /\ ~(r.seq = d.seq /\ ~IsMessage(r))
  BY <1>e, EndedIs
<1>2. /\ d.seq = drawer.seq /\ d.up = drawer.up /\ d.visible = drawer.visible
      /\ d.loading = drawer.loading /\ d.acting = drawer.acting /\ d.switching = drawer.switching
  BY <1>d DEF SameBut
<1>3. drawer' = e /\ card' \in Card /\ (Shown(e) => card'.from = e.result.approval)
  BY <1>1, <1>d, <1>e, <1>t, DrawTyped DEF Heard
<1>4. ResultKept(e, calls \ {r}, bps, page.overview)
  <2>1. CASE Current(r)
    BY <2>1, <1>d, <1>1 DEF ResultKept, Counts
  <2>2. CASE ~Current(r)
    <3>1. d = drawer
      BY <2>2, <1>d
    <3>2. calls \ {r} \in SUBSET calls
      OBVIOUS
    <3> QED BY <3>1, <3>2, <1>1, <1>k, ResultStays
  <2> QED BY <2>1, <2>2
<1>5. ~(r.seq = drawer.seq /\ drawer.up) => e.result = drawer.result /\ e.session = drawer.session
  BY <1>1, <1>d DEF Current
<1>6. DrawerKept(e, calls \ {r}, bps, page.overview)
  BY <1>1, <1>2, <1>4, <1>5, <1>t, <1>k, Ends
<1>7. LoadsKept(page, loads, e)
  BY <1>1, <1>2, <1>k, LoadsStay
<1> QED BY <1>1, <1>3, <1>6, <1>7

\* The next state, for a request that is over.
LEMMA CallEnded ==
    ASSUME ConsoleIInv, NEW r \in calls, r.waiting, NEW g, SameBut(g), Heard(r, g),
           Grows(approvals, approvals'), approvals' \in Seq(Approval), ApprovalsKept(approvals'),
           Current(r) => ResultKept(g, calls \ {r}, approvals', page.overview),
           calls' = calls \ {r}, UNCHANGED <<page, loads, issued>>
    PROVE  ConsoleIInv'
<1>1. /\ DrawerKept(drawer', calls \ {r}, approvals', page.overview)
      /\ Shown(drawer') => card'.from = drawer'.result.approval
      /\ drawer' \in Drawer /\ card' \in Card
      /\ LoadsKept(page, loads, drawer')
  BY Hears
<1>2. TypeOK'
  BY <1>1 DEF ConsoleIInv, TypeOK
<1> QED BY <1>1, <1>2, Kept

LEMMA FailedIs ==
    ASSUME drawer \in Drawer, NEW r \in AgentCall, NEW retryable \in BOOLEAN
    PROVE  LET g == FailedWith(r, retryable) IN
           SameBut(g) /\ g.result = drawer.result /\ g.session = drawer.session
<1>1. PICK err : err = [of |-> r.kind, retryable |-> retryable]
  OBVIOUS
<1>2. err \in [of : {"none", "switch"} \cup Kinds, retryable : BOOLEAN]
  BY <1>1 DEF AgentCall
<1>3. PICK g : g = [drawer EXCEPT !.error = err]
  OBVIOUS
<1>4. g \in Drawer
  BY <1>2, <1>3 DEF Drawer
<1>5. /\ g.seq = drawer.seq /\ g.up = drawer.up /\ g.visible = drawer.visible
      /\ g.loading = drawer.loading /\ g.acting = drawer.acting /\ g.switching = drawer.switching
      /\ g.result = drawer.result /\ g.session = drawer.session
  BY <1>3 DEF Drawer
<1>6. FailedWith(r, retryable) = g
  BY <1>1, <1>3 DEF FailedWith
<1> QED BY <1>4, <1>5, <1>6 DEF SameBut

LEMMA Connecting ==
    ASSUME ConsoleIInv, NEW r \in calls
    PROVE  /\ r \in AgentCall /\ CallKept(r, drawer, approvals, page.overview)
           /\ r.stage = "connecting" => r.waiting
BY DEF ConsoleIInv, TypeOK, DrawerKept, CallKept, Counts

\* A request fails, before it is sent or after.
LEMMA CallFails ==
    ASSUME ConsoleIInv, NEW r \in calls, NEW retryable \in BOOLEAN,
           StreamFails(r, retryable) \/ RequestFails(r, retryable)
    PROVE  ConsoleIInv'
<1>t. /\ r \in AgentCall /\ drawer \in Drawer /\ approvals \in Seq(Approval) /\ ApprovalsKept(approvals)
      /\ DrawerKept(drawer, calls, approvals, page.overview) /\ r.waiting
  BY Connecting DEF ConsoleIInv, TypeOK, StreamFails, RequestFails, Awaited
<1>u. UNCHANGED <<page, loads, approvals, issued>> /\ calls' = calls \ {r} /\ Heard(r, FailedWith(r, retryable))
  BY DEF StreamFails, RequestFails
<1>g. PICK g : g = FailedWith(r, retryable)
  OBVIOUS
<1>1. SameBut(g) /\ g.result = drawer.result /\ g.session = drawer.session
  BY <1>g, <1>t, FailedIs
<1>2. ResultKept(g, calls \ {r}, approvals, page.overview)
  <2>1. calls \ {r} \in SUBSET calls
    OBVIOUS
  <2> QED BY <2>1, <1>1, <1>t, GrowsItself, ResultStays DEF SameBut
<1> QED BY <1>1, <1>2, <1>g, <1>t, <1>u, GrowsItself, CallEnded

\* The console stops waiting for a decision.
LEMMA GivesUp ==
    ASSUME ConsoleIInv, NEW r \in calls, NEW retryable \in BOOLEAN, GiveUp(r, retryable)
    PROVE  ConsoleIInv'
<1>t. /\ TypeOK /\ r \in AgentCall /\ drawer \in Drawer /\ DrawerKept(drawer, calls, approvals, page.overview)
      /\ r.waiting /\ r.stage = "sent" /\ ~IsMessage(r)
  BY Connecting DEF ConsoleIInv, TypeOK, GiveUp, Awaited
<1>u. UNCHANGED <<page, loads, approvals, issued>> /\ Heard(r, FailedWith(r, retryable))
  BY DEF GiveUp
<1>g. PICK g : g = FailedWith(r, retryable)
  OBVIOUS
<1>1. SameBut(g) /\ g.result = drawer.result /\ g.session = drawer.session
  BY <1>g, <1>t, FailedIs
<1>2. ResultKept(g, calls \ {r}, approvals, page.overview)
  <2>1. calls \ {r} \in SUBSET calls
    OBVIOUS
  <2> QED BY <2>1, <1>1, <1>t, GrowsItself, ResultStays DEF SameBut
<1>3. /\ DrawerKept(drawer', calls \ {r}, approvals, page.overview)
      /\ Shown(drawer') => card'.from = drawer'.result.approval
      /\ drawer' \in Drawer /\ card' \in Card
      /\ LoadsKept(page, loads, drawer')
  BY <1>1, <1>2, <1>g, <1>t, <1>u, GrowsItself, Hears
<1>x. PICK x : x = [r EXCEPT !.waiting = FALSE, !.seq = 0, !.order = NoOrder]
  OBVIOUS
<1>4. x = [kind |-> r.kind, order |-> NoOrder, seq |-> 0, session |-> r.session, content |-> r.content,
           approval |-> r.approval, conclusion |-> r.conclusion, stage |-> r.stage, waiting |-> FALSE]
  BY <1>x, <1>t DEF AgentCall
<1>5. x \in AgentCall
  BY <1>4, <1>t DEF AgentCall, Shows
<1>6. r.session = NoSession /\ r.approval \in DOMAIN approvals
  BY <1>t, Connecting DEF CallKept
<1>7. ~IsMessage(x)
  BY <1>4, <1>t DEF IsMessage
<1>8. DrawerKept(drawer', (calls \ {r}) \cup {x}, approvals, page.overview)
  BY <1>3, <1>4, <1>6, <1>7, <1>t, Forgotten
<1>9. calls' = (calls \ {r}) \cup {x}
  BY <1>x DEF GiveUp
<1>10. TypeOK'
  BY <1>3, <1>5, <1>9, <1>t, <1>u DEF TypeOK
<1> QED BY <1>3, <1>8, <1>9, <1>10, <1>u, Kept DEF ConsoleIInv

\* A stream is open.
LEMMA StreamOpens == ASSUME ConsoleIInv, NEW r \in calls, StreamReady(r) PROVE ConsoleIInv'
<1>t. TypeOK /\ r \in AgentCall /\ drawer \in Drawer /\ DrawerKept(drawer, calls, approvals, page.overview)
  BY Connecting DEF ConsoleIInv, TypeOK
<1>u. UNCHANGED <<page, loads, drawer, card, approvals, issued>> /\ r.stage = "connecting"
  BY DEF StreamReady
<1>s. PICK s \in Shows \cup {NoSession} : s = IF IsMessage(r) THEN drawer.session ELSE r.session
  BY <1>t DEF Drawer, AgentCall
<1>x. PICK x : x = [r EXCEPT !.stage = "sent", !.session = s]
  OBVIOUS
<1>1. x \in AgentCall
  BY <1>x, <1>s, <1>t DEF AgentCall
<1>2. /\ x.kind = r.kind /\ x.seq = r.seq /\ x.order = r.order /\ x.waiting = r.waiting
      /\ x.approval = r.approval /\ x.stage = "sent" /\ x.session = s
  BY <1>x, <1>t DEF AgentCall
<1>3. calls' = (calls \ {r}) \cup {x}
  BY <1>x, <1>s DEF StreamReady
<1>4. DrawerKept(drawer, (calls \ {r}) \cup {x}, approvals, page.overview)
  BY <1>2, <1>s, <1>t, <1>u, Sent
<1>5. TypeOK'
  BY <1>1, <1>3, <1>t, <1>u DEF TypeOK
<1> QED BY <1>3, <1>4, <1>5, <1>u, Kept DEF ConsoleIInv

\* An answer to a message: the drawer shows it and goes on in its session.
LEMMA AnswerIs ==
    ASSUME drawer \in Drawer, NEW session \in Shows \cup {NoSession}, NEW result \in Result
    PROVE  LET g == [drawer EXCEPT !.session = session, !.result = result] IN
           SameBut(g) /\ g.result = result /\ g.session = session
<1>1. PICK g : g = [drawer EXCEPT !.session = session, !.result = result]
  OBVIOUS
<1>2. g \in Drawer
  BY <1>1 DEF Drawer
<1>3. /\ g.seq = drawer.seq /\ g.up = drawer.up /\ g.visible = drawer.visible
      /\ g.loading = drawer.loading /\ g.acting = drawer.acting /\ g.switching = drawer.switching
      /\ g.result = result /\ g.session = session
  BY <1>1 DEF Drawer
<1> QED BY <1>1, <1>2, <1>3 DEF SameBut

LEMMA SessionIs ==
    ASSUME ConsoleIInv, NEW r \in calls
    PROVE  SessionOf(r) = r.order /\ r.order \in Shows
BY Connecting DEF SessionOf, CallKept, AgentCall

LEMMA MessageEnds == ASSUME ConsoleIInv, NEW r \in calls, MessageAnswered(r) PROVE ConsoleIInv'
<1>t. /\ r \in AgentCall /\ drawer \in Drawer /\ approvals \in Seq(Approval) /\ ApprovalsKept(approvals) /\ r.waiting
  BY Connecting DEF ConsoleIInv, TypeOK, MessageAnswered, Awaited
<1>u. UNCHANGED <<page, loads, approvals, issued>> /\ calls' = calls \ {r}
  BY DEF MessageAnswered
<1>1. PICK result : /\ \/ result = [kind |-> "ANSWER", order |-> r.order]
                       \/ result = [kind |-> "CHOICE", order |-> r.order]
                       \/ \E o \in Orders : result = [kind |-> "SWITCH", order |-> r.order, target |-> o]
                    /\ Heard(r, [drawer EXCEPT !.session = SessionOf(r), !.result = result])
  BY DEF MessageAnswered
<1>2. result \in Result /\ result.order = r.order /\ result.kind # "APPROVAL"
  BY <1>1, SessionIs DEF Result
<1>s. PICK s \in Shows \cup {NoSession} : s = SessionOf(r) /\ s = r.order
  BY SessionIs
<1>g. PICK g : g = [drawer EXCEPT !.session = s, !.result = result]
  OBVIOUS
<1>3. SameBut(g) /\ g.result = result /\ g.session = r.order
  BY <1>2, <1>g, <1>s, <1>t, AnswerIs
<1>4. Current(r) => ResultKept(g, calls \ {r}, approvals, page.overview)
  BY <1>2, <1>3 DEF Current, ResultKept
<1>5. Heard(r, g)
  BY <1>1, <1>g, <1>s
<1> QED BY <1>3, <1>4, <1>5, <1>t, <1>u, GrowsItself, CallEnded

\* An approval that is shown is known to the service; no decision on it or on a
\* rework of it is under way if it is new.
LEMMA NewShown ==
    ASSUME ConsoleIInv, NEW bps, Grows(approvals, bps), NEW a, a \notin DOMAIN approvals, a # 0,
           NEW q \in calls, ~IsMessage(q)
    PROVE  q.approval # a /\ bps[q.approval].source # a
<1>1. q.approval \in DOMAIN approvals /\ approvals \in Seq(Approval) /\ ApprovalsKept(approvals)
  BY Connecting DEF ConsoleIInv, TypeOK, CallKept
<1>2. approvals[q.approval].op \in {"review", "rework"}
  <2>1. \A k \in DOMAIN approvals : approvals[k] \in Approval
    BY <1>1
  <2> QED BY <2>1, <1>1 DEF Approval
<1>3. approvals[q.approval].source # a
  BY <1>1, <1>2 DEF ApprovalsKept
<1> QED BY <1>1, <1>3 DEF Grows

LEMMA ReviewEnds ==
    ASSUME ConsoleIInv, NEW r \in calls, NEW conclusion \in Conclusions, ReviewProposed(r, conclusion)
    PROVE  ConsoleIInv'
<1>t. /\ r \in AgentCall /\ drawer \in Drawer /\ approvals \in Seq(Approval) /\ ApprovalsKept(approvals) /\ r.waiting
  BY Connecting DEF ConsoleIInv, TypeOK, ReviewProposed, Awaited
<1>u. UNCHANGED <<page, loads, issued>> /\ calls' = calls \ {r}
  BY DEF ReviewProposed
<1>p. PICK ap : ap = [status |-> "WAITING_CONFIRMATION", op |-> "review", source |-> 0, written |-> "none"]
  OBVIOUS
<1>1. ap \in Approval /\ ap.op = "review" /\ ap.source = 0 /\ approvals' = Append(approvals, ap)
  BY <1>p DEF ReviewProposed, Propose, Approval, Statuses
<1>a. PICK a : a = Len(approvals')
  OBVIOUS
<1>2. /\ approvals' \in Seq(Approval) /\ Grows(approvals, approvals') /\ ApprovalsKept(approvals')
      /\ a \in DOMAIN approvals' /\ a \notin DOMAIN approvals
  BY <1>1, <1>a, <1>t, ProposedGrows
<1>3. a \in Nat /\ a # 0
  BY <1>2
<1>x. PICK result : result = Proposed(a, r.order, "review", conclusion)
  OBVIOUS
<1>4. /\ result \in Result /\ result.order = r.order /\ result.kind = "APPROVAL" /\ result.approval = a
      /\ result.status = "WAITING_CONFIRMATION"
  BY <1>x, <1>3, SessionIs DEF Proposed, Result, Statuses
<1>s. PICK s \in Shows \cup {NoSession} : s = SessionOf(r) /\ s = r.order
  BY SessionIs
<1>g. PICK g : g = [drawer EXCEPT !.session = s, !.result = result]
  OBVIOUS
<1>5. SameBut(g) /\ g.result = result /\ g.session = r.order
  BY <1>4, <1>g, <1>s, <1>t, AnswerIs
<1>6. \A q \in calls \ {r} : ~IsMessage(q) => q.approval # a /\ approvals'[q.approval].source # a
  BY <1>2, <1>3, NewShown
<1>7. Current(r) => ResultKept(g, calls \ {r}, approvals', page.overview)
  BY <1>2, <1>4, <1>5, <1>6 DEF Current, ResultKept
<1>8. Heard(r, g)
  BY <1>a, <1>g, <1>s, <1>x DEF ReviewProposed
<1> QED BY <1>2, <1>5, <1>7, <1>8, <1>t, <1>u, CallEnded

\* The status of the approval shown is the one its decision reports.
LEMMA StatusIs ==
    ASSUME drawer \in Drawer, NEW d, SameBut(d), d.result = drawer.result, d.session = drawer.session,
           NEW status \in Statuses
    PROVE  LET g == UpdateApprovalStatus(d, status) IN
           /\ SameBut(g) /\ g.session = drawer.session
           /\ drawer.result.kind # "APPROVAL" => g.result = drawer.result
           /\ drawer.result.kind = "APPROVAL" =>
                 /\ g.result # NoResult /\ g.result.kind = "APPROVAL" /\ g.result.status = status
                 /\ g.result.order = drawer.result.order /\ g.result.approval = drawer.result.approval
<1>1. CASE d.result.kind # "APPROVAL"
  BY <1>1 DEF UpdateApprovalStatus
<1>2. CASE d.result.kind = "APPROVAL"
  <2>1. PICK x : x = [d.result EXCEPT !.status = status]
    OBVIOUS
  <2>t. d.result \in [kind : {"APPROVAL"}, order : Shows, approval : Nat, op : {"review", "rework"},
                      status : Statuses, conclusion : Conclusions]
    BY <1>2, ResultIs DEF Drawer
  <2>2. /\ x \in [kind : {"APPROVAL"}, order : Shows, approval : Nat, op : {"review", "rework"},
                  status : Statuses, conclusion : Conclusions]
        /\ x.kind = "APPROVAL" /\ x.status = status /\ x.order = d.result.order /\ x.approval = d.result.approval
    BY <2>1, <2>t
  <2>3. x \in Result /\ x # NoResult
    <3>1. x \in Result
      BY <2>2 DEF Result
    <3> QED BY <3>1, <2>2, ResultIs
  <2>4. PICK g : g = [d EXCEPT !.result = x]
    OBVIOUS
  <2>5. g \in Drawer
    BY <2>3, <2>4 DEF SameBut, Drawer
  <2>6. /\ g.seq = d.seq /\ g.up = d.up /\ g.visible = d.visible
        /\ g.loading = d.loading /\ g.acting = d.acting /\ g.switching = d.switching
        /\ g.result = x /\ g.session = d.session
    BY <2>4 DEF SameBut, Drawer
  <2>7. UpdateApprovalStatus(d, status) = g
    BY <2>1, <2>4, <1>2 DEF UpdateApprovalStatus
  <2> QED BY <2>2, <2>3, <2>5, <2>6, <2>7, <1>2 DEF SameBut
<1> QED BY <1>1, <1>2

\* A decision has its answer: the approval and the card change together.
LEMMA DecisionEnds ==
    ASSUME ConsoleIInv, NEW r \in calls, r.waiting, ~IsMessage(r),
           NEW d, SameBut(d), d.result = drawer.result, d.session = drawer.session,
           NEW ap \in Approval, ap.source = approvals[r.approval].source, ap.op = approvals[r.approval].op,
           ap.status = approvals[r.approval].status \/ approvals[r.approval].status = "WAITING_CONFIRMATION",
           approvals' = [approvals EXCEPT ![r.approval] = ap],
           Heard(r, UpdateApprovalStatus(d, ap.status)),
           calls' = calls \ {r}, UNCHANGED <<page, loads, issued>>
    PROVE  ConsoleIInv'
<1>t. /\ drawer \in Drawer /\ approvals \in Seq(Approval) /\ ApprovalsKept(approvals)
      /\ DrawerKept(drawer, calls, approvals, page.overview) /\ ap.status \in Statuses
  BY DEF ConsoleIInv, TypeOK, Approval
<1>1. r.approval \in DOMAIN approvals /\ CallKept(r, drawer, approvals, page.overview)
  BY Connecting DEF CallKept
<1>2. /\ approvals' \in Seq(Approval) /\ Grows(approvals, approvals') /\ ApprovalsKept(approvals')
      /\ approvals'[r.approval] = ap
  BY <1>1, <1>t, DecidedGrows
<1>g. PICK g : g = UpdateApprovalStatus(d, ap.status)
  OBVIOUS
<1>3. /\ SameBut(g) /\ g.session = drawer.session
      /\ drawer.result.kind = "APPROVAL" =>
            /\ g.result # NoResult /\ g.result.kind = "APPROVAL" /\ g.result.status = ap.status
            /\ g.result.order = drawer.result.order /\ g.result.approval = drawer.result.approval
  BY <1>g, <1>t, StatusIs
<1>4. ASSUME Current(r) PROVE ResultKept(g, calls \ {r}, approvals', page.overview)
  <2>1. drawer.result.kind = "APPROVAL" /\ drawer.result.approval = r.approval
    BY <1>1, <1>4 DEF Current, CallKept, Counts
  <2>2. ResultKept(drawer, calls, approvals, page.overview)
    BY <1>t DEF DrawerKept
  <2>3. g.result.order = page.overview /\ g.session \in {NoSession, page.overview}
    BY <2>1, <2>2, <1>3, <1>t, ResultIs DEF ResultKept, Drawer
  <2>4. r.approval \in DOMAIN approvals'
    BY <1>1, <1>2 DEF Grows
  <2>5. ASSUME NEW q \in calls \ {r}, q.waiting, ~IsMessage(q)
        PROVE  /\ q.approval = r.approval => Counts(q, g)
               /\ approvals'[q.approval].source # r.approval
    <3>1. q.approval \in DOMAIN approvals
      BY <2>5, Connecting DEF CallKept
    <3>2. /\ q.approval = r.approval => Counts(q, drawer)
          /\ approvals[q.approval].source # r.approval
      BY <2>1, <2>2, <2>5 DEF ResultKept
    <3> QED BY <3>1, <3>2, <1>2, <1>3 DEF Grows, Counts, SameBut
  <2> QED BY <2>1, <2>3, <2>4, <2>5, <1>2, <1>3 DEF ResultKept
<1> QED BY <1>2, <1>3, <1>4, <1>g, <1>t, CallEnded

LEMMA ApprovalOf ==
    ASSUME ConsoleIInv, NEW a \in DOMAIN approvals
    PROVE  /\ approvals[a] \in Approval /\ approvals \in Seq(Approval) /\ ApprovalsKept(approvals)
           /\ a # 0
BY DEF ConsoleIInv, TypeOK

\* A confirmation has its answer.
LEMMA ConfirmIs ==
    ASSUME NEW old \in Approval, NEW conclusion \in Conclusions \cup {"none"}, NEW ap \in Confirmed(old, conclusion)
    PROVE  /\ ap \in Approval /\ ap.source = old.source /\ ap.op = old.op
           /\ ap.status = old.status \/ old.status = "WAITING_CONFIRMATION"
<1>1. CASE ap = old
  BY <1>1
<1>2. CASE ap = [old EXCEPT !.status = "SUCCEEDED", !.written = conclusion] /\ old.status = "WAITING_CONFIRMATION"
  BY <1>2 DEF Approval, Statuses
<1>3. CASE ap = [old EXCEPT !.status = "FAILED"] /\ old.status = "WAITING_CONFIRMATION"
  BY <1>3 DEF Approval, Statuses
<1> QED BY <1>1, <1>2, <1>3 DEF Confirmed

LEMMA ConfirmEnds == ASSUME ConsoleIInv, NEW r \in calls, ConfirmAnswered(r) PROVE ConsoleIInv'
<1>t. /\ r \in AgentCall /\ drawer \in Drawer /\ r.waiting /\ ~IsMessage(r)
      /\ CallKept(r, drawer, approvals, page.overview)
  BY Connecting DEF ConsoleIInv, TypeOK, ConfirmAnswered, Awaited, IsMessage
<1>1. r.approval \in DOMAIN approvals /\ approvals[r.approval] \in Approval /\ r.conclusion \in Conclusions \cup {"none"}
  BY <1>t, ApprovalOf DEF CallKept, AgentCall
<1>2. PICK ap \in Confirmed(approvals[r.approval], r.conclusion) : ConfirmHeard(r, ap)
  BY DEF ConfirmAnswered
<1>3. /\ ap \in Approval /\ ap.source = approvals[r.approval].source /\ ap.op = approvals[r.approval].op
      /\ ap.status = approvals[r.approval].status \/ approvals[r.approval].status = "WAITING_CONFIRMATION"
  BY <1>1, <1>2, ConfirmIs
<1>4. PICK retryable \in BOOLEAN :
        Heard(r, UpdateApprovalStatus(IF ap.status = "SUCCEEDED" /\ ap.written = r.conclusion
                                      THEN drawer ELSE FailedWith(r, retryable), ap.status))
  BY <1>2 DEF ConfirmHeard
<1>5. PICK d : d = IF ap.status = "SUCCEEDED" /\ ap.written = r.conclusion
                   THEN drawer ELSE FailedWith(r, retryable)
  OBVIOUS
<1>6. SameBut(d) /\ d.result = drawer.result /\ d.session = drawer.session
  BY <1>5, <1>t, FailedIs DEF SameBut
<1>7. approvals' = [approvals EXCEPT ![r.approval] = ap] /\ calls' = calls \ {r} /\ UNCHANGED <<page, loads, issued>>
  BY <1>2 DEF ConfirmHeard, ConfirmAnswered
<1> QED BY <1>3, <1>4, <1>5, <1>6, <1>7, <1>t, DecisionEnds

\* A cancellation has its answer.
LEMMA CancelledIs ==
    ASSUME NEW old \in Approval
    PROVE  LET ap == Cancelled(old) IN
           /\ ap \in Approval /\ ap.source = old.source /\ ap.op = old.op
           /\ ap.status = old.status \/ old.status = "WAITING_CONFIRMATION"
           /\ old.status \in {"WAITING_CONFIRMATION", "CANCELLED"} => ap.status = "CANCELLED"
<1>1. PICK status \in Statuses : status = IF old.status = "WAITING_CONFIRMATION" THEN "CANCELLED" ELSE old.status
  BY DEF Approval, Statuses
<1>2. Cancelled(old) = [old EXCEPT !.status = status]
  BY <1>1 DEF Cancelled
<1> QED BY <1>1, <1>2 DEF Approval

LEMMA CancelEnds == ASSUME ConsoleIInv, NEW r \in calls, CancelAnswered(r) PROVE ConsoleIInv'
<1>t. /\ drawer \in Drawer /\ r.waiting /\ ~IsMessage(r) /\ CallKept(r, drawer, approvals, page.overview)
  BY Connecting DEF ConsoleIInv, TypeOK, CancelAnswered, Awaited, IsMessage
<1>1. r.approval \in DOMAIN approvals /\ approvals[r.approval] \in Approval
  BY <1>t, ApprovalOf DEF CallKept
<1>2. PICK ap : ap = Cancelled(approvals[r.approval])
  OBVIOUS
<1>3. /\ ap \in Approval /\ ap.source = approvals[r.approval].source /\ ap.op = approvals[r.approval].op
      /\ ap.status = approvals[r.approval].status \/ approvals[r.approval].status = "WAITING_CONFIRMATION"
      /\ ap.status = "CANCELLED"
  BY <1>1, <1>2, CancelledIs DEF CancelAnswered
<1>4. /\ approvals' = [approvals EXCEPT ![r.approval] = ap] /\ calls' = calls \ {r} /\ UNCHANGED <<page, loads, issued>>
      /\ Heard(r, UpdateApprovalStatus(drawer, ap.status))
  BY <1>2, <1>3 DEF CancelAnswered
<1>5. SameBut(drawer)
  BY <1>t DEF SameBut
<1> QED BY <1>3, <1>4, <1>5, <1>t, DecisionEnds

\* The service answers a request for a rework: with the one there is, or a new one.
LEMMA ReworkIs ==
    ASSUME ConsoleIInv, NEW a \in DOMAIN approvals, Reworked(a)
    PROVE  /\ approvals' \in Seq(Approval) /\ Grows(approvals, approvals') /\ ApprovalsKept(approvals')
           /\ \A b \in ExistingRework(a)' : b \in DOMAIN approvals' /\ approvals'[b].source = a
<1>t. approvals \in Seq(Approval) /\ ApprovalsKept(approvals)
  BY DEF ConsoleIInv, TypeOK
<1>1. \A b \in ExistingRework(a)' : b \in DOMAIN approvals' /\ approvals'[b].source = a
  BY DEF ExistingRework
<1>2. CASE UNCHANGED approvals
  BY <1>1, <1>2, <1>t, GrowsItself
<1>3. CASE Propose("rework", a)
  <2>1. PICK ap : ap = [status |-> "WAITING_CONFIRMATION", op |-> "rework", source |-> a, written |-> "none"]
    OBVIOUS
  <2>2. a \in Nat
    BY <1>t
  <2>3. ap \in Approval /\ ap.op = "rework" /\ ap.source = a /\ approvals' = Append(approvals, ap)
    BY <2>1, <2>2, <1>3 DEF Propose, Approval, Statuses
  <2>4. approvals[a].op = "review"
    BY DEF Reworked, MayRework
  <2> QED BY <2>3, <2>4, <1>1, <1>t, ProposedGrows
<1> QED BY <1>2, <1>3 DEF Reworked

\* Nobody waits for a decision on a rework of the approval shown, nor of that.
LEMMA NoneOnRework ==
    ASSUME ConsoleIInv, NEW a \in DOMAIN approvals, drawer.result.kind = "APPROVAL", drawer.result.approval = a,
           NEW bps \in Seq(Approval), Grows(approvals, bps), ApprovalsKept(bps),
           NEW b \in DOMAIN bps, bps[b].source = a,
           NEW q \in calls, q.waiting, ~IsMessage(q)
    PROVE  q.approval # b /\ bps[q.approval].source # b
<1>t. /\ q.approval \in DOMAIN approvals /\ a # 0 /\ b # 0
      /\ ResultKept(drawer, calls, approvals, page.overview)
  BY Connecting, ApprovalOf DEF CallKept, ConsoleIInv, DrawerKept
<1>r. approvals[q.approval].source # a
  BY <1>t DEF ResultKept
<1>1. q.approval # b
  <2>1. CASE b \in DOMAIN approvals
    <3>1. approvals[b].source = a
      BY <2>1 DEF Grows
    <3> QED BY <3>1, <1>r
  <2>2. CASE b \notin DOMAIN approvals
    BY <2>2, <1>t, NewShown
  <2> QED BY <2>1, <2>2
<1>2. q.approval \in DOMAIN bps
  BY <1>t DEF Grows
<1>k. \A k \in DOMAIN bps : bps[k] \in Approval
  OBVIOUS
<1>3. bps[b].op = "rework"
  <2>1. bps[b].op \in {"review", "rework"}
    BY <1>k DEF Approval
  <2> QED BY <2>1, <1>t DEF ApprovalsKept
<1>4. bps[q.approval].op \in {"review", "rework"}
  BY <1>2, <1>k DEF Approval
<1> QED BY <1>1, <1>2, <1>3, <1>4, <1>t DEF ApprovalsKept

LEMMA ReworkEnds == ASSUME ConsoleIInv, NEW r \in calls, ReworkAnswered(r) PROVE ConsoleIInv'
<1>t. /\ r \in AgentCall /\ drawer \in Drawer /\ r.waiting /\ ~IsMessage(r)
      /\ CallKept(r, drawer, approvals, page.overview) /\ ResultKept(drawer, calls, approvals, page.overview)
  BY Connecting DEF ConsoleIInv, TypeOK, DrawerKept, ReworkAnswered, Awaited, IsMessage
<1>u. UNCHANGED <<page, loads, issued>> /\ calls' = calls \ {r}
  BY DEF ReworkAnswered
<1>a. PICK a : a = r.approval
  OBVIOUS
<1>1. a \in DOMAIN approvals /\ Reworked(a)
  BY <1>a, <1>t DEF CallKept, ReworkAnswered
<1>2. /\ approvals' \in Seq(Approval) /\ Grows(approvals, approvals') /\ ApprovalsKept(approvals')
      /\ \A b \in ExistingRework(a)' : b \in DOMAIN approvals' /\ approvals'[b].source = a
  BY <1>1, ReworkIs
<1>3. PICK b \in ExistingRework(a)' :
        Heard(r, [drawer EXCEPT !.result = [Proposed(b, r.order, "rework", "REWORK_REQUIRED")
                                                EXCEPT !.status = approvals'[b].status]])
  BY <1>a DEF ReworkAnswered
<1>b. b \in DOMAIN approvals' /\ approvals'[b].source = a /\ b \in Nat /\ approvals'[b].status \in Statuses
  <2>1. b \in DOMAIN approvals' /\ approvals'[b].source = a
    BY <1>2, <1>3
  <2>2. b \in Nat /\ approvals'[b] \in Approval
    BY <2>1, <1>2
  <2> QED BY <2>1, <2>2 DEF Approval
<1>x. PICK result : result = [Proposed(b, r.order, "rework", "REWORK_REQUIRED") EXCEPT !.status = approvals'[b].status]
  OBVIOUS
<1>4. result = [kind |-> "APPROVAL", order |-> r.order, approval |-> b, op |-> "rework",
                status |-> approvals'[b].status, conclusion |-> "REWORK_REQUIRED"]
  BY <1>x DEF Proposed
<1>5. result \in Result
  BY <1>4, <1>b, <1>t DEF Result, AgentCall, Conclusions
<1>g. PICK g : g = [drawer EXCEPT !.session = drawer.session, !.result = result]
  OBVIOUS
<1>6. SameBut(g) /\ g.result = result /\ g.session = drawer.session
  BY <1>5, <1>g, <1>t, AnswerIs DEF Drawer
<1>7. g = [drawer EXCEPT !.result = result]
  BY <1>g, <1>t DEF Drawer
<1>8. Heard(r, g)
  BY <1>3, <1>7, <1>x
<1>9. ASSUME Current(r) PROVE ResultKept(g, calls \ {r}, approvals', page.overview)
  <2>1. drawer.result.kind = "APPROVAL" /\ drawer.result.approval = a
    BY <1>9, <1>a, <1>t DEF Current, CallKept, Counts
  <2>2. \A q \in calls \ {r} : q.waiting /\ ~IsMessage(q) => q.approval # b /\ approvals'[q.approval].source # b
    BY <2>1, <1>1, <1>2, <1>b, NoneOnRework
  <2>3. g.session \in {NoSession, page.overview} /\ r.order = page.overview
    BY <1>6, <1>9, <1>t DEF ResultKept, Current
  <2> QED BY <2>2, <2>3, <1>4, <1>6, <1>b DEF ResultKept
<1> QED BY <1>2, <1>6, <1>8, <1>9, <1>t, <1>u, CallEnded

\* The service acts on a decision the console has given up.
LEMMA LateEffects == ASSUME ConsoleIInv, NEW r \in calls, LateEffect(r) PROVE ConsoleIInv'
<1>t. /\ TypeOK /\ r \in AgentCall /\ ~r.waiting /\ CallKept(r, drawer, approvals, page.overview)
      /\ approvals \in Seq(Approval) /\ ApprovalsKept(approvals)
      /\ DrawerKept(drawer, calls, approvals, page.overview)
  BY Connecting DEF ConsoleIInv, TypeOK, LateEffect
<1>u. UNCHANGED <<page, loads, drawer, card, issued>> /\ calls' = calls \ {r}
  BY DEF LateEffect
<1>1. \/ \E ap \in Confirmed(approvals[r.approval], r.conclusion) : approvals' = [approvals EXCEPT ![r.approval] = ap]
      \/ approvals' = [approvals EXCEPT ![r.approval] = Cancelled(@)]
      \/ Reworked(r.approval)
      \/ UNCHANGED approvals
  BY DEF LateEffect
<1>2. r.approval \in DOMAIN approvals /\ approvals[r.approval] \in Approval /\ r.conclusion \in Conclusions \cup {"none"}
  <2>1. r.kind \in {"confirm", "cancel", "rework"}
    BY DEF LateEffect
  <2>2. r.approval \in DOMAIN approvals
    BY <2>1, <1>t DEF CallKept, IsMessage
  <2> QED BY <2>2, <1>t DEF AgentCall
<1>3. approvals' \in Seq(Approval) /\ Grows(approvals, approvals') /\ ApprovalsKept(approvals')
  <2>1. ASSUME NEW ap \in Confirmed(approvals[r.approval], r.conclusion),
               approvals' = [approvals EXCEPT ![r.approval] = ap]
        PROVE  approvals' \in Seq(Approval) /\ Grows(approvals, approvals') /\ ApprovalsKept(approvals')
    <3>1. /\ ap \in Approval /\ ap.source = approvals[r.approval].source /\ ap.op = approvals[r.approval].op
          /\ ap.status = approvals[r.approval].status \/ approvals[r.approval].status = "WAITING_CONFIRMATION"
      BY <1>2, ConfirmIs
    <3> QED BY <3>1, <2>1, <1>2, <1>t, DecidedGrows
  <2>2. CASE approvals' = [approvals EXCEPT ![r.approval] = Cancelled(@)]
    <3>1. PICK ap : ap = Cancelled(approvals[r.approval])
      OBVIOUS
    <3>2. /\ ap \in Approval /\ ap.source = approvals[r.approval].source /\ ap.op = approvals[r.approval].op
          /\ ap.status = approvals[r.approval].status \/ approvals[r.approval].status = "WAITING_CONFIRMATION"
      BY <3>1, <1>2, CancelledIs
    <3>3. approvals' = [approvals EXCEPT ![r.approval] = ap]
      BY <3>1, <2>2
    <3> QED BY <3>2, <3>3, <1>2, <1>t, DecidedGrows
  <2>3. CASE Reworked(r.approval)
    BY <2>3, <1>2, ReworkIs
  <2>4. CASE UNCHANGED approvals
    BY <2>4, <1>t, GrowsItself
  <2> QED BY <1>1, <2>1, <2>2, <2>3, <2>4
<1>4. DrawerKept(drawer, calls \ {r}, approvals', page.overview)
  BY <1>3, <1>t, Unnoticed
<1>5. TypeOK'
  BY <1>3, <1>t, <1>u DEF TypeOK
<1> QED BY <1>3, <1>4, <1>5, <1>u, Kept DEF ConsoleIInv

-----------------------------------------------------------------------------
(* The invariant *)

LEMMA InitKept == Init => ConsoleIInv
<1> SUFFICES ASSUME Init PROVE ConsoleIInv
  OBVIOUS
<1>1. page \in Page
  BY ConsoleAssumption DEF Init, Page, Shows
<1>2. drawer \in Drawer /\ drawer = FreshDrawer(0)
  BY FreshIs DEF Init
<1>3. card \in Card
  BY DEF Init, NoCard, Card
<1>4. TypeOK
  BY <1>1, <1>2, <1>3 DEF Init, TypeOK
<1>5. LoadsKept(page, loads, drawer)
  BY DEF Init, LoadsKept, FreshDrawer
<1>6. ApprovalsKept(approvals)
  BY DEF Init, ApprovalsKept
<1>7. DrawerKept(drawer, calls, approvals, page.overview)
  BY DEF Init, DrawerKept, FlagsKept, ResultKept, OneDecision, FreshDrawer, NoResult
<1>8. ~Shown(drawer)
  BY DEF Init, Shown, FreshDrawer
<1> QED BY <1>4, <1>5, <1>6, <1>7, <1>8 DEF ConsoleIInv

LEMMA StepKept == ASSUME ConsoleIInv, [Next]_vars PROVE ConsoleIInv'
<1>1. CASE User
  <2>1. CASE (\E o \in Orders : SelectOrder(o)) \/ Retry
    BY <2>1, PageSteps
  <2>2. CASE OpenDrawer \/ CloseDrawer \/ ReturnToBusinessView \/ CancelOrderSwitch
    BY <2>2, DrawerSteps
  <2>3. CASE LeaveBusinessView
    BY <2>3, Leaves
  <2>4. CASE SubmitAgent \/ SubmitFixedDiagnosis \/ SubmitClarification \/ RetryLastRequest
    BY <2>4, SubmitSteps
  <2>5. CASE ConfirmOrderSwitch
    BY <2>5, Switches
  <2>6. CASE (\E c \in Conclusions, comment \in BOOLEAN : EditDraft(c, comment)) \/ OpenConfirmation \/ CloseConfirmation
    BY <2>6, CardSteps
  <2>7. CASE ConfirmDecision
    BY <2>7, Confirms
  <2>8. CASE CancelApproval \/ RequestRework
    BY <2>8, SendSteps
  <2> QED BY <1>1, <2>1, <2>2, <2>3, <2>4, <2>5, <2>6, <2>7, <2>8 DEF User
<1>2. CASE LoadEnds
  BY <1>2, PageSteps, SwitchLoads, SwitchFails, PageLoads DEF LoadEnds
<1>3. CASE CallEnds
  <2>1. PICK r \in calls :
        \/ StreamReady(r) \/ MessageAnswered(r) \/ ConfirmAnswered(r) \/ CancelAnswered(r) \/ LateEffect(r)
        \/ \E retryable \in BOOLEAN : StreamFails(r, retryable) \/ RequestFails(r, retryable) \/ GiveUp(r, retryable)
        \/ \E c \in Conclusions : ReviewProposed(r, c)
        \/ ReworkAnswered(r)
    BY <1>3 DEF CallEnds
  <2> QED BY <2>1, StreamOpens, MessageEnds, ConfirmEnds, CancelEnds, LateEffects, CallFails, GivesUp,
             ReviewEnds, ReworkEnds
<1>4. CASE UNCHANGED vars
  BY <1>4 DEF vars, ConsoleIInv, TypeOK, LoadsKept, ApprovalsKept, DrawerKept, CallKept, FlagsKept, ResultKept,
              OneDecision, Counts, Shown
<1> QED BY <1>1, <1>2, <1>3, <1>4 DEF Next

\* The state of the console stays the one its counters, tables and requests
\* call for.
THEOREM ConsoleInvariant == Spec => []ConsoleIInv
<1>1. Init => ConsoleIInv
  BY InitKept
<1>2. ConsoleIInv /\ [Next]_vars => ConsoleIInv'
  BY StepKept
<1> QED BY <1>1, <1>2, PTL DEF Spec

\* Every variable keeps its type.
THEOREM ConsoleTypes == Spec => []TypeOK
<1>1. ConsoleIInv => TypeOK
  BY DEF ConsoleIInv
<1> QED BY <1>1, ConsoleInvariant, PTL

\* Result, session and session of a request belong to the order on the page,
\* however late and in whatever order the answers come.
THEOREM ConsoleIsolated == Spec => []OrderIsolation
<1>1. ConsoleIInv => OrderIsolation
  BY DEF ConsoleIInv, DrawerKept, ResultKept, CallKept, OrderIsolation
<1> QED BY <1>1, ConsoleInvariant, PTL

\* A flag is up exactly while a request that still counts is under way.
THEOREM ConsoleSpinner == Spec => []SpinnerHonest
<1>1. ConsoleIInv => SpinnerHonest
  BY DEF ConsoleIInv, LoadsKept, DrawerKept, FlagsKept, Counts, SpinnerHonest
<1> QED BY <1>1, ConsoleInvariant, PTL

\* What the card says of an approval is what the service did, and no approval
\* has two decisions waiting.
THEOREM ConsoleDecisions == Spec => []DecisionIsHonest
<1>1. ConsoleIInv => DecisionIsHonest
  BY DEF ConsoleIInv, DrawerKept, ResultKept, OneDecision, DecisionIsHonest
<1> QED BY <1>1, ConsoleInvariant, PTL
=============================================================================
