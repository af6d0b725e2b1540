-------------------------- MODULE AgentTurnProofs --------------------------
(* Theorems about AgentTurn, for any turns, sessions, skills, faults and bounds *)
(* on a skill's Steps.                                                          *)
EXTENDS AgentTurn, SequenceTheorems, FiniteSetTheorems, TLAPS

StepStates == {"RUNNING", "ENDED"}

-----------------------------------------------------------------------------
(* The stack of open Steps and the Steps of the Run                           *)

LEMMA SeqFacts ==
    ASSUME NEW S, NEW s \in Seq(S)
    PROVE  \E l \in Nat : Len(s) = l /\ DOMAIN s = 1..l /\ s \in [1..l -> S] /\ (s = <<>> <=> l = 0)
BY EmptySeq

\* The function p continues o, or differs from it in one place.
Agree(p, o, k) == \A i \in 1..k : p[i] = o[i]
AgreeBut(e, s, l, n) == e[n] = "ENDED" /\ \A m \in 1..l : m # n => e[m] = s[m]

LEMMA AppendFacts ==
    ASSUME NEW S, NEW s \in Seq(S), NEW x \in S, NEW l, Len(s) = l, NEW q, Append(s, x) = q
    PROVE  /\ q \in Seq(S) /\ q # <<>> /\ q \in [1..l + 1 -> S]
           /\ Len(q) = l + 1 /\ q[l + 1] = x /\ Agree(q, s, l)
<1>1. /\ q \in Seq(S) /\ q # <<>> /\ Len(q) = Len(s) + 1
      /\ (\A i \in 1.. Len(s) : q[i] = s[i]) /\ q[Len(s) + 1] = x
  BY AppendProperties
<1>2. q \in [1..l + 1 -> S]
  BY <1>1, SeqFacts
<1>3. Agree(q, s, l)
  BY <1>1 DEF Agree
<1> QED
  BY <1>1, <1>2, <1>3

LEMMA AppendNumber ==
    ASSUME NEW o \in Seq(Nat), NEW n \in Nat, NEW k \in Nat, Len(o) = k, NEW p, p = Append(o, n)
    PROVE  /\ p \in Seq(Nat) /\ p # <<>> /\ p \in [1..k + 1 -> Nat]
           /\ Len(p) = k + 1 /\ p[k + 1] = n /\ Agree(p, o, k)
<1>1. p \in Seq(Nat) /\ p # <<>> /\ Len(p) = k + 1
  OBVIOUS
<1>2. p[k + 1] = n
  OBVIOUS
<1>3. \A i \in 1..k : p[i] = o[i]
  OBVIOUS
<1>4. p \in [1..k + 1 -> Nat]
  BY <1>1, SeqFacts
<1> QED
  BY <1>1, <1>2, <1>3, <1>4 DEF Agree

LEMMA EndedFacts ==
    ASSUME NEW s \in Seq(StepStates), NEW l, Len(s) = l, NEW n \in 1..l, NEW e, e = [s EXCEPT ![n] = "ENDED"]
    PROVE  e \in Seq(StepStates) /\ e \in [1..l -> StepStates] /\ Len(e) = l /\ AgreeBut(e, s, l, n)
<1>1. "ENDED" \in StepStates
  BY DEF StepStates
<1>2. /\ e \in Seq(StepStates) /\ Len(e) = l
      /\ \A i \in 1..l : e[i] = IF i = n THEN "ENDED" ELSE s[i]
  BY <1>1, ExceptSeq
<1>3. e \in [1..l -> StepStates]
  BY <1>2, SeqFacts
<1>4. AgreeBut(e, s, l, n)
  BY <1>2 DEF AgreeBut
<1> QED
  BY <1>2, <1>3, <1>4

Popped(o) == SubSeq(o, 1, Len(o) - 1)

LEMMA PoppedFacts ==
    ASSUME NEW o \in Seq(Nat), o # <<>>
    PROVE  \E k \in Nat : /\ Len(o) = k + 1 /\ o \in [1..k + 1 -> Nat]
                          /\ Popped(o) \in Seq(Nat) /\ Len(Popped(o)) = k /\ Popped(o) \in [1..k -> Nat]
                          /\ Agree(Popped(o), o, k)
<1>1. PICK l \in Nat : Len(o) = l /\ o \in [1..l -> Nat] /\ l # 0
  BY SeqFacts
<1>0. l - 1 \in Nat /\ l = (l - 1) + 1
  BY <1>1
<1>2. PICK k \in Nat : l = k + 1
  BY <1>0
<1>3. \A i \in 1..k : o[i] \in Nat
  BY <1>1, <1>2
<1>4. Popped(o) = SubSeq(o, 1, k)
  BY <1>1, <1>2 DEF Popped
<1>5. /\ SubSeq(o, 1, k) \in Seq(Nat) /\ Len(SubSeq(o, 1, k)) = (IF 1 <= k THEN k - 1 + 1 ELSE 0)
      /\ \A i \in 1..k - 1 + 1 : SubSeq(o, 1, k)[i] = o[1 + i - 1]
  BY <1>3, SubSeqProperties
<1>6. PICK p \in Seq(Nat) : /\ p = Popped(o) /\ Len(p) = (IF 1 <= k THEN k - 1 + 1 ELSE 0)
                            /\ \A i \in 1..k - 1 + 1 : p[i] = o[1 + i - 1]
  BY <1>4, <1>5
<1>7. Len(p) = k
  BY <1>6
<1>8. p \in [1..k -> Nat]
  BY <1>7, SeqFacts
<1>9. \A i \in 1..k : i \in 1..k - 1 + 1 /\ 1 + i - 1 = i
  OBVIOUS
<1>10. Agree(p, o, k)
  BY <1>6, <1>9 DEF Agree
<1> QED
  BY <1>1, <1>2, <1>6, <1>7, <1>8, <1>10

\* A Step is started with the next number and pushed.
LEMMA Pushed ==
    ASSUME NEW s \in Seq(StepStates), NEW o \in Seq(Nat), NEW orphaned \in BOOLEAN,
           Stacked(o, s), Accounted(o, s, FALSE, orphaned)
    PROVE  /\ Stacked(Append(o, Len(s) + 1), Append(s, "RUNNING"))
           /\ Accounted(Append(o, Len(s) + 1), Append(s, "RUNNING"), FALSE, orphaned)
<1>1. PICK k \in Nat : Len(o) = k /\ o \in [1..k -> Nat]
  BY SeqFacts
<1>2. PICK l \in Nat : Len(s) = l /\ s \in [1..l -> StepStates]
  BY SeqFacts
<1>3. PICK n \in Nat : n = l + 1
  OBVIOUS
<1>4. PICK p : Append(o, n) = p
  OBVIOUS
<1>5. p \in [1..k + 1 -> Nat] /\ p[k + 1] = n /\ Agree(p, o, k)
  BY <1>1, <1>4, AppendNumber
<1>6. "RUNNING" \in StepStates
  BY DEF StepStates
<1>7. PICK q : Append(s, "RUNNING") = q
  OBVIOUS
<1>8. q \in [1..l + 1 -> StepStates] /\ q[l + 1] = "RUNNING" /\ Agree(q, s, l)
  BY <1>2, <1>6, <1>7, AppendFacts, SMTT(60)
<1>9. Stacked(p, q) /\ Accounted(p, q, FALSE, orphaned)
  <2> USE <1>1, <1>2, <1>3, <1>5, <1>8
  <2>0. (\A i \in 1..k : p[i] = o[i]) /\ \A m \in 1..l : q[m] = s[m]
    BY DEF Agree
  <2>1. \A i \in 1..k : o[i] \in 1..l /\ s[o[i]] = "RUNNING"
    BY DEF Stacked
  <2>2. \A i, j \in 1..k : i < j => o[i] < o[j]
    BY DEF Stacked
  <2>3. \A i \in 1..k + 1 : p[i] \in 1..l + 1 /\ q[p[i]] = "RUNNING"
    <3> TAKE i \in 1..k + 1
    <3>1. CASE i \in 1..k
      BY <3>1, <2>0, <2>1
    <3>2. CASE i = k + 1
      BY <3>2
    <3> QED
      BY <3>1, <3>2
  <2>4. \A i, j \in 1..k + 1 : i < j => p[i] < p[j]
    <3> SUFFICES ASSUME NEW i \in 1..k + 1, NEW j \in 1..k + 1, i < j
                 PROVE  p[i] < p[j]
      OBVIOUS
    <3>1. i \in 1..k /\ p[i] = o[i] /\ o[i] \in 1..l
      BY <2>0, <2>1
    <3>2. CASE j = k + 1
      BY <3>1, <3>2
    <3>3. CASE j \in 1..k
      BY <3>1, <3>3, <2>0, <2>2
    <3> QED
      BY <3>2, <3>3
  <2>5. Stacked(p, q)
    BY <2>3, <2>4 DEF Stacked
  <2>6. Accounted(p, q, FALSE, orphaned)
    <3> SUFFICES ASSUME NEW m \in 1..l + 1, q[m] = "RUNNING", ~orphaned
                 PROVE  \E i \in 1..k + 1 : p[i] = m
      BY DEF Accounted
    <3>1. CASE m = l + 1
      BY <3>1
    <3>2. CASE m # l + 1
      <4>1. m \in 1..l /\ s[m] = "RUNNING"
        BY <3>2, <2>0
      <4>2. PICK i \in 1..k : o[i] = m
        BY <4>1 DEF Accounted
      <4>3. i \in 1..k + 1 /\ p[i] = m
        BY <4>2, <2>0
      <4> QED
        BY <4>3
    <3> QED
      BY <3>1, <3>2
  <2> QED
    BY <2>5, <2>6
<1> QED
  BY <1>2, <1>3, <1>4, <1>7, <1>9

\* A Step is started, but what would end it is not on the stack.
LEMMA Unended ==
    ASSUME NEW s \in Seq(StepStates), NEW o \in Seq(Nat), NEW state \in StepStates, Stacked(o, s)
    PROVE  /\ Stacked(o, Append(s, state)) /\ \A waits : Accounted(o, Append(s, state), waits, TRUE)
           /\ \A i \in DOMAIN o : o[i] < Len(Append(s, state))
<1>1. PICK k \in Nat : Len(o) = k /\ o \in [1..k -> Nat]
  BY SeqFacts
<1>2. PICK l \in Nat : Len(s) = l /\ s \in [1..l -> StepStates]
  BY SeqFacts
<1>0. PICK q : Append(s, state) = q
  OBVIOUS
<1>3. q \in [1..l + 1 -> StepStates] /\ Len(q) = l + 1 /\ Agree(q, s, l)
  BY <1>0, <1>2, AppendFacts, SMTT(60)
<1>4. \A i \in 1..k : o[i] \in 1..l /\ s[o[i]] = "RUNNING"
  BY <1>1, <1>2 DEF Stacked
<1>5. \A i \in 1..k : o[i] \in 1..l + 1 /\ q[o[i]] = "RUNNING" /\ o[i] < l + 1
  BY <1>3, <1>4 DEF Agree
<1>6. Stacked(o, q)
  BY <1>1, <1>3, <1>5 DEF Stacked
<1>7. \A waits : Accounted(o, q, waits, TRUE)
  BY DEF Accounted
<1> QED
  BY <1>0, <1>1, <1>3, <1>5, <1>6, <1>7

\* The Step of the approval comes last, and waits for it.
LEMMA Waiting ==
    ASSUME NEW s \in Seq(StepStates), NEW o, Accounted(o, s, FALSE, FALSE)
    PROVE  Accounted(o, Append(s, "RUNNING"), TRUE, FALSE)
<1>1. PICK l \in Nat : Len(s) = l /\ s \in [1..l -> StepStates]
  BY SeqFacts
<1>2. "RUNNING" \in StepStates
  BY DEF StepStates
<1>0. PICK q : Append(s, "RUNNING") = q
  OBVIOUS
<1>3. q \in [1..l + 1 -> StepStates] /\ Len(q) = l + 1 /\ Agree(q, s, l)
  BY <1>0, <1>1, <1>2, AppendFacts
<1>4. \A n \in 1..l : s[n] = "RUNNING" => \E i \in DOMAIN o : o[i] = n
  BY <1>1 DEF Accounted
<1>5. \A n \in 1..l + 1 : n \in 1..l \/ n = l + 1
  OBVIOUS
<1>6. Accounted(o, q, TRUE, FALSE)
  BY <1>3, <1>4, <1>5 DEF Accounted, Agree
<1> QED
  BY <1>0, <1>6

\* The last Step ends: the one that waited for the approval.
LEMMA LastEnded ==
    ASSUME NEW s \in Seq(StepStates), NEW o \in Seq(Nat), NEW waits \in BOOLEAN, s # <<>>,
           Stacked(o, s), Accounted(o, s, waits, FALSE), \A i \in DOMAIN o : o[i] < Len(s),
           NEW e, e = [s EXCEPT ![Len(s)] = "ENDED"]
    PROVE  /\ e \in Seq(StepStates) /\ Len(e) = Len(s)
           /\ Stacked(o, e) /\ Accounted(o, e, FALSE, FALSE)
<1>1. PICK k \in Nat : Len(o) = k /\ o \in [1..k -> Nat]
  BY SeqFacts
<1>2. PICK l \in Nat : Len(s) = l /\ s \in [1..l -> StepStates] /\ l # 0
  BY SeqFacts
<1>3. l \in 1..l
  BY <1>2
<1>4. /\ e \in Seq(StepStates) /\ e \in [1..l -> StepStates] /\ Len(e) = l
      /\ AgreeBut(e, s, l, l)
  <2>1. e = [s EXCEPT ![l] = "ENDED"]
    BY <1>2
  <2> QED
    BY <2>1, <1>2, <1>3, EndedFacts
<1>5. \A i \in 1..k : o[i] \in 1..l /\ s[o[i]] = "RUNNING"
  BY <1>1, <1>2 DEF Stacked
<1>6. \A i \in 1..k : o[i] # l
  BY <1>1, <1>2
<1>7. \A i \in 1..k : o[i] \in 1..l /\ e[o[i]] = "RUNNING"
  BY <1>4, <1>5, <1>6 DEF AgreeBut
<1>8. Stacked(o, e)
  BY <1>1, <1>4, <1>7 DEF Stacked
<1>9. \A n \in 1..l : n # l /\ s[n] = "RUNNING" => \E i \in 1..k : o[i] = n
  BY <1>1, <1>2 DEF Accounted
<1>10. \A n \in 1..l : e[n] = "RUNNING" => \E i \in 1..k : o[i] = n
  BY <1>4, <1>9 DEF AgreeBut
<1>11. Accounted(o, e, FALSE, FALSE)
  BY <1>1, <1>4, <1>10 DEF Accounted
<1> QED
  BY <1>2, <1>4, <1>8, <1>11

\* The innermost Step ends and is popped.
LEMMA PoppedKeeps ==
    ASSUME NEW s \in Seq(StepStates), NEW o \in Seq(Nat), o # <<>>,
           NEW waits \in BOOLEAN, NEW orphaned \in BOOLEAN,
           Stacked(o, s), Accounted(o, s, waits, orphaned),
           NEW e, e = [s EXCEPT ![o[Len(o)]] = "ENDED"]
    PROVE  Stacked(Popped(o), e) /\ Accounted(Popped(o), e, waits, orphaned)
<1>1. PICK k \in Nat : /\ Len(o) = k + 1 /\ o \in [1..k + 1 -> Nat]
                       /\ Popped(o) \in [1..k -> Nat] /\ Agree(Popped(o), o, k)
  BY PoppedFacts
<1>2. PICK p \in [1..k -> Nat] : p = Popped(o) /\ Agree(p, o, k)
  BY <1>1
<1>3. PICK l \in Nat : Len(s) = l /\ s \in [1..l -> StepStates]
  BY SeqFacts
<1>4. k + 1 \in 1..k + 1
  OBVIOUS
<1>5. PICK n \in Nat : n = o[k + 1]
  BY <1>1, <1>4
<1>6. n \in 1..l
  BY <1>1, <1>3, <1>4, <1>5 DEF Stacked
<1>7. e = [s EXCEPT ![n] = "ENDED"]
  BY <1>1, <1>5
<1>8. e \in Seq(StepStates) /\ e \in [1..l -> StepStates] /\ Len(e) = l /\ AgreeBut(e, s, l, n)
  BY <1>3, <1>6, <1>7, EndedFacts
<1>9. Stacked(p, e) /\ Accounted(p, e, waits, orphaned)
  <2> USE <1>1, <1>2, <1>3, <1>5, <1>8
  <2>0. /\ \A i \in 1..k : p[i] = o[i]
        /\ e[n] = "ENDED" /\ \A m \in 1..l : m # n => e[m] = s[m]
    BY DEF Agree, AgreeBut
  <2>1. \A i \in 1..k + 1 : o[i] \in 1..l /\ s[o[i]] = "RUNNING"
    BY DEF Stacked
  <2>2. \A i, j \in 1..k + 1 : i < j => o[i] < o[j]
    BY DEF Stacked
  <2>3. \A i \in 1..k : i \in 1..k + 1 /\ i < k + 1
    OBVIOUS
  <2>4. \A i \in 1..k : p[i] \in 1..l /\ p[i] # n /\ s[p[i]] = "RUNNING"
    <3> TAKE i \in 1..k
    <3>1. o[i] < o[k + 1] /\ o[i] \in 1..l /\ s[o[i]] = "RUNNING"
      BY <2>1, <2>2, <2>3
    <3> QED
      BY <3>1, <2>0
  <2>5. \A i \in 1..k : p[i] \in 1..l /\ e[p[i]] = "RUNNING"
    BY <2>0, <2>4
  <2>6. \A i, j \in 1..k : i < j => p[i] < p[j]
    <3> SUFFICES ASSUME NEW i \in 1..k, NEW j \in 1..k, i < j
                 PROVE  p[i] < p[j]
      OBVIOUS
    <3>1. o[i] < o[j]
      BY <2>2, <2>3
    <3> QED
      BY <3>1, <2>0
  <2>7. Stacked(p, e)
    BY <2>5, <2>6 DEF Stacked
  <2>8. Accounted(p, e, waits, orphaned)
    <3> SUFFICES ASSUME NEW m \in 1..l, e[m] = "RUNNING",
                        ~(waits /\ m = Len(e)), ~orphaned
                 PROVE  \E i \in 1..k : p[i] = m
      BY DEF Accounted
    <3>1. m # n /\ s[m] = "RUNNING"
      BY <2>0
    <3>2. Len(e) = l /\ Len(s) = l
      OBVIOUS
    <3>3. PICK i \in 1..k + 1 : o[i] = m
      BY <3>1, <3>2 DEF Accounted
    <3>4. i \in 1..k
      BY <3>1, <3>3
    <3>5. p[i] = m
      BY <3>3, <3>4, <2>0
    <3> QED
      BY <3>4, <3>5
  <2> QED
    BY <2>7, <2>8
<1> QED
  BY <1>2, <1>3, <1>8, <1>9

-----------------------------------------------------------------------------
(* What a transaction does to the Steps                                       *)

\* The turn starts its next Step, ends its innermost one, or finds it gone.
Started(t, n) ==
    /\ n = Len(steps[t]) + 1
    /\ steps' = [steps EXCEPT ![t] = Append(@, "RUNNING")]
    /\ open' = [open EXCEPT ![t] = Append(@, n)]

Ended(t) ==
    /\ open' = [open EXCEPT ![t] = Popped(@)]
    /\ steps' = [steps EXCEPT ![t] = [@ EXCEPT ![open[t][Len(open[t])]] = "ENDED"]]

LEMMA SetNew ==
    ASSUME TurnTypeOK, NEW t \in Turns, NEW x \in StepStates, NEW n, n = Len(steps[t]) + 1, SetStep(t, n, x)
    PROVE  steps' = [steps EXCEPT ![t] = Append(@, x)]
<1>1. steps[t] \in Seq(StepStates)
  BY DEF TurnTypeOK, StepStates
<1>2. PICK l \in Nat : Len(steps[t]) = l /\ DOMAIN steps[t] = 1..l
  BY <1>1, SeqFacts
<1>3. [m \in 1..l \cup {l + 1} |-> IF m = l + 1 THEN x ELSE steps[t][m]] = Append(steps[t], x)
  <2>1. 1..l \cup {l + 1} = 1..l + 1
    OBVIOUS
  <2>2. PICK q : Append(steps[t], x) = q
    OBVIOUS
  <2>3. q \in [1..l + 1 -> StepStates] /\ q[l + 1] = x /\ Agree(q, steps[t], l)
    BY <1>1, <1>2, <2>2, AppendFacts
  <2>4. q = [m \in 1..l + 1 |-> IF m = l + 1 THEN x ELSE steps[t][m]]
    BY <2>3 DEF Agree
  <2> QED
    BY <2>1, <2>2, <2>4
<1> QED
  BY <1>2, <1>3 DEF SetStep

LEMMA SetOld ==
    ASSUME TurnTypeOK, NEW t \in Turns, NEW n \in DOMAIN steps[t], SetStep(t, n, "ENDED")
    PROVE  steps' = [steps EXCEPT ![t] = [@ EXCEPT ![n] = "ENDED"]]
<1>1. steps[t] \in Seq(StepStates)
  BY DEF TurnTypeOK, StepStates
<1>2. PICK l \in Nat : Len(steps[t]) = l /\ DOMAIN steps[t] = 1..l /\ steps[t] \in [1..l -> StepStates]
  BY <1>1, SeqFacts
<1>3. [m \in DOMAIN steps[t] \cup {n} |-> IF m = n THEN "ENDED" ELSE steps[t][m]] = [steps[t] EXCEPT ![n] = "ENDED"]
  BY <1>2
<1> QED
  BY <1>3 DEF SetStep

-----------------------------------------------------------------------------
(* One turn moves                                                             *)

Same(u) ==
    /\ run'[u] = run[u] /\ final'[u] = final[u] /\ steps'[u] = steps[u] /\ approval'[u] = approval[u]
    /\ at'[u] = at[u] /\ ask'[u] = ask[u] /\ attempt'[u] = attempt[u] /\ decision'[u] = decision[u]
    /\ next'[u] = next[u] /\ open'[u] = open[u] /\ lost'[u] = lost[u]

LEMMA SameKeeps ==
    ASSUME NEW u \in Turns, Same(u), TurnInv(u)
    PROVE  TurnInv(u)'
<1>1. Placed(u)'
  BY DEF Same, TurnInv, Placed, Reviews
<1>2. RunOfTurn(u)'
  BY DEF Same, TurnInv, RunOfTurn, ResultKind
<1>3. RunOfApproval(u)'
  BY DEF Same, TurnInv, RunOfApproval, Overruled, Reviews
<1>4. StepsOpen(u)'
  BY DEF Same, TurnInv, StepsOpen, Stacked, Accounted, AwaitsApproval, Orphaned
<1>5. Depth(u)'
  BY DEF Same, TurnInv, Depth, Orphaned, Base
<1>6. Numbered(u)'
  BY DEF Same, TurnInv, Numbered, PolicyNumber
<1> QED
  BY <1>1, <1>2, <1>3, <1>4, <1>5, <1>6 DEF TurnInv

\* What a Step started means for the lengths and the types.
LEMMA StartedFacts ==
    ASSUME TurnTypeOK, NEW t \in Turns, NEW n, Started(t, n)
    PROVE  /\ n \in Nat /\ n >= 1
           /\ steps' \in [Turns -> Seq(StepStates)] /\ open' \in [Turns -> Seq(Nat)]
           /\ Len(steps'[t]) = n /\ open'[t] # <<>> /\ Len(open'[t]) = Len(open[t]) + 1
<1>1. /\ steps \in [Turns -> Seq(StepStates)] /\ steps[t] \in Seq(StepStates)
      /\ open \in [Turns -> Seq(Nat)] /\ open[t] \in Seq(Nat)
  BY DEF TurnTypeOK, StepStates
<1>2. PICK l \in Nat : Len(steps[t]) = l
  BY <1>1, SeqFacts
<1>3. PICK k \in Nat : Len(open[t]) = k
  BY <1>1, SeqFacts
<1>4. n = l + 1 /\ n \in Nat
  BY <1>2 DEF Started
<1>5. PICK p : p = Append(open[t], n)
  OBVIOUS
<1>11. PICK o \in Seq(Nat) : o = open[t] /\ Len(o) = k
  BY <1>1, <1>3
<1>12. p = Append(o, n)
  BY <1>5, <1>11
<1>6. p \in Seq(Nat) /\ p # <<>> /\ Len(p) = k + 1
  BY <1>4, <1>11, <1>12, AppendNumber
<1>7. PICK q : Append(steps[t], "RUNNING") = q
  OBVIOUS
<1>8. "RUNNING" \in StepStates
  BY DEF StepStates
<1>13. PICK s \in Seq(StepStates) : s = steps[t] /\ Len(s) = l
  BY <1>1, <1>2
<1>14. Append(s, "RUNNING") = q
  BY <1>7, <1>13
<1>9. q \in Seq(StepStates) /\ Len(q) = l + 1
  BY <1>8, <1>13, <1>14, AppendFacts, SMTT(60)
<1>10. steps' = [steps EXCEPT ![t] = q] /\ open' = [open EXCEPT ![t] = p]
  BY <1>5, <1>7 DEF Started
<1> QED
  BY <1>1, <1>2, <1>3, <1>4, <1>6, <1>9, <1>10

LEMMA EndedTypes ==
    ASSUME TurnTypeOK, NEW t \in Turns, open[t] # <<>>, Stacked(open[t], steps[t]), Ended(t)
    PROVE  /\ steps' \in [Turns -> Seq(StepStates)] /\ open' \in [Turns -> Seq(Nat)]
           /\ Len(steps'[t]) = Len(steps[t]) /\ Len(open[t]) = Len(open'[t]) + 1 /\ Len(open'[t]) \in Nat
<1>1. /\ steps \in [Turns -> Seq(StepStates)] /\ steps[t] \in Seq(StepStates)
      /\ open \in [Turns -> Seq(Nat)] /\ open[t] \in Seq(Nat)
  BY DEF TurnTypeOK, StepStates
<1>2. PICK k \in Nat : /\ Len(open[t]) = k + 1 /\ open[t] \in [1..k + 1 -> Nat]
                       /\ Popped(open[t]) \in Seq(Nat) /\ Len(Popped(open[t])) = k
  BY <1>1, PoppedFacts
<1>3. PICK l \in Nat : Len(steps[t]) = l /\ DOMAIN steps[t] = 1..l
  BY <1>1, SeqFacts
<1>4. PICK n : n = open[t][k + 1]
  OBVIOUS
<1>5. n \in 1..l
  BY <1>2, <1>3, <1>4 DEF Stacked
<1>6. PICK e : e = [steps[t] EXCEPT ![n] = "ENDED"]
  OBVIOUS
<1>7. e \in Seq(StepStates) /\ Len(e) = l
  BY <1>1, <1>3, <1>5, <1>6, EndedFacts, ZenonT(60)
<1>8. steps' = [steps EXCEPT ![t] = e] /\ open' = [open EXCEPT ![t] = Popped(open[t])]
  BY <1>2, <1>4, <1>6 DEF Ended
<1> QED
  BY <1>1, <1>2, <1>3, <1>7, <1>8

-----------------------------------------------------------------------------
(* How StepsOpen passes from one state of a turn to the next                  *)

\* The Steps are left alone.
LEMMA OpenKept ==
    ASSUME NEW t \in Turns, StepsOpen(t), steps'[t] = steps[t], open'[t] = open[t],
           run'[t] # "GONE" => run[t] # "GONE",
           AwaitsApproval(t)' <=> AwaitsApproval(t), Orphaned(t) => Orphaned(t)'
    PROVE  StepsOpen(t)'
BY DEF StepsOpen, Stacked, Accounted

\* The request returns: nothing is on the stack any more.
LEMMA OpenReturned ==
    ASSUME NEW t \in Turns, StepsOpen(t), steps'[t] = steps[t], open'[t] = <<>>,
           run'[t] # "GONE" => run[t] # "GONE" /\ (open[t] = <<>> \/ Orphaned(t)),
           AwaitsApproval(t)' <=> AwaitsApproval(t), Orphaned(t) => Orphaned(t)'
    PROVE  StepsOpen(t)'
<1> SUFFICES ASSUME run'[t] # "GONE"
             PROVE  StepsOpen(t)'
  BY DEF StepsOpen
<1>1. CASE open[t] = <<>>
  BY <1>1, OpenKept
<1>2. CASE Orphaned(t)
  <2>1. /\ Stacked(<<>>, steps[t]) /\ Accounted(<<>>, steps[t], AwaitsApproval(t), TRUE)
        /\ \A i \in DOMAIN <<>> : <<>>[i] < Len(steps[t])
    BY DEF Stacked, Accounted
  <2>2. Orphaned(t)' /\ (AwaitsApproval(t)' => steps[t] # <<>>)
    BY <1>2 DEF StepsOpen
  <2> QED
    BY <2>1, <2>2 DEF StepsOpen, Stacked, Accounted
<1> QED
  BY <1>1, <1>2

LEMMA OpenStarted ==
    ASSUME TurnTypeOK, NEW t \in Turns, NEW n, StepsOpen(t), Started(t, n), run[t] # "GONE",
           ~AwaitsApproval(t), ~AwaitsApproval(t)', Orphaned(t) => Orphaned(t)'
    PROVE  StepsOpen(t)'
<1>1. /\ steps \in [Turns -> Seq(StepStates)] /\ steps[t] \in Seq(StepStates)
      /\ open \in [Turns -> Seq(Nat)] /\ open[t] \in Seq(Nat)
  BY DEF TurnTypeOK, StepStates
<1>2. Orphaned(t) \in BOOLEAN
  BY DEF Orphaned
<1>3. Stacked(open[t], steps[t]) /\ Accounted(open[t], steps[t], FALSE, Orphaned(t))
  BY DEF StepsOpen, Accounted
<1>4. /\ Stacked(Append(open[t], Len(steps[t]) + 1), Append(steps[t], "RUNNING"))
      /\ Accounted(Append(open[t], Len(steps[t]) + 1), Append(steps[t], "RUNNING"), FALSE, Orphaned(t))
  BY <1>1, <1>2, <1>3, Pushed
<1>5. open'[t] = Append(open[t], Len(steps[t]) + 1) /\ steps'[t] = Append(steps[t], "RUNNING")
  BY <1>1 DEF Started
<1>6. Stacked(open'[t], steps'[t]) /\ Accounted(open'[t], steps'[t], FALSE, Orphaned(t))
  BY <1>4, <1>5
<1> QED
  BY <1>6 DEF StepsOpen, Stacked, Accounted

LEMMA OpenEnded ==
    ASSUME TurnTypeOK, NEW t \in Turns, StepsOpen(t), Ended(t), run[t] # "GONE", open[t] # <<>>,
           AwaitsApproval(t)' <=> AwaitsApproval(t), Orphaned(t) => Orphaned(t)'
    PROVE  StepsOpen(t)'
<1>1. /\ steps \in [Turns -> Seq(StepStates)] /\ steps[t] \in Seq(StepStates)
      /\ open \in [Turns -> Seq(Nat)] /\ open[t] \in Seq(Nat)
  BY DEF TurnTypeOK, StepStates
<1>2. Orphaned(t) \in BOOLEAN /\ AwaitsApproval(t) \in BOOLEAN
  BY DEF Orphaned, AwaitsApproval
<1>3. Stacked(open[t], steps[t]) /\ Accounted(open[t], steps[t], AwaitsApproval(t), Orphaned(t))
  BY DEF StepsOpen
<1>4. PICK e : e = [steps[t] EXCEPT ![open[t][Len(open[t])]] = "ENDED"]
  OBVIOUS
<1>5. Stacked(Popped(open[t]), e) /\ Accounted(Popped(open[t]), e, AwaitsApproval(t), Orphaned(t))
  <2>1. PICK s \in Seq(StepStates) : s = steps[t]
    BY <1>1
  <2>2. PICK o \in Seq(Nat) : o = open[t] /\ o # <<>>
    BY <1>1
  <2>3. PICK waits \in BOOLEAN : waits = AwaitsApproval(t)
    BY <1>2
  <2>4. PICK orphaned \in BOOLEAN : orphaned = Orphaned(t)
    BY <1>2
  <2>5. Stacked(o, s) /\ Accounted(o, s, waits, orphaned)
    BY <1>3, <2>1, <2>2, <2>3, <2>4
  <2>6. e = [s EXCEPT ![o[Len(o)]] = "ENDED"]
    BY <1>4, <2>1, <2>2
  <2>8. s \in Seq(StepStates) /\ o \in Seq(Nat) /\ o # <<>> /\ waits \in BOOLEAN /\ orphaned \in BOOLEAN
    BY <2>2
  <2>7. Stacked(Popped(o), e) /\ Accounted(Popped(o), e, waits, orphaned)
    BY ONLY <2>8, <2>5, <2>6, PoppedKeeps
  <2> QED
    BY <2>1, <2>2, <2>3, <2>4, <2>7
<1>6. open'[t] = Popped(open[t]) /\ steps'[t] = e
  BY <1>1, <1>4 DEF Ended
<1>7. Stacked(open'[t], steps'[t]) /\ Accounted(open'[t], steps'[t], AwaitsApproval(t), Orphaned(t))
  BY <1>5, <1>6
<1>8. AwaitsApproval(t) => steps'[t] # <<>> /\ \A i \in DOMAIN open'[t] : open'[t][i] < Len(steps'[t])
  <2> SUFFICES ASSUME AwaitsApproval(t)
               PROVE  steps'[t] # <<>> /\ \A i \in DOMAIN open'[t] : open'[t][i] < Len(steps'[t])
    OBVIOUS
  <2>1. PICK k \in Nat : /\ Len(open[t]) = k + 1 /\ open[t] \in [1..k + 1 -> Nat]
                         /\ Popped(open[t]) \in [1..k -> Nat] /\ Agree(Popped(open[t]), open[t], k)
    BY <1>1, PoppedFacts
  <2>2. steps[t] # <<>> /\ \A i \in DOMAIN open[t] : open[t][i] < Len(steps[t])
    BY DEF StepsOpen
  <2>6. e \in Seq(StepStates) /\ Len(e) = Len(steps[t])
    BY <1>1, <1>3, <1>6, EndedTypes
  <2>3. e # <<>>
    BY <1>1, <2>6, <2>2, SeqFacts
  <2>4. \A i \in 1..k : Popped(open[t])[i] < Len(steps[t])
    BY <2>1, <2>2 DEF Agree
  <2>5. \A i \in DOMAIN Popped(open[t]) : Popped(open[t])[i] < Len(steps[t])
    BY <2>1, <2>4
  <2> QED
    BY <2>6, <1>6, <2>3, <2>5
<1> QED
  BY <1>7, <1>8 DEF StepsOpen, Stacked, Accounted

\* A Step is added that the turn will not end: an orphan, or the approval's.
Added(t) == steps' = [steps EXCEPT ![t] = Append(@, "RUNNING")] /\ open'[t] = open[t]

LEMMA AddedFacts ==
    ASSUME TurnTypeOK, NEW t \in Turns, Added(t)
    PROVE  /\ steps' \in [Turns -> Seq(StepStates)] /\ steps'[t] # <<>> /\ steps'[t] = Append(steps[t], "RUNNING")
           /\ Len(steps[t]) \in Nat /\ Len(steps'[t]) = Len(steps[t]) + 1
<1>1. steps \in [Turns -> Seq(StepStates)] /\ steps[t] \in Seq(StepStates)
  BY DEF TurnTypeOK, StepStates
<1>2. PICK l \in Nat : Len(steps[t]) = l
  BY <1>1, SeqFacts
<1>3. PICK q : Append(steps[t], "RUNNING") = q
  OBVIOUS
<1>4. "RUNNING" \in StepStates
  BY DEF StepStates
<1>5. PICK s \in Seq(StepStates) : s = steps[t] /\ Len(s) = l
  BY <1>1, <1>2
<1>6. Append(s, "RUNNING") = q
  BY <1>3, <1>5
<1>7. q \in Seq(StepStates) /\ q # <<>> /\ Len(q) = l + 1
  BY <1>4, <1>5, <1>6, AppendFacts
<1>8. steps' = [steps EXCEPT ![t] = q]
  BY <1>3 DEF Added
<1> QED
  BY <1>1, <1>2, <1>3, <1>7, <1>8

LEMMA OpenUnended ==
    ASSUME TurnTypeOK, NEW t \in Turns, StepsOpen(t), Added(t), run[t] # "GONE", Orphaned(t)'
    PROVE  StepsOpen(t)'
<1>1. /\ steps[t] \in Seq(StepStates) /\ open[t] \in Seq(Nat)
      /\ steps'[t] = Append(steps[t], "RUNNING") /\ open'[t] = open[t]
  BY AddedFacts DEF TurnTypeOK, StepStates, Added
<1>2. "RUNNING" \in StepStates /\ Stacked(open[t], steps[t])
  BY DEF StepStates, StepsOpen
<1>3. Stacked(open[t], Append(steps[t], "RUNNING"))
  BY <1>1, <1>2, Unended
<1>4. Stacked(open'[t], steps'[t]) /\ ~AwaitsApproval(t)'
  BY <1>1, <1>3 DEF Orphaned, AwaitsApproval
<1> QED
  BY <1>4 DEF StepsOpen, Stacked, Accounted

LEMMA OpenWaiting ==
    ASSUME TurnTypeOK, NEW t \in Turns, StepsOpen(t), Added(t), run[t] # "GONE",
           ~AwaitsApproval(t), ~Orphaned(t), AwaitsApproval(t)'
    PROVE  StepsOpen(t)'
<1>1. /\ steps[t] \in Seq(StepStates) /\ open[t] \in Seq(Nat) /\ steps'[t] # <<>>
      /\ steps'[t] = Append(steps[t], "RUNNING") /\ open'[t] = open[t]
  BY AddedFacts DEF TurnTypeOK, StepStates, Added
<1>2. "RUNNING" \in StepStates /\ Stacked(open[t], steps[t]) /\ Accounted(open[t], steps[t], FALSE, FALSE)
  BY DEF StepStates, StepsOpen, Accounted
<1>3. /\ Stacked(open[t], Append(steps[t], "RUNNING"))
      /\ \A i \in DOMAIN open[t] : open[t][i] < Len(Append(steps[t], "RUNNING"))
  BY <1>1, <1>2, Unended
<1>4. Accounted(open[t], Append(steps[t], "RUNNING"), TRUE, FALSE)
  BY <1>1, <1>2, Waiting
<1>5. /\ Stacked(open'[t], steps'[t]) /\ Accounted(open'[t], steps'[t], TRUE, FALSE)
      /\ \A i \in DOMAIN open'[t] : open'[t][i] < Len(steps'[t])
  BY <1>1, <1>3, <1>4
<1> QED
  BY <1>1, <1>5 DEF StepsOpen, Stacked, Accounted

\* The Step that waited for the approval ends.
LEMMA LastStepEnds ==
    ASSUME TurnTypeOK, NEW t \in Turns, StepsOpen(t), run[t] # "GONE", AwaitsApproval(t),
           NEW e, e = [steps[t] EXCEPT ![Len(steps[t])] = "ENDED"]
    PROVE  /\ e \in Seq(StepStates) /\ Len(e) = Len(steps[t])
           /\ Stacked(open[t], e) /\ Accounted(open[t], e, FALSE, FALSE)
<1>1. /\ steps \in [Turns -> Seq(StepStates)] /\ steps[t] \in Seq(StepStates) /\ open[t] \in Seq(Nat)
      /\ steps[t] # <<>>
  BY DEF TurnTypeOK, StepStates, StepsOpen
<1>2. /\ Stacked(open[t], steps[t]) /\ Accounted(open[t], steps[t], TRUE, FALSE)
      /\ \A i \in DOMAIN open[t] : open[t][i] < Len(steps[t])
  BY DEF StepsOpen, Orphaned, AwaitsApproval, Accounted
<1>4. PICK s \in Seq(StepStates) : s = steps[t]
  BY <1>1
<1>5. PICK o \in Seq(Nat) : o = open[t]
  BY <1>1
<1>6. /\ s \in Seq(StepStates) /\ o \in Seq(Nat) /\ s # <<>> /\ TRUE \in BOOLEAN
      /\ Stacked(o, s) /\ Accounted(o, s, TRUE, FALSE) /\ \A i \in DOMAIN o : o[i] < Len(s)
  BY <1>1, <1>2, <1>4, <1>5
<1>7. e = [s EXCEPT ![Len(s)] = "ENDED"]
  BY <1>4
<1>8. e \in Seq(StepStates) /\ Len(e) = Len(s) /\ Stacked(o, e) /\ Accounted(o, e, FALSE, FALSE)
  BY ONLY <1>6, <1>7, LastEnded
<1> QED
  BY <1>4, <1>5, <1>8

LastSet(t) == steps' = [steps EXCEPT ![t] = [@ EXCEPT ![Len(steps[t])] = "ENDED"]] /\ open' = open

LEMMA LastSetFacts ==
    ASSUME TurnTypeOK, NEW t \in Turns, StepsOpen(t), run[t] # "GONE", AwaitsApproval(t), LastSet(t)
    PROVE  /\ steps' \in [Turns -> Seq(StepStates)] /\ Len(steps'[t]) = Len(steps[t])
           /\ Stacked(open'[t], steps'[t]) /\ Accounted(open'[t], steps'[t], FALSE, FALSE)
<1>1. PICK e : e = [steps[t] EXCEPT ![Len(steps[t])] = "ENDED"]
  OBVIOUS
<1>2. /\ e \in Seq(StepStates) /\ Len(e) = Len(steps[t])
      /\ Stacked(open[t], e) /\ Accounted(open[t], e, FALSE, FALSE)
  BY <1>1, LastStepEnds
<1>3. steps \in [Turns -> Seq(StepStates)] /\ steps' = [steps EXCEPT ![t] = e] /\ open' = open
  BY <1>1 DEF LastSet, TurnTypeOK, StepStates
<1> QED
  BY <1>2, <1>3

LEMMA OpenLast ==
    ASSUME TurnTypeOK, NEW t \in Turns, StepsOpen(t), run[t] # "GONE", AwaitsApproval(t), LastSet(t),
           ~AwaitsApproval(t)'
    PROVE  StepsOpen(t)'
BY LastSetFacts DEF StepsOpen, Stacked, Accounted

\* That Step ends and the next one waits for the execution.
LastReplaced(t) ==
    /\ steps' = [steps EXCEPT ![t] = Append([@ EXCEPT ![Len(steps[t])] = "ENDED"], "RUNNING")]
    /\ open' = open

LEMMA OpenReplaced ==
    ASSUME TurnTypeOK, NEW t \in Turns, StepsOpen(t), run[t] # "GONE", AwaitsApproval(t), LastReplaced(t),
           AwaitsApproval(t)'
    PROVE  StepsOpen(t)' /\ steps' \in [Turns -> Seq(StepStates)]
<1>1. PICK e : e = [steps[t] EXCEPT ![Len(steps[t])] = "ENDED"]
  OBVIOUS
<1>2. /\ e \in Seq(StepStates) /\ Len(e) = Len(steps[t])
      /\ Stacked(open[t], e) /\ Accounted(open[t], e, FALSE, FALSE)
  BY <1>1, LastStepEnds
<1>3. PICK q : Append(e, "RUNNING") = q
  OBVIOUS
<1>4. /\ steps \in [Turns -> Seq(StepStates)] /\ steps' = [steps EXCEPT ![t] = q] /\ open' = open
      /\ open[t] \in Seq(Nat) /\ "RUNNING" \in StepStates
  BY <1>1, <1>3 DEF LastReplaced, TurnTypeOK, StepStates
<1>5. PICK s \in Seq(StepStates) : s = e
  BY <1>2
<1>11. PICK l \in Nat : Len(s) = l
  BY <1>5, SeqFacts
<1>12. Append(s, "RUNNING") = q
  BY <1>3, <1>5
<1>6. q \in Seq(StepStates) /\ q # <<>> /\ Len(q) = l + 1
  BY <1>4, <1>11, <1>12, AppendFacts
<1>7. Stacked(open[t], q) /\ \A i \in DOMAIN open[t] : open[t][i] < Len(q)
  BY <1>2, <1>3, <1>4, Unended
<1>10. Accounted(open[t], Append(e, "RUNNING"), TRUE, FALSE)
  BY ONLY <1>2, Waiting
<1>8. Accounted(open[t], q, TRUE, FALSE)
  BY <1>3, <1>10
<1>9. steps'[t] = q /\ open'[t] = open[t] /\ steps' \in [Turns -> Seq(StepStates)]
  BY <1>4, <1>6
<1> QED
  BY <1>6, <1>7, <1>8, <1>9 DEF StepsOpen, Stacked, Accounted

LEMMA MaxStep ==
    ASSUME NEW s \in Seq(StepStates), s # <<>>
    PROVE  Max(DOMAIN s) = Len(s)
<1>1. PICK l \in Nat : Len(s) = l /\ DOMAIN s = 1..l /\ l # 0
  BY SeqFacts
<1>2. l \in 1..l /\ \A y \in 1..l : l >= y
  BY <1>1
<1>3. \A x \in 1..l : (\A y \in 1..l : x >= y) => x = l
  BY <1>2
<1>4. Max(1..l) = l
  BY <1>2, <1>3 DEF Max
<1> QED
  BY <1>1, <1>4

\* The Steps of Confirm, written as a sequence.
LEMMA Replaced ==
    ASSUME NEW s \in Seq(StepStates), s # <<>>
    PROVE  [m \in 1..Len(s) + 1 |-> IF m = Len(s) THEN "ENDED"
                                    ELSE IF m = Len(s) + 1 THEN "RUNNING" ELSE s[m]]
             = Append([s EXCEPT ![Len(s)] = "ENDED"], "RUNNING")
<1>2. PICK e : e = [s EXCEPT ![Len(s)] = "ENDED"]
  OBVIOUS
<1>1. PICK l \in Nat : Len(s) = l /\ s \in [1..l -> StepStates] /\ l # 0
  BY SeqFacts
<1>3. "RUNNING" \in StepStates /\ "ENDED" \in StepStates
  BY DEF StepStates
<1>10. l \in 1..l
  BY <1>1
<1>4. /\ e \in Seq(StepStates) /\ Len(e) = l
      /\ \A i \in 1..l : e[i] = IF i = l THEN "ENDED" ELSE s[i]
  BY <1>1, <1>2, <1>3, <1>10, ExceptSeq
<1>5. PICK q : Append(e, "RUNNING") = q
  OBVIOUS
<1>11. PICK f \in Seq(StepStates) : f = e /\ Len(f) = l
  BY <1>4
<1>12. Append(f, "RUNNING") = q
  BY <1>5, <1>11
<1>6. q \in [1..l + 1 -> StepStates] /\ q[l + 1] = "RUNNING" /\ Agree(q, f, l)
  BY <1>3, <1>11, <1>12, AppendFacts
<1>7. /\ \A i \in 1..l : q[i] = e[i]
      /\ e[l] = "ENDED" /\ \A m \in 1..l : m # l => e[m] = s[m]
  BY <1>4, <1>6, <1>10, <1>11 DEF Agree
<1>8. \A m \in 1..l + 1 : q[m] = IF m = l THEN "ENDED" ELSE IF m = l + 1 THEN "RUNNING" ELSE s[m]
  <2> TAKE m \in 1..l + 1
  <2>1. CASE m \in 1..l
    BY <2>1, <1>7
  <2>2. CASE m = l + 1
    BY <2>2, <1>6
  <2> QED
    BY <2>1, <2>2
<1>9. q = [m \in 1..l + 1 |-> IF m = l THEN "ENDED" ELSE IF m = l + 1 THEN "RUNNING" ELSE s[m]]
  BY <1>6, <1>8
<1> QED
  BY <1>1, <1>2, <1>5, <1>9


-----------------------------------------------------------------------------
(* Every action keeps the invariant                                           *)

\* A request writes its own turn only.
Moves(t) == TurnTypeOK' /\ \A u \in Turns \ {t} : Same(u)

LEMMA Moved ==
    ASSUME TurnIInv, NEW t \in Turns, Moves(t), TurnInv(t)'
    PROVE  TurnIInv'
<1>1. \A u \in Turns : TurnInv(u)'
  <2> TAKE u \in Turns
  <2>1. CASE u = t
    BY <2>1
  <2>2. CASE u # t
    <3>1. Same(u) /\ TurnInv(u)
      BY <2>2 DEF Moves, TurnIInv
    <3> QED
      BY <3>1, SameKeeps
  <2> QED
    BY <2>1, <2>2
<1> QED
  BY <1>1 DEF Moves, TurnIInv

LEMMA BeginKeeps ==
    ASSUME TurnIInv, NEW t \in Turns, NEW kind \in {"message", "fixed", "choice"},
           NEW q \in Turns \cup {0}, Begin(t, kind, q)
    PROVE  TurnIInv'
<1>1. TurnTypeOK /\ TurnInv(t)
  BY DEF TurnIInv
<1>2. /\ ask' = [ask EXCEPT ![t] = kind] /\ question' = [question EXCEPT ![t] = q]
      /\ at' = [at EXCEPT ![t] = "intake"] /\ at[t] = "idle"
      /\ UNCHANGED <<session, home, run, final, steps, basis, approval, attempt, decision, next, open, lost>>
  BY DEF Begin, Go, rows
<1>3. Moves(t)
  <2>1. TurnTypeOK'
    BY <1>1, <1>2 DEF TurnTypeOK, Promise!RunTypeOK, Promise!Kinds, Labels, Decisions
  <2>2. \A u \in Turns \ {t} : Same(u)
    BY <1>1, <1>2 DEF TurnTypeOK, Same
  <2> QED
    BY <2>1, <2>2 DEF Moves
<1>4. at'[t] = "intake"
  BY <1>1, <1>2 DEF TurnTypeOK
<1>5. Placed(t)'
  BY <1>1, <1>2, <1>4 DEF TurnInv, Placed, Unstarted, Decided
<1>6. RunOfTurn(t)'
  BY <1>1, <1>2, <1>4 DEF TurnInv, Placed, RunOfTurn, Unstarted
<1>7. RunOfApproval(t)'
  BY <1>1, <1>2, <1>4 DEF TurnInv, Placed, RunOfApproval, Unstarted
<1>8. StepsOpen(t)'
  BY <1>1, <1>2, <1>4, OpenKept DEF TurnInv, AwaitsApproval, Orphaned
<1>9. Depth(t)' /\ Numbered(t)'
  BY <1>1, <1>2, <1>4 DEF TurnInv, Depth, Numbered, Orphaned
<1> QED
  BY <1>1, <1>3, <1>5, <1>6, <1>7, <1>8, <1>9, Moved DEF TurnInv

\* The request goes from one place to the next and leaves its Run and its Steps
\* alone: to y, with the stream lost or not, the decision d and the counters a, n.
Quiet(t, y, x, d, a, n) ==
    /\ at' = [at EXCEPT ![t] = y] /\ lost' = [lost EXCEPT ![t] = x] /\ decision' = [decision EXCEPT ![t] = d]
    /\ attempt' = [attempt EXCEPT ![t] = a] /\ next' = [next EXCEPT ![t] = n]
    /\ UNCHANGED <<session, home, run, final, steps, approval, ask, question, open>>
    /\ DOMAIN basis' = Turns
    /\ x \in BOOLEAN /\ (lost[t] => x) /\ d \in Decisions \cup {"none"} /\ a \in Nat /\ n \in Nat
    /\ at[t] # "resume" => d = decision[t]
    /\ y \notin {"fail", "raise", "answered"} => a = attempt[t] /\ n = next[t]

\* From where to where, and what is known on the way.
QuietWay(t, y, x, d) ==
    \/ at[t] = "intake" /\ y = "refused"
    \/ at[t] \in {"context", "route", "policy", "dispatch"} /\ y = "fail"
    \/ at[t] = "resume" /\ (y = "fail" \/ (y = "policy" /\ d # "none"))
    \/ at[t] = "save" /\ (y = "fail" \/ y = "remember")
    \/ at[t] = "remember" /\ (y = "fail" \/ y = IF d = "CLARIFICATION" THEN "settle" ELSE "dispatch")
    \/ at[t] = "source" /\ (y = "raise" \/ y = "skill")
    \/ at[t] \in {"skill", "draft"} /\ y = "raise"
    \/ /\ at[t] = "skill" /\ Len(open[t]) = Base(t) /\ ask[t] # "fixed"
       /\ y = IF d = "REVIEW" THEN "draft" ELSE "close"
    \/ at[t] = "skill" /\ Len(open[t]) = Base(t) /\ ask[t] = "fixed" /\ (y = "settle" \/ (y = "stranded" /\ x))
    \/ at[t] = "raise" /\ open[t] = <<>> /\ y = "fail"
    \/ /\ at[t] = "settle" /\ Reviews(t)
       /\ y = IF run[t] = "WAITING_APPROVAL" THEN "answered" ELSE "fail"

LEMMA QuietKeeps ==
    ASSUME TurnIInv, NEW t \in Turns, NEW y, NEW x, NEW d, NEW a, NEW n,
           Quiet(t, y, x, d, a, n), QuietWay(t, y, x, d)
    PROVE  TurnIInv'
<1>1. TurnTypeOK /\ TurnInv(t)
  BY DEF TurnIInv
<1>2. y \in Labels
  BY DEF QuietWay, Labels, Done
<1>3. Moves(t)
  <2>1. TurnTypeOK'
    BY <1>1, <1>2 DEF Quiet, TurnTypeOK, Promise!RunTypeOK
  <2>2. \A u \in Turns \ {t} : Same(u)
    BY <1>1 DEF Quiet, TurnTypeOK, Same
  <2> QED
    BY <2>1, <2>2 DEF Moves
<1>4. /\ at'[t] = y /\ lost'[t] = x /\ decision'[t] = d /\ attempt'[t] = a /\ next'[t] = n
      /\ run' = run /\ final' = final /\ steps' = steps /\ approval' = approval /\ ask' = ask /\ open' = open
  BY <1>1 DEF Quiet, TurnTypeOK
<1>5. Placed(t)'
  BY <1>1, <1>4 DEF Quiet, QuietWay, TurnInv, Placed, RunOfApproval, Reviews, Unstarted, Decided
<1>6. RunOfTurn(t)'
  BY <1>1, <1>4 DEF Quiet, QuietWay, TurnInv, Placed, RunOfTurn, RunOfApproval, ResultKind, Reviews, Unstarted, Done
<1>7. RunOfApproval(t)'
  <2>1. CASE approval[t] = "none"
    <3>1. Reviews(t)' /\ y \in {"close", "settle", "answered"} => FALSE
      BY <2>1, <1>1, <1>4 DEF Quiet, QuietWay, TurnInv, RunOfApproval, Reviews
    <3> QED
      BY <2>1, <3>1, <1>4 DEF RunOfApproval
  <2>2. CASE approval[t] # "none"
    <3>1. /\ at[t] \in {"settle", "raise"} /\ y \in {"answered", "fail"} /\ d = decision[t]
          /\ at[t] = "raise" => y = "fail"
          /\ at[t] = "settle" => y = IF run[t] = "WAITING_APPROVAL" THEN "answered" ELSE "fail"
      BY <2>2, <1>1 DEF Quiet, QuietWay, TurnInv, RunOfApproval, Done, Reviews
    <3>2. ~Overruled(t) /\ ~Overruled(t)'
      BY <3>1, <1>4 DEF Overruled
    <3>3. Reviews(t)' /\ Reviews(t)
      BY <2>2, <3>1, <1>1, <1>4 DEF TurnInv, RunOfApproval, Reviews
    <3>4. approval[t] = "WAITING" /\ run[t] # "GONE" => run[t] = "WAITING_APPROVAL"
      BY <2>2, <3>2, <1>1 DEF TurnInv, RunOfApproval
    <3>5. approval[t] = "WAITING" /\ y = "fail" => x \/ run[t] = "GONE"
      BY <3>1, <3>4, <1>1 DEF Quiet, TurnInv, RunOfApproval
    <3> QED
      BY <2>2, <3>1, <3>2, <3>3, <3>5, <1>1, <1>4 DEF TurnInv, RunOfApproval
  <2> QED
    BY <2>1, <2>2
<1>8. StepsOpen(t)'
  <2>1. StepsOpen(t) /\ (AwaitsApproval(t)' <=> AwaitsApproval(t))
    BY <1>1, <1>4 DEF TurnInv, AwaitsApproval
  <2>2. Orphaned(t) => Orphaned(t)'
    BY <1>4 DEF Quiet, QuietWay, Orphaned
  <2> QED
    BY <2>1, <2>2, <1>4, OpenKept
<1>9. Depth(t)'
  <2>1. open[t] \in Seq(Nat) /\ Len(open[t]) \in Nat /\ (open[t] = <<>> <=> Len(open[t]) = 0)
    BY <1>1, SeqFacts DEF TurnTypeOK
  <2>2. CASE open[t] = <<>>
    <3>1. /\ y \notin {"loading", "model", "policed", "source", "draft", "close"}
          /\ y = "skill" => Base(t) <= 0
          /\ y \in {"policy", "remember", "dispatch"} => ask[t] # "fixed"
          /\ y \notin {"context", "route", "resume", "save"}
      BY <2>1, <2>2, <1>1 DEF QuietWay, TurnInv, Depth, Base
    <3> QED
      BY <2>1, <2>2, <3>1, <1>4 DEF Depth, Base
  <2>3. CASE open[t] # <<>>
    <3>1. /\ y \in {"skill", "draft", "close", "raise"}
          /\ y = "skill" => Len(open[t]) = 1
          /\ y \in {"draft", "close"} => Len(open[t]) = 1 /\ ask[t] # "fixed"
      BY <2>1, <2>3, <1>1 DEF QuietWay, TurnInv, Depth, Base
    <3> QED
      BY <2>1, <2>3, <3>1, <1>4 DEF Depth, Base
  <2> QED
    BY <2>2, <2>3
<1>10. Numbered(t)'
  BY <1>1, <1>4 DEF Quiet, QuietWay, TurnInv, Numbered, PolicyNumber
<1> QED
  BY <1>1, <1>3, <1>5, <1>6, <1>7, <1>8, <1>9, <1>10, Moved DEF TurnInv

\* The actions that are such a move.
LEMMA QuietActions ==
    ASSUME TurnIInv, NEW t \in Turns,
           \/ Refuse(t) \/ Resume(t) \/ Save(t) \/ Remember(t) \/ Source(t)
           \/ SkillRaises(t) \/ SkillReturns(t) \/ FixedReturns(t) \/ RecordWaiting(t)
    PROVE  TurnIInv'
<1>1. TurnTypeOK /\ TurnInv(t)
  BY DEF TurnIInv
<1> DEFINE Way == \E y, x, d, a, n : Quiet(t, y, x, d, a, n) /\ QuietWay(t, y, x, d)
<1>2. SUFFICES Way
  BY QuietKeeps
<1>3. PICK y, x, d, a, n : y = at'[t] /\ x = lost'[t] /\ d = decision'[t] /\ a = attempt'[t] /\ n = next'[t]
  OBVIOUS
<1>4. SUFFICES Quiet(t, y, x, d, a, n) /\ QuietWay(t, y, x, d)
  OBVIOUS
<1>5. CASE Refuse(t)
  <2>1. Quiet(t, y, x, d, a, n)
    BY <1>1, <1>3, <1>5 DEF Refuse, Go, rows, Quiet, TurnTypeOK
  <2>2. QuietWay(t, y, x, d)
    BY <1>1, <1>3, <1>5 DEF Refuse, Go, rows, QuietWay, TurnTypeOK, Reviews
  <2> QED
    BY <2>1, <2>2
<1>6. CASE Resume(t)
  <2>1. Quiet(t, y, x, d, a, n)
    BY <1>1, <1>3, <1>6 DEF Resume, Go, rows, Quiet, TurnTypeOK
  <2>2. QuietWay(t, y, x, d)
    BY <1>1, <1>3, <1>6, TurnAssumption DEF Resume, Go, rows, QuietWay, TurnTypeOK, Decisions
  <2> QED
    BY <2>1, <2>2
<1>7. CASE Save(t)
  <2>1. Quiet(t, y, x, d, a, n)
    BY <1>1, <1>3, <1>7 DEF Save, Go, rows, Quiet, TurnTypeOK
  <2>2. QuietWay(t, y, x, d)
    BY <1>1, <1>3, <1>7 DEF Save, Go, rows, QuietWay, TurnTypeOK, Reviews
  <2> QED
    BY <2>1, <2>2
<1>8. CASE Remember(t)
  <2>1. Quiet(t, y, x, d, a, n)
    BY <1>1, <1>3, <1>8, ZenonT(60) DEF Remember, Go, Publish, Quietly, rows, Quiet, TurnTypeOK
  <2>2. QuietWay(t, y, x, d)
    BY <1>1, <1>3, <1>8 DEF Remember, Go, Publish, Quietly, rows, QuietWay, TurnTypeOK, Reviews
  <2> QED
    BY <2>1, <2>2
<1>9. CASE Source(t)
  <2>1. Quiet(t, y, x, d, a, n)
    BY <1>1, <1>3, <1>9 DEF Source, Go, rows, Quiet, TurnTypeOK
  <2>2. QuietWay(t, y, x, d)
    BY <1>1, <1>3, <1>9 DEF Source, Go, rows, QuietWay, TurnTypeOK, Reviews
  <2> QED
    BY <2>1, <2>2
<1>10. CASE SkillRaises(t)
  <2>1. Quiet(t, y, x, d, a, n)
    BY <1>1, <1>3, <1>10 DEF SkillRaises, Go, rows, Quiet, TurnTypeOK
  <2>2. QuietWay(t, y, x, d)
    BY <1>1, <1>3, <1>10 DEF SkillRaises, Go, rows, QuietWay, TurnTypeOK, Reviews
  <2> QED
    BY <2>1, <2>2
<1>11. CASE SkillReturns(t)
  <2>1. Quiet(t, y, x, d, a, n)
    BY <1>1, <1>3, <1>11 DEF SkillReturns, Go, rows, Quiet, TurnTypeOK
  <2>2. QuietWay(t, y, x, d)
    BY <1>1, <1>3, <1>11 DEF SkillReturns, Go, rows, QuietWay, TurnTypeOK, Reviews
  <2> QED
    BY <2>1, <2>2
<1>12. CASE FixedReturns(t)
  <2>1. Quiet(t, y, x, d, a, n)
    BY <1>1, <1>3, <1>12, ZenonT(60) DEF FixedReturns, Go, Publish, rows, Quiet, TurnTypeOK
  <2>2. QuietWay(t, y, x, d)
    BY <1>1, <1>3, <1>12 DEF FixedReturns, Go, Publish, rows, QuietWay, TurnTypeOK, Reviews
  <2> QED
    BY <2>1, <2>2
<1>13. CASE RecordWaiting(t)
  <2>0. open[t] = <<>>
    BY <1>1, <1>13 DEF RecordWaiting, TurnInv, Depth
  <2>3. open' = open
    BY <2>0, <1>1, <1>13 DEF RecordWaiting, Return, TurnTypeOK
  <2>1. Quiet(t, y, x, d, a, n)
    BY <2>3, <1>1, <1>3, <1>13 DEF RecordWaiting, Go, Return, rows, Quiet, TurnTypeOK
  <2>2. QuietWay(t, y, x, d)
    BY <1>1, <1>3, <1>13 DEF RecordWaiting, Go, Return, rows, QuietWay, TurnTypeOK, Reviews
  <2> QED
    BY <2>1, <2>2
<1> QED
  BY <1>5, <1>6, <1>7, <1>8, <1>9, <1>10, <1>11, <1>12, <1>13

\* A Step is started on the way, with number n; a and m are the counters after it.
Starts(t, n, y, x, a, m) ==
    /\ run[t] = "RUNNING" /\ Started(t, n)
    /\ at' = [at EXCEPT ![t] = y] /\ lost' = [lost EXCEPT ![t] = x]
    /\ attempt' = [attempt EXCEPT ![t] = a] /\ next' = [next EXCEPT ![t] = m]
    /\ UNCHANGED <<session, home, run, final, basis, approval, ask, question, decision>>
    /\ x \in BOOLEAN /\ (lost[t] => x) /\ a \in Nat /\ m \in Nat

StartWay(t, n, y, x, a, m) ==
    \/ at[t] = "context" /\ y = "loading" /\ a = attempt[t]
    \/ at[t] = "route" /\ y = "model" /\ a = attempt[t] + 1
    \/ at[t] = "policy" /\ y = "policed" /\ a = attempt[t]
    \/ at[t] = "dispatch" /\ (y \in {"source", "skill"} \/ (y = "fail" /\ x)) /\ m = n + 1
    \/ at[t] = "skill" /\ y = "skill" /\ m = n + 1

LEMMA StartKeeps ==
    ASSUME TurnIInv, NEW t \in Turns, NEW n, NEW y, NEW x, NEW a, NEW m,
           Starts(t, n, y, x, a, m), StartWay(t, n, y, x, a, m)
    PROVE  TurnIInv'
<1>1. TurnTypeOK /\ TurnInv(t)
  BY DEF TurnIInv
<1>2. y \in Labels
  BY DEF StartWay, Labels, Done
<1>0. /\ n \in Nat /\ n >= 1 /\ n = Len(steps[t]) + 1
      /\ steps' \in [Turns -> Seq(StepStates)] /\ open' \in [Turns -> Seq(Nat)]
      /\ Len(steps'[t]) = n /\ open'[t] # <<>> /\ Len(open'[t]) = Len(open[t]) + 1
  BY <1>1, StartedFacts DEF Starts, Started
<1>10. /\ Len(steps[t]) \in Nat /\ Len(open[t]) \in Nat /\ (open[t] = <<>> <=> Len(open[t]) = 0)
  BY <1>1, SeqFacts DEF TurnTypeOK
<1>3. Moves(t)
  <2>1. TurnTypeOK'
    BY <1>0, <1>1, <1>2 DEF Starts, TurnTypeOK, Promise!RunTypeOK, StepStates
  <2>2. \A u \in Turns \ {t} : Same(u)
    BY <1>1 DEF Starts, Started, TurnTypeOK, Same
  <2> QED
    BY <2>1, <2>2 DEF Moves
<1>4. /\ at'[t] = y /\ lost'[t] = x /\ attempt'[t] = a /\ next'[t] = m /\ decision' = decision
      /\ run' = run /\ final' = final /\ approval' = approval /\ ask' = ask /\ run[t] = "RUNNING"
  BY <1>1 DEF Starts, TurnTypeOK
<1>11. approval[t] = "none" /\ final[t] = "none"
  <2>1. approval[t] = "none"
    BY <1>1 DEF StartWay, TurnInv, RunOfApproval, Done
  <2> QED
    BY <2>1, <1>1, <1>4 DEF TurnInv, RunOfTurn
<1>5. Placed(t)'
  BY <1>1, <1>4, <1>11 DEF StartWay, TurnInv, Placed, Unstarted, Decided
<1>6. RunOfTurn(t)'
  BY <1>1, <1>4, <1>11 DEF StartWay, RunOfTurn
<1>7. RunOfApproval(t)'
  BY <1>1, <1>4, <1>11 DEF StartWay, RunOfApproval
<1>8. StepsOpen(t)'
  <2>1. StepsOpen(t) /\ Started(t, n) /\ run[t] # "GONE" /\ ~AwaitsApproval(t) /\ ~AwaitsApproval(t)'
    BY <1>1, <1>4, <1>11 DEF TurnInv, Starts, AwaitsApproval
  <2>2. Orphaned(t) => Orphaned(t)'
    BY <1>4 DEF StartWay, Orphaned
  <2> QED
    BY <2>1, <2>2, <1>1, OpenStarted
<1>9. Depth(t)'
  <2>1. Len(open'[t]) = 1 \/ at[t] = "skill"
    BY <1>0, <1>1, <1>10 DEF StartWay, TurnInv, Depth
  <2>2. y = "fail" => Orphaned(t)'
    BY <1>4, <1>11 DEF StartWay, Orphaned
  <2>3. CASE at[t] = "skill"
    BY <2>3, <1>0, <1>1, <1>4, <1>10 DEF StartWay, TurnInv, Depth, Base
  <2>4. CASE at[t] # "skill"
    <3>1. ask[t] # "fixed" /\ Len(open'[t]) = 1 /\ y \in {"loading", "model", "policed", "source", "skill", "fail"}
      BY <2>1, <2>4, <1>1 DEF StartWay, TurnInv, Depth
    <3> QED
      BY <2>2, <3>1, <1>4 DEF Depth, Base
  <2> QED
    BY <2>3, <2>4
<1>12. Numbered(t)'
  BY <1>0, <1>1, <1>4, <1>10, SMTT(60) DEF StartWay, TurnInv, Numbered, PolicyNumber, TurnTypeOK
<1> QED
  BY <1>1, <1>3, <1>5, <1>6, <1>7, <1>8, <1>9, <1>12, Moved DEF TurnInv

\* The innermost Step ends on the way, or is gone with the Run.
Finishes(t, y, x, d) ==
    /\ open[t] # <<>>
    /\ \/ run[t] # "GONE" /\ Ended(t)
       \/ run[t] = "GONE" /\ open' = [open EXCEPT ![t] = Popped(@)] /\ UNCHANGED steps
    /\ at' = [at EXCEPT ![t] = y] /\ lost' = [lost EXCEPT ![t] = x] /\ decision' = [decision EXCEPT ![t] = d]
    /\ UNCHANGED <<session, home, run, final, basis, approval, ask, question, attempt, next>>
    /\ x \in BOOLEAN /\ (lost[t] => x) /\ d \in Decisions \cup {"none"}
    /\ at[t] # "model" => d = decision[t]

FinishWay(t, y, x, d) ==
    \/ at[t] = "loading" /\ y \in {"resume", "route", "fail"}
    \/ at[t] = "model" /\ (y \in {"route", "fail"} \/ (y = "policy" /\ d # "none"))
    \/ at[t] = "policed" /\ y \in {"save", "fail"}
    \/ at[t] = "skill" /\ Len(open[t]) > Base(t) /\ y \in {"skill", "raise"}
    \/ at[t] = "raise" /\ y = "raise"
    \/ at[t] = "close" /\ (y = "settle" \/ (y = "fail" /\ run[t] = "GONE"))

LEMMA FinishKeeps ==
    ASSUME TurnIInv, NEW t \in Turns, NEW y, NEW x, NEW d, Finishes(t, y, x, d), FinishWay(t, y, x, d)
    PROVE  TurnIInv'
<1>1. TurnTypeOK /\ TurnInv(t)
  BY DEF TurnIInv
<1>2. y \in Labels
  BY DEF FinishWay, Labels, Done
<1>10. /\ Len(open[t]) \in Nat /\ open[t] # <<>> /\ open[t] \in Seq(Nat) /\ open \in [Turns -> Seq(Nat)]
  BY <1>1, SeqFacts DEF TurnTypeOK, Finishes
<1>0. /\ steps' \in [Turns -> Seq(StepStates)] /\ open' \in [Turns -> Seq(Nat)]
      /\ Len(steps'[t]) = Len(steps[t]) /\ Len(open'[t]) \in Nat /\ Len(open[t]) = Len(open'[t]) + 1
  <2>1. CASE run[t] # "GONE"
    <3>1. Ended(t) /\ Stacked(open[t], steps[t])
      BY <2>1, <1>1 DEF Finishes, TurnInv, StepsOpen
    <3> QED
      BY <3>1, <1>1, <1>10, EndedTypes
  <2>2. CASE run[t] = "GONE"
    <3>1. steps' = steps /\ steps \in [Turns -> Seq(StepStates)] /\ open' = [open EXCEPT ![t] = Popped(open[t])]
      BY <2>2, <1>1 DEF Finishes, TurnTypeOK, StepStates
    <3>2. PICK k \in Nat : Len(open[t]) = k + 1 /\ Popped(open[t]) \in Seq(Nat) /\ Len(Popped(open[t])) = k
      BY <1>10, PoppedFacts
    <3> QED
      BY <3>1, <3>2, <1>10
  <2> QED
    BY <2>1, <2>2
<1>13. open'[t] = <<>> <=> Len(open'[t]) = 0
  BY <1>0, SeqFacts
<1>3. Moves(t)
  <2>1. TurnTypeOK'
    BY <1>0, <1>1, <1>2 DEF Finishes, TurnTypeOK, Promise!RunTypeOK, StepStates
  <2>2. \A u \in Turns \ {t} : Same(u)
    BY <1>1 DEF Finishes, Ended, TurnTypeOK, Same
  <2> QED
    BY <2>1, <2>2 DEF Moves
<1>4. /\ at'[t] = y /\ lost'[t] = x /\ decision'[t] = d /\ attempt' = attempt /\ next' = next
      /\ run' = run /\ final' = final /\ approval' = approval /\ ask' = ask
  BY <1>1 DEF Finishes, TurnTypeOK
<1>5. Placed(t)'
  <2>1. run[t] = "GONE" => steps'[t] = steps[t]
    BY DEF Finishes
  <2> QED
    BY <2>1, <1>1, <1>4 DEF Finishes, FinishWay, TurnInv, Placed, RunOfApproval, Reviews, Unstarted, Decided
<1>6. RunOfTurn(t)'
  BY <1>1, <1>4 DEF Finishes, FinishWay, TurnInv, Placed, RunOfTurn, ResultKind, Unstarted, Done
<1>7. RunOfApproval(t)'
  BY <1>1, <1>4 DEF Finishes, FinishWay, TurnInv, RunOfApproval, Overruled, Reviews
<1>8. StepsOpen(t)'
  <2>1. CASE run[t] = "GONE"
    BY <2>1, <1>4 DEF StepsOpen
  <2>2. CASE run[t] # "GONE"
    <3>1. StepsOpen(t) /\ Ended(t) /\ (AwaitsApproval(t)' <=> AwaitsApproval(t))
      BY <2>2, <1>1, <1>4 DEF Finishes, TurnInv, AwaitsApproval
    <3>2. Orphaned(t) => Orphaned(t)'
      BY <1>4 DEF Finishes, FinishWay, Orphaned
    <3> QED
      BY <2>2, <3>1, <3>2, <1>1, <1>10, OpenEnded
  <2> QED
    BY <2>1, <2>2
<1>9. Depth(t)'
  <2>1. CASE at[t] \in {"loading", "model", "policed", "close"}
    <3>1. open'[t] = <<>> /\ (at[t] # "close" => ask[t] # "fixed") /\ y \in {"resume", "route", "fail", "policy", "save", "settle"}
          /\ (at[t] = "close" => y \in {"settle", "fail"})
      BY <2>1, <1>0, <1>1, <1>13 DEF FinishWay, TurnInv, Depth
    <3> QED
      BY <2>1, <3>1, <1>4 DEF Depth
  <2>2. CASE at[t] \in {"skill", "raise"}
    <3>1. y \in {"skill", "raise"} /\ (y = "skill" => Len(open'[t]) >= Base(t))
      BY <2>2, <1>0, <1>1 DEF FinishWay, Base
    <3> QED
      BY <3>1, <1>4 DEF Depth, Base
  <2> QED
    BY <2>1, <2>2 DEF FinishWay
<1>12. Numbered(t)'
  BY <1>0, <1>1, <1>4 DEF Finishes, FinishWay, TurnInv, Numbered, PolicyNumber
<1> QED
  BY <1>1, <1>3, <1>5, <1>6, <1>7, <1>8, <1>9, <1>12, Moved DEF TurnInv

LEMMA Finishing ==
    ASSUME TurnTypeOK, NEW t \in Turns, TurnInv(t), open[t] # <<>>, NEW n, n = open[t][Len(open[t])]
    PROVE  /\ MayFinish(t, n) <=> run[t] # "GONE"
           /\ MayFinish(t, n) /\ SetStep(t, n, "ENDED") =>
                 steps' = [steps EXCEPT ![t] = [@ EXCEPT ![open[t][Len(open[t])]] = "ENDED"]]
<1>1. /\ open[t] \in Seq(Nat)
  BY DEF TurnTypeOK
<1>2. PICK k \in Nat : Len(open[t]) = k + 1 /\ open[t] \in [1..k + 1 -> Nat]
  BY <1>1, PoppedFacts
<1>3. k + 1 \in 1..k + 1 /\ n = open[t][k + 1]
  BY <1>2
<1>4. run[t] # "GONE" => MayFinish(t, n)
  BY <1>2, <1>3 DEF TurnInv, StepsOpen, Stacked, MayFinish
<1>5. run[t] = "GONE" => ~MayFinish(t, n)
  <2>1. DOMAIN <<>> = 1..0 /\ ~(n \in 1..0)
    BY EmptySeq, <1>2, <1>3
  <2> QED
    BY <2>1 DEF TurnInv, Placed, MayFinish
<1>6. MayFinish(t, n) /\ SetStep(t, n, "ENDED") => steps' = [steps EXCEPT ![t] = [@ EXCEPT ![n] = "ENDED"]]
  BY SetOld DEF MayFinish
<1> QED
  BY <1>4, <1>5, <1>6

LEMMA FinishActions ==
    ASSUME TurnIInv, NEW t \in Turns,
           \/ Loaded(t) \/ Routed(t) \/ Misrouted(t) \/ ModelFails(t) \/ Policed(t)
           \/ SkillStepEnds(t) \/ (Unwind(t) /\ open[t] # <<>>) \/ Close(t)
    PROVE  TurnIInv'
<1>1. TurnTypeOK /\ TurnInv(t)
  BY DEF TurnIInv
<1>2. PICK y, x, d : y = at'[t] /\ x = lost'[t] /\ d = decision'[t]
  OBVIOUS
<1>3. SUFFICES Finishes(t, y, x, d) /\ FinishWay(t, y, x, d)
  BY FinishKeeps
<1>4. open[t] # <<>>
  <2>1. open[t] \in Seq(Nat) /\ (open[t] = <<>> => Len(open[t]) = 0)
    BY <1>1 DEF TurnTypeOK
  <2> QED
    BY <2>1, <1>1 DEF Loaded, Routed, Misrouted, ModelFails, Policed, SkillStepEnds, Unwind, Close, TurnInv, Depth, Base
<1>5. PICK n : n = open[t][Len(open[t])]
  OBVIOUS
<1>6. /\ MayFinish(t, n) <=> run[t] # "GONE"
      /\ MayFinish(t, n) /\ SetStep(t, n, "ENDED") =>
            steps' = [steps EXCEPT ![t] = [@ EXCEPT ![open[t][Len(open[t])]] = "ENDED"]]
  BY <1>1, <1>4, <1>5, Finishing
<1>7. CASE Loaded(t)
  <2>1. Finishes(t, y, x, d)
    BY <1>1, <1>2, <1>4, <1>5, <1>6, <1>7, ZenonT(60) DEF Loaded, Finish, Go, Publish, Finishes, Ended, Popped, TurnTypeOK
  <2>2. FinishWay(t, y, x, d)
    BY <1>1, <1>2, <1>5, <1>6, <1>7 DEF Loaded, Finish, Go, Publish, FinishWay, TurnTypeOK
  <2> QED
    BY <2>1, <2>2
<1>8. CASE Routed(t)
  <2>1. Finishes(t, y, x, d)
    BY <1>1, <1>2, <1>4, <1>5, <1>6, <1>8 DEF Routed, Finish, Go, Quietly, Finishes, Ended, Popped, TurnTypeOK
  <2>2. FinishWay(t, y, x, d)
    BY <1>1, <1>2, <1>5, <1>6, <1>8, TurnAssumption DEF Routed, Finish, Go, Quietly, FinishWay, TurnTypeOK, Decisions
  <2> QED
    BY <2>1, <2>2
<1>9. CASE Misrouted(t)
  <2>1. Finishes(t, y, x, d)
    BY <1>1, <1>2, <1>4, <1>5, <1>6, <1>9 DEF Misrouted, Finish, Go, Quietly, Finishes, Ended, Popped, TurnTypeOK
  <2>2. FinishWay(t, y, x, d)
    BY <1>1, <1>2, <1>5, <1>6, <1>9 DEF Misrouted, Finish, Go, Quietly, FinishWay, TurnTypeOK
  <2> QED
    BY <2>1, <2>2
<1>10. CASE ModelFails(t)
  <2>1. Finishes(t, y, x, d)
    BY <1>1, <1>2, <1>4, <1>5, <1>6, <1>10 DEF ModelFails, Finish, Go, Quietly, Finishes, Ended, Popped, TurnTypeOK
  <2>2. FinishWay(t, y, x, d)
    BY <1>1, <1>2, <1>5, <1>6, <1>10 DEF ModelFails, Finish, Go, Quietly, FinishWay, TurnTypeOK
  <2> QED
    BY <2>1, <2>2
<1>11. CASE Policed(t)
  <2>1. Finishes(t, y, x, d)
    BY <1>1, <1>2, <1>4, <1>5, <1>6, <1>11 DEF Policed, Finish, Go, Quietly, Finishes, Ended, Popped, TurnTypeOK
  <2>2. FinishWay(t, y, x, d)
    BY <1>1, <1>2, <1>5, <1>6, <1>11 DEF Policed, Finish, Go, Quietly, FinishWay, TurnTypeOK
  <2> QED
    BY <2>1, <2>2
<1>12. CASE SkillStepEnds(t)
  <2>1. Finishes(t, y, x, d)
    BY <1>1, <1>2, <1>4, <1>5, <1>6, <1>12, ZenonT(60) DEF SkillStepEnds, Finish, Go, Publish, Finishes, Ended, Popped, TurnTypeOK
  <2>2. FinishWay(t, y, x, d)
    BY <1>1, <1>2, <1>5, <1>6, <1>12 DEF SkillStepEnds, Finish, Go, Publish, FinishWay, TurnTypeOK
  <2> QED
    BY <2>1, <2>2
<1>13. CASE Unwind(t) /\ open[t] # <<>>
  <2>1. Finishes(t, y, x, d)
    BY <1>1, <1>2, <1>4, <1>5, <1>6, <1>13 DEF Unwind, Finish, Go, Quietly, Finishes, Ended, Popped, TurnTypeOK
  <2>2. FinishWay(t, y, x, d)
    BY <1>1, <1>2, <1>5, <1>6, <1>13 DEF Unwind, Finish, Go, Quietly, FinishWay, TurnTypeOK
  <2> QED
    BY <2>1, <2>2
<1>14. CASE Close(t)
  <2>1. Finishes(t, y, x, d)
    BY <1>1, <1>2, <1>4, <1>5, <1>6, <1>14 DEF Close, Finish, Go, Quietly, Finishes, Ended, Popped, TurnTypeOK
  <2>2. FinishWay(t, y, x, d)
    BY <1>1, <1>2, <1>5, <1>6, <1>14 DEF Close, Finish, Go, Quietly, FinishWay, TurnTypeOK
  <2> QED
    BY <2>1, <2>2
<1> QED
  BY <1>7, <1>8, <1>9, <1>10, <1>11, <1>12, <1>13, <1>14

LEMMA Starting ==
    ASSUME TurnTypeOK, NEW t \in Turns, NEW n \in Nat, run[t] = "RUNNING" => n = Len(steps[t]) + 1
    PROVE  /\ MayStart(t, n) <=> run[t] = "RUNNING"
           /\ MayStart(t, n) /\ SetStep(t, n, "RUNNING") => steps' = [steps EXCEPT ![t] = Append(@, "RUNNING")]
<1>1. PICK l \in Nat : Len(steps[t]) = l /\ DOMAIN steps[t] = 1..l
  BY SeqFacts DEF TurnTypeOK
<1>2. MayStart(t, n) <=> run[t] = "RUNNING"
  BY <1>1 DEF MayStart
<1>3. MayStart(t, n) /\ SetStep(t, n, "RUNNING") => steps' = [steps EXCEPT ![t] = Append(@, "RUNNING")]
  <2>1. "RUNNING" \in StepStates
    BY DEF StepStates
  <2> QED
    BY <2>1, <1>2, SetNew
<1> QED
  BY <1>2, <1>3

\* The stream is lost between the start of a tool's Step and its handlers.
LEMMA OrphanKeeps ==
    ASSUME TurnIInv, NEW t \in Turns, at[t] = "skill", run[t] = "RUNNING",
           steps' = [steps EXCEPT ![t] = Append(@, "RUNNING")], NEW m \in Nat, next' = [next EXCEPT ![t] = m],
           lost' = [lost EXCEPT ![t] = TRUE], at' = [at EXCEPT ![t] = "raise"],
           UNCHANGED <<session, home, run, final, basis, approval, ask, question, attempt, decision, open>>
    PROVE  TurnIInv'
<1>1. TurnTypeOK /\ TurnInv(t)
  BY DEF TurnIInv
<1>2. Added(t) /\ steps' \in [Turns -> Seq(StepStates)]
  BY <1>1, AddedFacts DEF Added
<1>3. Moves(t)
  <2>1. TurnTypeOK'
    BY <1>1, <1>2 DEF TurnTypeOK, Promise!RunTypeOK, StepStates, Labels
  <2>2. \A u \in Turns \ {t} : Same(u)
    BY <1>1 DEF TurnTypeOK, Same
  <2> QED
    BY <2>1, <2>2 DEF Moves
<1>4. at'[t] = "raise" /\ lost'[t] = TRUE
  BY <1>1 DEF TurnTypeOK
<1>5. approval[t] = "none" /\ final[t] = "none"
  <2>1. approval[t] = "none"
    BY <1>1 DEF TurnInv, RunOfApproval
  <2> QED
    BY <2>1, <1>1 DEF TurnInv, RunOfTurn
<1>6. Placed(t)' /\ RunOfTurn(t)' /\ RunOfApproval(t)' /\ Depth(t)' /\ Numbered(t)'
  BY <1>1, <1>4, <1>5 DEF TurnInv, Placed, RunOfTurn, RunOfApproval, Depth, Numbered, Unstarted, Decided
<1>7. StepsOpen(t)'
  <2>1. StepsOpen(t) /\ Orphaned(t)' /\ run[t] # "GONE"
    BY <1>1, <1>4, <1>5 DEF TurnInv, Orphaned
  <2> QED
    BY <2>1, <1>1, <1>2, OpenUnended
<1> QED
  BY <1>1, <1>3, <1>6, <1>7, Moved DEF TurnInv

\* A Step that cannot be started, or one that is.
LEMMA StartActions ==
    ASSUME TurnIInv, NEW t \in Turns, Context(t) \/ Route(t) \/ Policy(t) \/ Dispatch(t) \/ SkillStep(t)
    PROVE  TurnIInv'
<1>1. TurnTypeOK /\ TurnInv(t)
  BY DEF TurnIInv
<1>2. PICK y, x, d, a, m : y = at'[t] /\ x = lost'[t] /\ d = decision'[t] /\ a = attempt'[t] /\ m = next'[t]
  OBVIOUS
<1> DEFINE n == CASE at[t] = "context" -> 1
                  [] at[t] = "route" -> 2 + attempt[t]
                  [] at[t] = "policy" -> PolicyNumber(t)
                  [] at[t] = "dispatch" -> PolicyNumber(t) + 1
                  [] at[t] = "skill" -> next[t]
<1>3. n \in Nat /\ (run[t] = "RUNNING" => n = Len(steps[t]) + 1)
  <2>1. attempt[t] \in Nat /\ next[t] \in Nat /\ at[t] \in {"context", "route", "policy", "dispatch", "skill"}
    BY <1>1 DEF TurnTypeOK, Context, Route, Policy, Dispatch, SkillStep
  <2>2. Len(steps[t]) \in Nat
    BY <1>1, SeqFacts DEF TurnTypeOK
  <2> QED
    BY <2>1, <2>2, <1>1 DEF TurnInv, Numbered, PolicyNumber
<1>4. PICK k \in Nat : k = n
  BY <1>3
<1>5. /\ MayStart(t, k) <=> run[t] = "RUNNING"
      /\ MayStart(t, k) /\ SetStep(t, k, "RUNNING") => steps' = [steps EXCEPT ![t] = Append(@, "RUNNING")]
      /\ run[t] = "RUNNING" => k = Len(steps[t]) + 1
  BY <1>1, <1>3, <1>4, Starting
<1>6. SUFFICES \/ Starts(t, k, y, x, a, m) /\ StartWay(t, k, y, x, a, m)
               \/ Quiet(t, y, x, d, a, m) /\ QuietWay(t, y, x, d)
               \/ SkillStep(t) /\ MayStart(t, k) /\ open' = open
  <2>1. CASE SkillStep(t) /\ MayStart(t, k) /\ open' = open
    <3>1. at[t] = "skill" /\ k = next[t] /\ next' = [next EXCEPT ![t] = @ + 1] /\ next[t] + 1 \in Nat
      BY <2>1, <1>1, <1>4 DEF SkillStep, TurnTypeOK
    <3>2. open[t] # Append(open[t], k)
      BY <1>1, AppendNumber, SeqFacts DEF TurnTypeOK
    <3>3. /\ SetStep(t, k, "RUNNING") /\ lost' = [lost EXCEPT ![t] = TRUE] /\ at' = [at EXCEPT ![t] = "raise"]
      BY <2>1, <3>1, <3>2, <1>1 DEF SkillStep, Go, TurnTypeOK
    <3> QED
      BY <2>1, <3>1, <3>3, <1>5, OrphanKeeps DEF SkillStep
  <2> QED
    BY <2>1, StartKeeps, QuietKeeps
<1>7. CASE Context(t)
  <2>1. k = 1
    BY <1>4, <1>7 DEF Context
  <2>2. CASE MayStart(t, k)
    BY <2>1, <2>2, <1>1, <1>2, <1>5, <1>7 DEF Context, Go, Start, Quietly, Starts, Started, StartWay, TurnTypeOK
  <2>3. CASE ~MayStart(t, k)
    BY <2>1, <2>3, <1>1, <1>2, <1>7 DEF Context, Go, Start, Quietly, Quiet, QuietWay, TurnTypeOK, PolicyNumber
  <2> QED
    BY <2>2, <2>3
<1>8. CASE Route(t)
  <2>1. k = 2 + attempt[t]
    BY <1>4, <1>8 DEF Route
  <2>2. CASE MayStart(t, k)
    BY <2>1, <2>2, <1>1, <1>2, <1>5, <1>8 DEF Route, Go, Start, Quietly, Starts, Started, StartWay, TurnTypeOK
  <2>3. CASE ~MayStart(t, k)
    BY <2>1, <2>3, <1>1, <1>2, <1>8 DEF Route, Go, Start, Quietly, Quiet, QuietWay, TurnTypeOK, PolicyNumber
  <2> QED
    BY <2>2, <2>3
<1>9. CASE Policy(t)
  <2>1. k = PolicyNumber(t)
    BY <1>4, <1>9 DEF Policy
  <2>2. CASE MayStart(t, k)
    BY <2>1, <2>2, <1>1, <1>2, <1>5, <1>9 DEF Policy, Go, Start, Quietly, Starts, Started, StartWay, TurnTypeOK
  <2>3. CASE ~MayStart(t, k)
    BY <2>1, <2>3, <1>1, <1>2, <1>9 DEF Policy, Go, Start, Quietly, Quiet, QuietWay, TurnTypeOK, PolicyNumber
  <2> QED
    BY <2>2, <2>3
<1>10. CASE Dispatch(t)
  <2>1. k = PolicyNumber(t) + 1
    BY <1>4, <1>10 DEF Dispatch
  <2>2. CASE MayStart(t, k)
    <3>1. k + 1 = PolicyNumber(t) + 2 /\ PolicyNumber(t) + 2 \in Nat
      BY <2>1, <1>1 DEF PolicyNumber, TurnTypeOK
    <3>2. m = k + 1
      BY <3>1, <1>1, <1>2, <1>10 DEF Dispatch, TurnTypeOK
    <3>3. Starts(t, k, y, x, a, m)
      BY <2>1, <2>2, <3>1, <1>1, <1>2, <1>5, <1>10, ZenonT(60) DEF Dispatch, Go, Start, Publish, Starts, Started, TurnTypeOK
    <3>4. StartWay(t, k, y, x, a, m)
      BY <2>1, <2>2, <3>2, <1>1, <1>2, <1>10 DEF Dispatch, Go, Start, Publish, StartWay, TurnTypeOK
    <3> QED
      BY <3>3, <3>4
  <2>3. CASE ~MayStart(t, k)
    BY <2>1, <2>3, <1>1, <1>2, <1>10 DEF Dispatch, Go, Start, Publish, Quiet, QuietWay, TurnTypeOK, PolicyNumber
  <2> QED
    BY <2>2, <2>3
<1>11. CASE SkillStep(t)
  <2>1. k = next[t]
    BY <1>4, <1>11 DEF SkillStep
  <2>2. CASE MayStart(t, k)
    BY <2>1, <2>2, <1>1, <1>2, <1>5, <1>11 DEF SkillStep, Go, Quietly, Starts, Started, StartWay, TurnTypeOK
  <2>3. CASE ~MayStart(t, k)
    BY <2>1, <2>3, <1>1, <1>2, <1>11 DEF SkillStep, Go, Quietly, Quiet, QuietWay, TurnTypeOK, PolicyNumber
  <2> QED
    BY <2>2, <2>3
<1> QED
  BY <1>7, <1>8, <1>9, <1>10, <1>11

\* The Run is created: the first write of a turn.
LEMMA IntakeKeeps ==
    ASSUME TurnIInv, NEW t \in Turns, Intake(t) \/ FixedIntake(t)
    PROVE  TurnIInv'
<1>1. TurnTypeOK /\ TurnInv(t)
  BY DEF TurnIInv
<1>2. PICK y, x : /\ y = at'[t] /\ x = lost'[t]
  OBVIOUS
<1>3. /\ at' = [at EXCEPT ![t] = y] /\ lost' = [lost EXCEPT ![t] = x] /\ x \in BOOLEAN
      /\ \/ y = "context" /\ ask[t] # "fixed"
         \/ y = "skill" /\ ask[t] = "fixed"
         \/ y = "stranded" /\ x
  BY <1>1, <1>2, ZenonT(60) DEF Intake, FixedIntake, Publish, Go, TurnTypeOK
<1>4. /\ run' = [run EXCEPT ![t] = "RUNNING"] /\ final' = [final EXCEPT ![t] = "none"] /\ at[t] = "intake"
      /\ UNCHANGED <<steps, basis, approval, ask, question, attempt, decision, next, open>>
      /\ session' \in [Sessions -> {"absent", "live", "expired", "deleted"}]
      /\ home' \in [Turns -> Sessions \cup {"none"}]
  <2>1. at[t] = "intake" /\ CreateRunningRun(t)
    BY DEF Intake, FixedIntake
  <2>2. PICK s \in Sessions : session' = [session EXCEPT ![s] = "live"] /\ home' = [home EXCEPT ![t] = s]
    BY <2>1 DEF CreateRunningRun
  <2>3. /\ session' \in [Sessions -> {"absent", "live", "expired", "deleted"}]
        /\ home' \in [Turns -> Sessions \cup {"none"}]
    BY <2>2, <1>1 DEF TurnTypeOK
  <2> QED
    BY <2>1, <2>3 DEF CreateRunningRun, Transition
<1>5. Moves(t)
  <2>1. TurnTypeOK'
    BY <1>1, <1>3, <1>4 DEF TurnTypeOK, Promise!RunTypeOK, Labels, Done
  <2>2. \A u \in Turns \ {t} : Same(u)
    BY <1>1, <1>3, <1>4 DEF TurnTypeOK, Promise!RunTypeOK, Same
  <2> QED
    BY <2>1, <2>2 DEF Moves
<1>6. at'[t] = y /\ lost'[t] = x /\ run'[t] = "RUNNING" /\ final'[t] = "none"
  BY <1>1, <1>3, <1>4 DEF TurnTypeOK, Promise!RunTypeOK
<1>7. /\ final[t] = "none" /\ approval[t] = "none" /\ steps[t] = <<>> /\ attempt[t] = 0 /\ next[t] = 1
      /\ open[t] = <<>> /\ run[t] = "NONE"
  BY <1>1, <1>4 DEF TurnInv, Placed, Depth, Unstarted
<1>8. Placed(t)' /\ RunOfTurn(t)' /\ RunOfApproval(t)'
  BY <1>3, <1>4, <1>6, <1>7 DEF Placed, RunOfTurn, RunOfApproval, Reviews, Unstarted, Decided
<1>9. StepsOpen(t)'
  <2>1. StepsOpen(t) /\ ~Orphaned(t) /\ run[t] # "GONE" /\ (AwaitsApproval(t)' <=> AwaitsApproval(t))
    BY <1>1, <1>4, <1>7 DEF TurnInv, Orphaned, AwaitsApproval
  <2> QED
    BY <2>1, <1>4, OpenKept
<1>10. Depth(t)' /\ Numbered(t)'
  <2>1. Len(steps'[t]) = 0 /\ Len(open'[t]) = 0
    BY <1>4, <1>7, EmptySeq
  <2> QED
    BY <2>1, <1>3, <1>4, <1>6, <1>7 DEF Depth, Numbered, Base
<1> QED
  BY <1>1, <1>5, <1>8, <1>9, <1>10, Moved DEF TurnInv

LEMMA SettledKind ==
    ASSUME TurnTypeOK, NEW t \in Turns, TurnInv(t), at[t] = "settle", ~Reviews(t)
    PROVE  ResultKind(t) \in Promise!Kinds /\ ResultKind(t) # "APPROVAL"
BY TurnAssumption DEF ResultKind, Reviews, TurnInv, Placed, Decided, TurnTypeOK, Decisions, Promise!Kinds

LEMMA SettleKeeps ==
    ASSUME TurnIInv, NEW t \in Turns, Succeed(t) \/ FixedSucceed(t)
    PROVE  TurnIInv'
<1>1. TurnTypeOK /\ TurnInv(t)
  BY DEF TurnIInv
<1>2. PICK y, x, r, k : y = at'[t] /\ x = lost'[t] /\ r = run'[t] /\ k = final'[t]
  OBVIOUS
<1>3. /\ at' = [at EXCEPT ![t] = y] /\ lost' = [lost EXCEPT ![t] = x] /\ x \in BOOLEAN /\ (lost[t] => x)
      /\ run' = [run EXCEPT ![t] = r] /\ final' = [final EXCEPT ![t] = k]
      /\ \/ run[t] = "RUNNING" /\ r = "SUCCEEDED" /\ k = ResultKind(t)
            /\ (y = "answered" \/ (y \in {"fail", "stranded"} /\ x))
         \/ run[t] # "RUNNING" /\ r = run[t] /\ k = final[t] /\ y \in {"fail", "stranded"}
  <2>1. PICK e \in {"fail", "stranded"} : Settle(t, e)
    BY DEF Succeed, FixedSucceed
  <2>2. CASE run[t] = "RUNNING"
    <3>1. /\ run' = [run EXCEPT ![t] = "SUCCEEDED"] /\ final' = [final EXCEPT ![t] = ResultKind(t)]
          /\ Publish(t, "answered", e)
      BY <2>1, <2>2 DEF Settle, Transition
    <3>2. r = "SUCCEEDED" /\ k = ResultKind(t)
      BY <3>1, <1>1, <1>2 DEF TurnTypeOK, Promise!RunTypeOK
    <3>3. /\ at' = [at EXCEPT ![t] = y] /\ lost' = [lost EXCEPT ![t] = x] /\ x \in BOOLEAN /\ (lost[t] => x)
          /\ y = "answered" \/ (y \in {"fail", "stranded"} /\ x)
      BY <3>1, <1>1, <1>2, ZenonT(60) DEF Publish, Go, TurnTypeOK
    <3> QED
      BY <2>2, <3>1, <3>2, <3>3
  <2>3. CASE run[t] # "RUNNING"
    <3>1. Go(t, e) /\ UNCHANGED <<run, final, lost>>
      BY <2>1, <2>3 DEF Settle, Transition
    <3> QED
      BY <2>3, <3>1, <1>1, <1>2 DEF Go, TurnTypeOK, Promise!RunTypeOK
  <2> QED
    BY <2>2, <2>3
<1>4. /\ at[t] = "settle" /\ ~Reviews(t)
      /\ attempt' = [attempt EXCEPT ![t] = 0] /\ next' = [next EXCEPT ![t] = 1] /\ open' = [open EXCEPT ![t] = <<>>]
      /\ UNCHANGED <<session, home, steps, basis, approval, ask, question, decision>>
  BY DEF Succeed, FixedSucceed, Settle, Return, Reviews
<1>5. ResultKind(t) \in Promise!Kinds /\ ResultKind(t) # "APPROVAL"
  BY <1>1, <1>4, SettledKind
<1>6. Moves(t)
  <2>1. open' \in [Turns -> Seq(Nat)]
    BY <1>1, <1>4 DEF TurnTypeOK
  <2>2. TurnTypeOK'
    BY <2>1, <1>1, <1>3, <1>4, <1>5 DEF TurnTypeOK, Promise!RunTypeOK, Labels, Done
  <2>3. \A u \in Turns \ {t} : Same(u)
    BY <1>1, <1>3, <1>4 DEF TurnTypeOK, Promise!RunTypeOK, Same
  <2> QED
    BY <2>2, <2>3 DEF Moves
<1>7. /\ at'[t] = y /\ lost'[t] = x /\ run'[t] = r /\ final'[t] = k /\ open'[t] = <<>> /\ open[t] = <<>>
      /\ ResultKind(t)' = ResultKind(t)
  BY <1>1, <1>3, <1>4 DEF TurnTypeOK, Promise!RunTypeOK, TurnInv, Depth, ResultKind
<1>8. approval[t] = "none" /\ run[t] \in {"RUNNING", "GONE"}
  <2>1. approval[t] = "none"
    BY <1>1, <1>4 DEF TurnInv, RunOfApproval
  <2> QED
    BY <2>1, <1>1, <1>4 DEF TurnInv, Placed, RunOfTurn, Unstarted
<1>9. Placed(t)'
  BY <1>1, <1>3, <1>4, <1>7, <1>8 DEF TurnInv, Placed, Unstarted, Decided
<1>10. RunOfTurn(t)'
  <2>1. ResultKind(t) # "none"
    BY <1>5 DEF Promise!Kinds
  <2>2. run[t] = "GONE" => final[t] = "none"
    BY <1>1 DEF TurnInv, Placed
  <2> QED
    BY <2>1, <2>2, <1>3, <1>5, <1>7, <1>8 DEF RunOfTurn
<1>11. RunOfApproval(t)'
  BY <1>4, <1>7, <1>8 DEF RunOfApproval, Reviews
<1>12. StepsOpen(t)'
  <2>1. /\ StepsOpen(t) /\ ~Orphaned(t) /\ (AwaitsApproval(t)' <=> AwaitsApproval(t))
        /\ steps'[t] = steps[t] /\ (run'[t] # "GONE" => run[t] # "GONE")
    BY <1>1, <1>3, <1>4, <1>7, <1>8 DEF TurnInv, Orphaned, AwaitsApproval
  <2> QED
    BY <2>1, <1>7, OpenReturned
<1>13. Depth(t)' /\ Numbered(t)'
  BY <1>3, <1>7 DEF Depth, Numbered
<1> QED
  BY <1>1, <1>6, <1>9, <1>10, <1>11, <1>12, <1>13, Moved DEF TurnInv

LEMMA FailKeeps ==
    ASSUME TurnIInv, NEW t \in Turns, Fail(t) \/ FixedFail(t)
    PROVE  TurnIInv'
<1>1. TurnTypeOK /\ TurnInv(t)
  BY DEF TurnIInv
<1>2. PICK r, k : r = run'[t] /\ k = final'[t]
  OBVIOUS
<1>3. /\ run' = [run EXCEPT ![t] = r] /\ final' = [final EXCEPT ![t] = k]
      /\ \/ run[t] = "RUNNING" /\ r = "FAILED" /\ k = "none"
         \/ run[t] # "RUNNING" /\ r = run[t] /\ k = final[t]
  BY <1>1, <1>2 DEF Fail, FixedFail, FailRun, Transition, TurnTypeOK, Promise!RunTypeOK
<1>4. /\ at[t] = "fail" /\ at' = [at EXCEPT ![t] = "failed"]
      /\ attempt' = [attempt EXCEPT ![t] = 0] /\ next' = [next EXCEPT ![t] = 1] /\ open' = [open EXCEPT ![t] = <<>>]
      /\ UNCHANGED <<session, home, steps, basis, approval, ask, question, decision, lost>>
  BY DEF Fail, FixedFail, Return, Go
<1>6. Moves(t)
  <2>1. open' \in [Turns -> Seq(Nat)]
    BY <1>1, <1>4 DEF TurnTypeOK
  <2>2. TurnTypeOK'
    BY <2>1, <1>1, <1>3, <1>4 DEF TurnTypeOK, Promise!RunTypeOK, Labels, Done
  <2>3. \A u \in Turns \ {t} : Same(u)
    BY <1>1, <1>3, <1>4 DEF TurnTypeOK, Promise!RunTypeOK, Same
  <2> QED
    BY <2>2, <2>3 DEF Moves
<1>7. /\ at'[t] = "failed" /\ run'[t] = r /\ final'[t] = k /\ open'[t] = <<>> /\ lost' = lost
  BY <1>1, <1>3, <1>4 DEF TurnTypeOK, Promise!RunTypeOK
<1>8. run[t] = "RUNNING" => approval[t] = "EXECUTING" \/ (approval[t] = "none" /\ final[t] = "none")
  BY <1>1, <1>4 DEF TurnInv, RunOfTurn, RunOfApproval, Overruled, TurnTypeOK
<1>9. Placed(t)'
  BY <1>1, <1>3, <1>4, <1>7, <1>8 DEF TurnInv, Placed, Unstarted, Decided
<1>10. RunOfTurn(t)'
  BY <1>1, <1>3, <1>4, <1>7, <1>8 DEF TurnInv, Placed, RunOfTurn, ResultKind, Unstarted
<1>11. RunOfApproval(t)'
  <2>1. RunOfApproval(t) /\ ~Overruled(t) /\ approval'[t] = approval[t] /\ (Reviews(t)' <=> Reviews(t))
        /\ lost'[t] = lost[t] /\ approval[t] \in {"none", "WAITING", "EXECUTING", "DONE"}
    BY <1>1, <1>4 DEF TurnInv, Overruled, Reviews, TurnTypeOK
  <2>2. CASE run[t] = "RUNNING"
    BY <2>1, <2>2, <1>3, <1>4, <1>7, <1>8 DEF RunOfApproval, Overruled
  <2>3. CASE run[t] # "RUNNING"
    <3>1. approval[t] \in {"none", "WAITING", "DONE"} \/ run[t] = "GONE"
      BY <2>1, <2>3 DEF RunOfApproval
    <3> QED
      BY <2>1, <2>3, <3>1, <1>3, <1>4, <1>7 DEF RunOfApproval
  <2> QED
    BY <2>2, <2>3
<1>12. StepsOpen(t)'
  <2>1. /\ StepsOpen(t) /\ (AwaitsApproval(t)' <=> AwaitsApproval(t))
        /\ steps'[t] = steps[t]
    BY <1>1, <1>4 DEF TurnInv, AwaitsApproval
  <2>2. Orphaned(t) => Orphaned(t)'
    BY <1>3, <1>4, <1>7 DEF Orphaned
  <2>3. run'[t] # "GONE" => run[t] # "GONE" /\ (open[t] = <<>> \/ Orphaned(t))
    BY <1>1, <1>3, <1>4, <1>7 DEF TurnInv, Depth
  <2> QED
    BY <2>1, <2>2, <2>3, <1>7, OpenReturned
<1>13. Depth(t)' /\ Numbered(t)'
  BY <1>7 DEF Depth, Numbered
<1> QED
  BY <1>1, <1>6, <1>9, <1>10, <1>11, <1>12, <1>13, Moved DEF TurnInv

\* The draft, its approval and its Step are saved together, or not at all.
LEMMA SaveKeeps ==
    ASSUME TurnIInv, NEW t \in Turns, SaveWaitingApproval(t)
    PROVE  TurnIInv'
<1>1. TurnTypeOK /\ TurnInv(t)
  BY DEF TurnIInv
<1> DEFINE Saved == run[t] = "RUNNING" /\ run[basis[t]] = "SUCCEEDED" /\ home[basis[t]] = home[t]
<1>2. CASE ~Saved
  <2>1. PICK y, x, d, a, m : y = "raise" /\ x = lost[t] /\ d = decision[t] /\ a = attempt[t] /\ m = next[t]
    OBVIOUS
  <2>2. /\ at[t] = "draft" /\ Go(t, "raise") /\ UNCHANGED <<approval, steps, run, final, lost>>
        /\ UNCHANGED <<session, home, basis, ask, question, attempt, decision, next, open>>
    BY <1>2 DEF SaveWaitingApproval
  <2>3. Quiet(t, y, x, d, a, m)
    BY <2>1, <2>2, <1>1 DEF Go, Quiet, TurnTypeOK
  <2>4. QuietWay(t, y, x, d)
    BY <2>1, <2>2 DEF QuietWay
  <2> QED
    BY <2>3, <2>4, QuietKeeps
<1>3. CASE Saved
  <2>1. /\ at[t] = "draft" /\ run[t] = "RUNNING"
        /\ approval' = [approval EXCEPT ![t] = "WAITING"]
        /\ SetStep(t, Max(DOMAIN steps[t]) + 1, "RUNNING")
        /\ run' = [run EXCEPT ![t] = "WAITING_APPROVAL"] /\ final' = [final EXCEPT ![t] = "APPROVAL"]
        /\ Publish(t, "close", "raise")
        /\ UNCHANGED <<session, home, basis, ask, question, attempt, decision, next, open>>
    BY <1>3 DEF SaveWaitingApproval, Transition
  <2>2. PICK y, x : y = at'[t] /\ x = lost'[t]
    OBVIOUS
  <2>3. /\ at' = [at EXCEPT ![t] = y] /\ lost' = [lost EXCEPT ![t] = x] /\ x \in BOOLEAN
        /\ y = "close" \/ (y = "raise" /\ x)
    BY <2>1, <2>2, <1>1, ZenonT(60) DEF Publish, Go, TurnTypeOK
  <2>4. /\ steps[t] \in Seq(StepStates) /\ steps[t] # <<>>
    <3>1. open[t] \in Seq(Nat) /\ Len(open[t]) = 1 /\ steps[t] \in Seq(StepStates)
      BY <1>1, <2>1 DEF TurnTypeOK, StepStates, TurnInv, Depth
    <3>2. open[t][1] \in DOMAIN steps[t]
      BY <1>1, <2>1, <3>1 DEF TurnInv, StepsOpen, Stacked
    <3>3. steps[t] = <<>> => ~(open[t][1] \in DOMAIN steps[t])
      BY EmptySeq
    <3> QED
      BY <3>1, <3>2, <3>3
  <2>5. Added(t)
    <3>1. PICK n : n = Len(steps[t]) + 1
      OBVIOUS
    <3>2. SetStep(t, n, "RUNNING") /\ "RUNNING" \in StepStates
      BY <2>1, <2>4, <3>1, MaxStep DEF StepStates
    <3> QED
      BY <1>1, <2>1, <3>1, <3>2, SetNew DEF Added
  <2>6. steps' \in [Turns -> Seq(StepStates)]
    BY <1>1, <2>5, AddedFacts
  <2>7. Moves(t)
    <3>1. TurnTypeOK'
      BY <1>1, <2>1, <2>3, <2>6 DEF TurnTypeOK, Promise!RunTypeOK, Promise!Kinds, StepStates, Labels
    <3>2. \A u \in Turns \ {t} : Same(u)
      BY <1>1, <2>1, <2>3, <2>5 DEF Added, TurnTypeOK, Promise!RunTypeOK, Same
    <3> QED
      BY <3>1, <3>2 DEF Moves
  <2>8. /\ at'[t] = y /\ lost'[t] = x /\ run'[t] = "WAITING_APPROVAL" /\ final'[t] = "APPROVAL"
        /\ approval'[t] = "WAITING"
    BY <1>1, <2>1, <2>3 DEF TurnTypeOK, Promise!RunTypeOK
  <2>9. Reviews(t) /\ Reviews(t)' /\ approval[t] = "none"
    BY <1>1, <2>1 DEF TurnInv, Placed, RunOfApproval, Reviews
  <2>10. Placed(t)' /\ RunOfTurn(t)'
    BY <1>1, <2>1, <2>3, <2>8, <2>9 DEF TurnInv, Placed, RunOfTurn, Reviews, Unstarted, Decided
  <2>11. RunOfApproval(t)'
    BY <2>3, <2>8, <2>9 DEF RunOfApproval
  <2>12. StepsOpen(t)'
    <3>1. /\ StepsOpen(t) /\ ~Orphaned(t) /\ run[t] # "GONE" /\ ~AwaitsApproval(t) /\ AwaitsApproval(t)'
      BY <1>1, <2>1, <2>8, <2>9 DEF TurnInv, Orphaned, AwaitsApproval
    <3> QED
      BY <3>1, <1>1, <2>5, OpenWaiting
  <2>13. Depth(t)' /\ Numbered(t)'
    BY <1>1, <2>1, <2>3, <2>8 DEF TurnInv, Depth, Numbered
  <2> QED
    BY <1>1, <2>7, <2>10, <2>11, <2>12, <2>13, Moved DEF TurnInv
<1> QED
  BY <1>2, <1>3

\* What the requests about an approval leave alone.
ApprovalMoves(t, r, s) ==
    /\ run' = [run EXCEPT ![t] = r] /\ final' = [final EXCEPT ![t] = "APPROVAL"]
    /\ approval' = [approval EXCEPT ![t] = s]
    /\ UNCHANGED <<session, home, basis, at, ask, question, attempt, decision, next, open, lost>>

LEMMA ApprovalKeeps ==
    ASSUME TurnIInv, NEW t \in Turns, NEW r, NEW s, ApprovalMoves(t, r, s),
           AwaitsApproval(t), run[t] # "GONE",
           \/ s = "EXECUTING" /\ r = "RUNNING" /\ approval[t] = "WAITING"
           \/ s = "DONE" /\ r \in {"SUCCEEDED", "FAILED", "CANCELLED"},
           steps' \in [Turns -> Seq(StepStates)], \A u \in Turns \ {t} : steps'[u] = steps[u], StepsOpen(t)'
    PROVE  TurnIInv'
<1>1. TurnTypeOK /\ TurnInv(t)
  BY DEF TurnIInv
<1>2. Moves(t)
  <2>1. TurnTypeOK'
    BY <1>1 DEF ApprovalMoves, TurnTypeOK, Promise!RunTypeOK, Promise!Kinds, StepStates
  <2>2. \A u \in Turns \ {t} : Same(u)
    BY <1>1 DEF ApprovalMoves, TurnTypeOK, Promise!RunTypeOK, Same
  <2> QED
    BY <2>1, <2>2 DEF Moves
<1>3. run'[t] = r /\ final'[t] = "APPROVAL" /\ approval'[t] = s /\ approval[t] # "none"
  BY <1>1 DEF ApprovalMoves, TurnTypeOK, Promise!RunTypeOK, AwaitsApproval
<1>4. /\ Reviews(t) /\ Reviews(t)' /\ at' = at /\ lost' = lost /\ open' = open /\ ask' = ask /\ attempt' = attempt
      /\ decision' = decision
      /\ at[t] \in {"close", "settle", "raise", "fail", "answered", "failed"}
  BY <1>1, <1>3 DEF ApprovalMoves, TurnInv, RunOfApproval, Reviews
<1>5. Placed(t)' /\ RunOfTurn(t)'
  BY <1>1, <1>3, <1>4 DEF TurnInv, Placed, RunOfTurn, Reviews, Unstarted, Decided
<1>6. RunOfApproval(t)'
  BY <1>1, <1>3, <1>4 DEF TurnInv, RunOfApproval, Overruled, AwaitsApproval
<1>7. Depth(t)' /\ Numbered(t)'
  <2>1. ~Orphaned(t)
    BY <1>3 DEF Orphaned
  <2> QED
    BY <2>1, <1>1, <1>4 DEF TurnInv, Depth, Numbered, Base
<1> QED
  BY <1>1, <1>2, <1>5, <1>6, <1>7, Moved DEF TurnInv

LEMMA ApprovalActions ==
    ASSUME TurnIInv, NEW t \in Turns, Confirm(t) \/ FinishApproval(t) \/ CancelApproval(t)
    PROVE  TurnIInv'
<1>1. TurnTypeOK /\ TurnInv(t)
  BY DEF TurnIInv
<1>2. PICK r, s : r = run'[t] /\ s = approval'[t]
  OBVIOUS
<1>3. AwaitsApproval(t) /\ run[t] \in {"WAITING_APPROVAL", "RUNNING"} /\ StepsOpen(t)
  BY <1>1 DEF Confirm, FinishApproval, CancelApproval, Transition, AwaitsApproval, TurnInv
<1>4. steps[t] \in Seq(StepStates) /\ steps[t] # <<>> /\ steps \in [Turns -> Seq(StepStates)]
  BY <1>1, <1>3 DEF StepsOpen, TurnTypeOK, StepStates
<1>5. Max(DOMAIN steps[t]) = Len(steps[t])
  BY <1>4, MaxStep
<1>6. CASE Confirm(t)
  <2>1. approval[t] = "WAITING" /\ s = "EXECUTING" /\ r = "RUNNING" /\ ApprovalMoves(t, r, s)
    BY <1>1, <1>2, <1>6 DEF Confirm, Transition, ApprovalMoves, locals, TurnTypeOK, Promise!RunTypeOK
  <2>2. LastReplaced(t)
    <3>1. PICK n : n = Len(steps[t])
      OBVIOUS
    <3>2. steps' = [steps EXCEPT ![t] =
                      [m \in 1..n + 1 |-> IF m = n THEN "ENDED" ELSE IF m = n + 1 THEN "RUNNING" ELSE steps[t][m]]]
      BY <1>5, <1>6, <3>1 DEF Confirm
    <3>3. [m \in 1..n + 1 |-> IF m = n THEN "ENDED" ELSE IF m = n + 1 THEN "RUNNING" ELSE steps[t][m]]
             = Append([steps[t] EXCEPT ![n] = "ENDED"], "RUNNING")
      BY <1>4, <3>1, Replaced
    <3>4. steps' = [steps EXCEPT ![t] = Append([steps[t] EXCEPT ![n] = "ENDED"], "RUNNING")]
      BY <3>2, <3>3
    <3> QED
      BY <3>1, <3>4, <2>1 DEF LastReplaced, ApprovalMoves
  <2>3. AwaitsApproval(t)'
    BY <2>1, <1>2 DEF AwaitsApproval
  <2>4. StepsOpen(t)' /\ steps' \in [Turns -> Seq(StepStates)]
    BY <1>1, <1>3, <2>2, <2>3, OpenReplaced
  <2>5. \A u \in Turns \ {t} : steps'[u] = steps[u]
    BY <1>4, <2>2 DEF LastReplaced
  <2> QED
    BY <1>3, <2>1, <2>4, <2>5, ApprovalKeeps
<1>7. CASE FinishApproval(t) \/ CancelApproval(t)
  <2>1. /\ s = "DONE" /\ r \in {"SUCCEEDED", "FAILED", "CANCELLED"} /\ ApprovalMoves(t, r, s)
    BY <1>1, <1>2, <1>7
       DEF FinishApproval, CancelApproval, Transition, ApprovalMoves, locals, TurnTypeOK, Promise!RunTypeOK
  <2>2. LastSet(t)
    <3>1. PICK n : n = Len(steps[t])
      OBVIOUS
    <3>2. SetStep(t, n, "ENDED") /\ n \in DOMAIN steps[t]
      <4>1. PICK l \in Nat : Len(steps[t]) = l /\ DOMAIN steps[t] = 1..l /\ l # 0
        BY <1>4, SeqFacts
      <4>2. n \in DOMAIN steps[t]
        BY <3>1, <4>1
      <4> QED
        BY <4>2, <1>5, <1>7, <3>1 DEF FinishApproval, CancelApproval
    <3> QED
      BY <1>1, <3>1, <3>2, <2>1, SetOld DEF LastSet, ApprovalMoves
  <2>3. ~AwaitsApproval(t)'
    BY <2>1, <1>2 DEF AwaitsApproval
  <2>4. StepsOpen(t)' /\ steps' \in [Turns -> Seq(StepStates)]
    BY <1>1, <1>3, <2>2, <2>3, OpenLast, LastSetFacts
  <2>5. \A u \in Turns \ {t} : steps'[u] = steps[u]
    BY <1>4, <2>2 DEF LastSet
  <2> QED
    BY <1>3, <2>1, <2>4, <2>5, ApprovalKeeps
<1> QED
  BY <1>6, <1>7

LEMMA DeleteKeeps ==
    ASSUME TurnIInv, NEW s \in Sessions, DeleteSession(s)
    PROVE  TurnIInv'
<1>1. TurnTypeOK /\ \A u \in Turns : TurnInv(u)
  BY DEF TurnIInv
<1>2. /\ run' = [t \in Turns |-> IF t \in InSession(s) THEN "GONE" ELSE run[t]]
      /\ final' = [t \in Turns |-> IF t \in InSession(s) THEN "none" ELSE final[t]]
      /\ steps' = [t \in Turns |-> IF t \in InSession(s) THEN <<>> ELSE steps[t]]
      /\ session' = [session EXCEPT ![s] = "deleted"]
      /\ UNCHANGED <<home, basis, approval, at, ask, question, attempt, decision, next, open, lost>>
  BY DEF DeleteSession, locals
<1>3. TurnTypeOK'
  <2>1. steps' \in [Turns -> Seq(StepStates)]
    BY <1>1, <1>2, EmptySeq DEF TurnTypeOK, StepStates
  <2> QED
    BY <2>1, <1>1, <1>2 DEF TurnTypeOK, Promise!RunTypeOK, StepStates
<1>4. ASSUME NEW u \in Turns
      PROVE  TurnInv(u)'
  <2>1. CASE u \notin InSession(s)
    <3>1. Same(u)
      BY <2>1, <1>2 DEF Same
    <3> QED
      BY <3>1, <1>1, SameKeeps
  <2>2. CASE u \in InSession(s)
    <3>1. run[u] # "NONE" /\ run'[u] = "GONE" /\ final'[u] = "none" /\ steps'[u] = <<>> /\ TurnInv(u)
      BY <2>2, <1>1, <1>2 DEF InSession
    <3>2. Placed(u)' /\ RunOfTurn(u)'
      BY <3>1, <1>2 DEF TurnInv, Placed, RunOfTurn, Reviews
    <3>3. RunOfApproval(u)' /\ StepsOpen(u)'
      BY <3>1, <1>2 DEF TurnInv, RunOfApproval, Overruled, Reviews, StepsOpen
    <3>4. Depth(u)' /\ Numbered(u)'
      BY <3>1, <1>2 DEF TurnInv, Depth, Base, Numbered
    <3> QED
      BY <3>2, <3>3, <3>4 DEF TurnInv
  <2> QED
    BY <2>1, <2>2
<1> QED
  BY <1>3, <1>4 DEF TurnIInv

LEMMA UntouchedKeeps ==
    ASSUME TurnIInv, UNCHANGED <<home, run, final, steps, basis, approval, locals>>,
           session' \in [Sessions -> {"absent", "live", "expired", "deleted"}]
    PROVE  TurnIInv'
<1>1. TurnTypeOK'
  BY DEF TurnIInv, TurnTypeOK, Promise!RunTypeOK, locals
<1>2. ASSUME NEW u \in Turns
      PROVE  TurnInv(u)'
  <2>1. Same(u) /\ TurnInv(u)
    BY DEF Same, locals, TurnIInv
  <2> QED
    BY <2>1, SameKeeps
<1> QED
  BY <1>1, <1>2 DEF TurnIInv

-----------------------------------------------------------------------------
(* The theorems                                                               *)

LEMMA TurnInitial == Init => TurnIInv
<1> SUFFICES ASSUME Init
             PROVE  TurnIInv
  OBVIOUS
<1>1. <<>> \in Seq(StepStates) /\ <<>> \in Seq(Nat) /\ DOMAIN <<>> = {}
  OBVIOUS
<1>2. TurnTypeOK
  BY <1>1 DEF Init, TurnTypeOK, Promise!RunTypeOK, StepStates, Labels
<1>3. ASSUME NEW t \in Turns
      PROVE  TurnInv(t)
  <2>1. /\ run[t] = "NONE" /\ final[t] = "none" /\ steps[t] = <<>> /\ approval[t] = "none" /\ at[t] = "idle"
        /\ ask[t] = "message" /\ attempt[t] = 0 /\ next[t] = 1 /\ open[t] = <<>>
    BY DEF Init
  <2>2. Placed(t) /\ RunOfTurn(t) /\ RunOfApproval(t)
    BY <2>1 DEF Placed, RunOfTurn, RunOfApproval, Reviews, Unstarted, Decided
  <2>3. StepsOpen(t)
    BY <1>1, <2>1 DEF StepsOpen, Stacked, Accounted, AwaitsApproval
  <2>4. Depth(t) /\ Numbered(t)
    BY <2>1 DEF Depth, Numbered
  <2> QED
    BY <2>2, <2>3, <2>4 DEF TurnInv
<1> QED
  BY <1>2, <1>3 DEF TurnIInv

LEMMA TurnNext ==
    ASSUME TurnIInv, [Next]_vars
    PROVE  TurnIInv'
<1>1. ASSUME NEW t \in Turns, CreateAgentMessage(t) \/ ContinueClarification(t) \/ DiagnoseOrder(t)
      PROVE  TurnIInv'
  <2>1. PICK kind \in {"message", "fixed", "choice"}, q \in Turns \cup {0} : Begin(t, kind, q)
    BY <1>1 DEF CreateAgentMessage, ContinueClarification, DiagnoseOrder
  <2> QED
    BY <2>1, BeginKeeps
<1>2. ASSUME NEW t \in Turns, Progress(t)
      PROVE  TurnIInv'
  <2>1. CASE Intake(t) \/ FixedIntake(t)
    BY <2>1, IntakeKeeps
  <2>2. CASE \/ Refuse(t) \/ Resume(t) \/ Save(t) \/ Remember(t) \/ Source(t)
             \/ SkillRaises(t) \/ SkillReturns(t) \/ FixedReturns(t) \/ RecordWaiting(t)
    BY <2>2, QuietActions
  <2>3. CASE Context(t) \/ Route(t) \/ Policy(t) \/ Dispatch(t) \/ SkillStep(t)
    BY <2>3, StartActions
  <2>4. CASE \/ Loaded(t) \/ Routed(t) \/ Misrouted(t) \/ ModelFails(t) \/ Policed(t)
             \/ SkillStepEnds(t) \/ (Unwind(t) /\ open[t] # <<>>) \/ Close(t)
    BY <2>4, FinishActions
  <2>5. CASE Unwind(t) /\ open[t] = <<>>
    <3>1. TurnTypeOK
      BY DEF TurnIInv
    <3>2. PICK y, x, d, a, n : y = "fail" /\ x = lost[t] /\ d = decision[t] /\ a = attempt[t] /\ n = next[t]
      OBVIOUS
    <3>3. Quiet(t, y, x, d, a, n) /\ QuietWay(t, y, x, d)
      BY <2>5, <3>1, <3>2 DEF Unwind, Go, Quiet, QuietWay, TurnTypeOK
    <3> QED
      BY <3>3, QuietKeeps
  <2>6. CASE SaveWaitingApproval(t)
    BY <2>6, SaveKeeps
  <2>7. CASE Succeed(t) \/ FixedSucceed(t)
    BY <2>7, SettleKeeps
  <2>8. CASE Fail(t) \/ FixedFail(t)
    BY <2>8, FailKeeps
  <2> QED
    BY <1>2, <2>1, <2>2, <2>3, <2>4, <2>5, <2>6, <2>7, <2>8 DEF Progress
<1>3. ASSUME NEW t \in Turns, Confirm(t) \/ FinishApproval(t) \/ CancelApproval(t)
      PROVE  TurnIInv'
  BY <1>3, ApprovalActions
<1>4. ASSUME NEW s \in Sessions, DeleteSession(s)
      PROVE  TurnIInv'
  BY <1>4, DeleteKeeps
<1>5. ASSUME NEW s \in Sessions, ExpireSession(s)
      PROVE  TurnIInv'
  <2>1. session' \in [Sessions -> {"absent", "live", "expired", "deleted"}]
    BY <1>5 DEF ExpireSession, TurnIInv, TurnTypeOK
  <2> QED
    BY <2>1, <1>5, UntouchedKeeps DEF ExpireSession
<1>6. CASE UNCHANGED vars
  <2>1. session' \in [Sessions -> {"absent", "live", "expired", "deleted"}]
    BY <1>6 DEF vars, rows, TurnIInv, TurnTypeOK
  <2> QED
    BY <2>1, <1>6, UntouchedKeeps DEF vars, rows
<1> QED
  BY <1>1, <1>2, <1>3, <1>4, <1>5, <1>6 DEF Next

\* The inductive invariant: how the Run, its result, its Steps, its approval and
\* the place in the code of AgentMessageService.execute go together.
THEOREM TurnInvariant == Spec => []TurnIInv
<1>1. Init => TurnIInv
  BY TurnInitial
<1>2. TurnIInv /\ [Next]_vars => TurnIInv'
  BY TurnNext
<1> QED
  BY <1>1, <1>2, PTL DEF Spec

\* Every variable keeps its type, and the Steps of a Run stay a sequence: no
\* counter of the turn ever leaves a gap in their numbers.
THEOREM TurnTypes == Spec => []TurnTypeOK
<1>1. TurnIInv => TurnTypeOK
  BY DEF TurnIInv
<1> QED
  BY <1>1, TurnInvariant, PTL

\* What the caller is told agrees with the record of the Run.
THEOREM TurnAnswers == Spec => []AnswerAgrees
<1>1. ASSUME TurnIInv
      PROVE  AnswerAgrees
  <2> SUFFICES ASSUME NEW t \in Turns
               PROVE  run[t] # "GONE" =>
                 /\ at[t] = "answered" =>
                       IF Reviews(t) THEN approval[t] # "none" /\ final[t] = "APPROVAL"
                       ELSE run[t] = "SUCCEEDED" /\ final[t] = ResultKind(t)
                 /\ at[t] = "failed" =>
                       \/ run[t] = "FAILED" /\ final[t] = "none"
                       \/ final[t] # "none" /\ (lost[t] \/ approval[t] = "DONE")
                 /\ at[t] \in {"answered", "failed", "refused"} /\ run[t] = "RUNNING" =>
                       approval[t] = "EXECUTING"
    BY DEF AnswerAgrees
  <2>1. Placed(t) /\ RunOfTurn(t) /\ RunOfApproval(t) /\ approval[t] \in {"none", "WAITING", "EXECUTING", "DONE"}
    BY <1>1 DEF TurnIInv, TurnInv, TurnTypeOK
  <2>2. CASE approval[t] = "none"
    BY <2>1, <2>2 DEF Placed, RunOfTurn, RunOfApproval, Unstarted
  <2>3. CASE approval[t] # "none"
    BY <2>1, <2>3 DEF RunOfApproval, Overruled
  <2> QED
    BY <2>2, <2>3
<1> QED
  BY <1>1, TurnInvariant, PTL

\* The Steps of a Run form one closed, gapless sequence: an ended turn leaves no
\* Step RUNNING unless its stream was lost or it failed its Run under the
\* execution of its approval, and three counters never disagree.
THEOREM TurnSteps == Spec => []StepsAgree
<1>1. ASSUME TurnIInv
      PROVE  StepsClosed
  <2> SUFFICES ASSUME NEW t \in Turns, at[t] \in Done, run[t] \in {"SUCCEEDED", "FAILED", "CANCELLED"},
                      NEW n \in DOMAIN steps[t], steps[t][n] = "RUNNING"
               PROVE  /\ run[t] = "FAILED"
                      /\ lost[t] \/ (approval[t] = "EXECUTING" /\ n = Len(steps[t]))
    BY DEF StepsClosed
  <2>1. TurnInv(t) /\ approval[t] \in {"none", "WAITING", "EXECUTING", "DONE"}
    BY <1>1 DEF TurnIInv, TurnTypeOK
  <2>2. open[t] = <<>> /\ DOMAIN <<>> = {}
    BY <2>1 DEF TurnInv, Depth, Done
  <2>3. Orphaned(t) \/ (AwaitsApproval(t) /\ n = Len(steps[t]))
    BY <2>1, <2>2 DEF TurnInv, StepsOpen, Accounted
  <2>4. CASE Orphaned(t)
    BY <2>1, <2>4 DEF TurnInv, RunOfTurn, Orphaned
  <2>5. CASE AwaitsApproval(t) /\ n = Len(steps[t])
    BY <2>1, <2>5 DEF TurnInv, RunOfApproval, Overruled, AwaitsApproval
  <2> QED
    BY <2>3, <2>4, <2>5
<1>2. ASSUME TurnIInv
      PROVE  StepsNumbered
  <2> SUFFICES ASSUME NEW t \in Turns, run[t] # "GONE"
               PROVE  /\ DOMAIN steps[t] = 1..Cardinality(DOMAIN steps[t])
                      /\ Pending(t) = Cardinality(DOMAIN steps[t]) + 1
    BY DEF StepsNumbered
  <2>1. TurnInv(t) /\ steps[t] \in Seq(StepStates) /\ attempt[t] \in Nat /\ next[t] \in Nat
    BY <1>1, <1>2 DEF TurnIInv, TurnTypeOK, StepStates
  <2>2. PICK l \in Nat : Len(steps[t]) = l /\ DOMAIN steps[t] = 1..l
    BY <2>1, SeqFacts
  <2>3. Cardinality(1..l) = l
    BY FS_Interval
  <2>4. Pending(t) = l + 1
    BY <2>1, <2>2, <2>3 DEF TurnInv, Numbered, Pending, PolicyNumber
  <2> QED
    BY <2>2, <2>3, <2>4
<1>3. TurnIInv => StepsAgree
  BY <1>1, <1>2 DEF StepsAgree
<1> QED
  BY <1>3, TurnInvariant, PTL

\* Step by step, the Run table of the turns keeps the promise of RunLifecycle.
LEMMA TurnStepsImplement ==
    ASSUME TurnIInv, [Next]_vars
    PROVE  Promise!RunNext \/ UNCHANGED <<run, final>>
<1>1. TurnTypeOK /\ \A t \in Turns : TurnInv(t)
  BY DEF TurnIInv
<1>2. ASSUME NEW t \in Turns, Intake(t) \/ FixedIntake(t)
      PROVE  Promise!RunNext
  <2>1. Promise!MarkRunning(t)
    BY <1>2 DEF Intake, FixedIntake, CreateRunningRun, Transition, Promise!MarkRunning, Promise!Transition
  <2> QED
    BY <2>1 DEF Promise!RunNext
<1>3. ASSUME NEW t \in Turns, SaveWaitingApproval(t)
      PROVE  Promise!RunNext \/ UNCHANGED <<run, final>>
  <2>1. CASE run[t] = "RUNNING" /\ Transition(t, "RUNNING", "WAITING_APPROVAL", "APPROVAL")
    <3>1. final[t] = "none"
      BY <1>1, <1>3, <2>1 DEF SaveWaitingApproval, TurnInv, RunOfTurn, RunOfApproval
    <3>2. Promise!MarkWaitingApproval(t)
      BY <2>1, <3>1 DEF Transition, Promise!MarkWaitingApproval, Promise!Transition
    <3> QED
      BY <3>2 DEF Promise!RunNext
  <2>2. CASE UNCHANGED <<run, final>>
    BY <2>2
  <2> QED
    BY <1>3, <2>1, <2>2 DEF SaveWaitingApproval
<1>4. ASSUME NEW t \in Turns, Succeed(t) \/ FixedSucceed(t)
      PROVE  Promise!RunNext \/ UNCHANGED <<run, final>>
  <2>1. PICK e \in {"fail", "stranded"} : Settle(t, e)
    BY <1>4 DEF Succeed, FixedSucceed
  <2>2. at[t] = "settle" /\ ~Reviews(t)
    BY <1>4 DEF Succeed, FixedSucceed, Reviews
  <2>3. CASE Transition(t, "RUNNING", "SUCCEEDED", ResultKind(t))
    <3>1. final[t] = "none"
      BY <1>1, <2>2, <2>3 DEF Transition, TurnInv, RunOfTurn, RunOfApproval
    <3>2. ResultKind(t) \in Promise!Kinds \ {"APPROVAL"}
      BY <1>1, <2>2, SettledKind
    <3>3. Promise!MarkSucceeded(t, ResultKind(t))
      BY <2>3, <3>1 DEF Transition, Promise!MarkSucceeded, Promise!Transition
    <3> QED
      BY <3>2, <3>3 DEF Promise!RunNext
  <2>4. CASE UNCHANGED <<run, final>>
    BY <2>4
  <2> QED
    BY <2>1, <2>3, <2>4 DEF Settle
<1>5. ASSUME NEW t \in Turns, Fail(t) \/ FixedFail(t)
      PROVE  Promise!RunNext \/ UNCHANGED <<run, final>>
  <2>1. at[t] = "fail" /\ FailRun(t)
    BY <1>5 DEF Fail, FixedFail
  <2>2. CASE Transition(t, "RUNNING", "FAILED", "none")
    <3>1. Promise!MarkFailed(t)
      BY <2>2 DEF Transition, Promise!MarkFailed, Promise!Transition
    <3> QED
      BY <3>1 DEF Promise!RunNext
  <2>3. CASE UNCHANGED <<run, final>>
    BY <2>3
  <2> QED
    BY <2>1, <2>2, <2>3 DEF FailRun
<1>6. ASSUME NEW t \in Turns, Progress(t)
      PROVE  Promise!RunNext \/ UNCHANGED <<run, final>>
  <2>1. CASE \/ Refuse(t) \/ Resume(t) \/ Save(t) \/ Remember(t) \/ Source(t)
             \/ SkillRaises(t) \/ SkillReturns(t) \/ FixedReturns(t) \/ RecordWaiting(t)
    BY <2>1 DEF Refuse, Resume, Save, Remember, Source, SkillRaises, SkillReturns, FixedReturns, RecordWaiting, rows
  <2>2. CASE \/ Context(t) \/ Route(t) \/ Policy(t) \/ Dispatch(t) \/ SkillStep(t)
             \/ Loaded(t) \/ Routed(t) \/ Misrouted(t) \/ ModelFails(t) \/ Policed(t)
             \/ SkillStepEnds(t) \/ Unwind(t) \/ Close(t)
    BY <2>2 DEF Context, Route, Policy, Dispatch, SkillStep, Loaded, Routed, Misrouted, ModelFails, Policed,
                SkillStepEnds, Unwind, Close
  <2> QED
    BY <1>2, <1>3, <1>4, <1>5, <1>6, <2>1, <2>2 DEF Progress
<1>7. ASSUME NEW t \in Turns, CreateAgentMessage(t) \/ ContinueClarification(t) \/ DiagnoseOrder(t)
      PROVE  UNCHANGED <<run, final>>
  BY <1>7 DEF CreateAgentMessage, ContinueClarification, DiagnoseOrder, Begin, rows
<1>8. ASSUME NEW t \in Turns, Confirm(t) \/ FinishApproval(t) \/ CancelApproval(t)
      PROVE  Promise!RunNext
  <2>1. approval[t] \in {"WAITING", "EXECUTING"} /\ run[t] \in {"RUNNING", "WAITING_APPROVAL"} /\ TurnInv(t)
    BY <1>1, <1>8 DEF Confirm, FinishApproval, CancelApproval, Transition
  <2>2. final[t] = "APPROVAL"
    BY <2>1 DEF TurnInv, RunOfApproval, Overruled
  <2>3. CASE Confirm(t)
    <3>1. Promise!ResumeApprovalExecution(t)
      BY <2>3 DEF Confirm, Transition, Promise!ResumeApprovalExecution, Promise!Transition
    <3> QED
      BY <3>1 DEF Promise!RunNext
  <2>4. CASE FinishApproval(t)
    <3>1. PICK s \in {"SUCCEEDED", "FAILED"} : Transition(t, "RUNNING", s, "APPROVAL")
      BY <2>4 DEF FinishApproval
    <3>2. Promise!FinishApprovalRun(t, "RUNNING", s)
      BY <2>2, <3>1 DEF Transition, Promise!FinishApprovalRun, Promise!Transition
    <3> QED
      BY <3>2 DEF Promise!RunNext
  <2>5. CASE CancelApproval(t)
    <3>1. PICK s \in {"CANCELLED", "FAILED"} : Transition(t, "WAITING_APPROVAL", s, "APPROVAL")
      BY <2>5 DEF CancelApproval
    <3>2. Promise!FinishApprovalRun(t, "WAITING_APPROVAL", s)
      BY <2>2, <3>1 DEF Transition, Promise!FinishApprovalRun, Promise!Transition
    <3> QED
      BY <3>2 DEF Promise!RunNext
  <2> QED
    BY <1>8, <2>3, <2>4, <2>5
<1>9. ASSUME NEW s \in Sessions, DeleteSession(s)
      PROVE  Promise!RunNext
  <2>1. InSession(s) \in SUBSET Turns /\ \A t \in InSession(s) : run[t] # "NONE"
    BY DEF InSession
  <2>2. Promise!Drop(InSession(s))
    BY <1>9, <2>1 DEF DeleteSession, Promise!Drop
  <2> QED
    BY <2>1, <2>2 DEF Promise!RunNext
<1>10. ASSUME NEW s \in Sessions, ExpireSession(s)
       PROVE  UNCHANGED <<run, final>>
  BY <1>10 DEF ExpireSession
<1>11. CASE UNCHANGED vars
  BY <1>11 DEF vars, rows
<1> QED
  BY <1>6, <1>7, <1>8, <1>9, <1>10, <1>11 DEF Next

\* The table of Runs, as turns, approvals and session requests leave it,
\* implements RunLifecycle: initial states map to initial states and every
\* step to a step of it or to a stutter.
THEOREM TurnImplementsRuns == Spec => ImplementsRuns
<1>1. Init => Promise!RunInit
  BY DEF Init, Promise!RunInit
<1>2. TurnIInv /\ [Next]_vars => [Promise!RunNext]_(Promise!runVars)
  BY TurnStepsImplement DEF Promise!runVars
<1> QED
  BY <1>1, <1>2, TurnInvariant, PTL DEF Spec, ImplementsRuns, Promise!RunSpec

============================================================================
