---- MODULE DemoLifecycle_proofs ----
(***************************************************************************)
(* Proofs about DemoLifecycle, for any demos, labels, transactions and     *)
(* terms.  The invariant speaks of a history by itself (GoodHistory) and   *)
(* of a row still to be inserted by what it was decided on (Follows): the  *)
(* first rows of the history, which never change again.  The primary key   *)
(* makes the row the next one after those or turns it away.                *)
(***************************************************************************)
EXTENDS DemoLifecycle, TLAPS

\* The row may come after the first n rows of h.
Follows(h, n, row) ==
    \/ n = 0 /\ row = FirstRow
    \/ /\ n > 0
       /\ \E to \in DemoStates \ {"PROVISIONING"} :
             TransitionAllowed(h[n], to) /\ row = Carried(h[n], to)
    \/ /\ n > 0 /\ TransitionAllowed(h[n], "PROVISIONING")
       /\ \E t \in Nat : row = Row(h[n].to, "PROVISIONING", t, t + LeaseDays, 0)
    \/ /\ n > 0 /\ h[n].to \in {"LIVE", "EXPIRING"} /\ ~ExtendedBy(h, n)
       /\ row = Extended(h[n])

\* The latest row: its term, and what its state says of an extension taken.
LastRow(L, taken) ==
    /\ L.to \in BeforeLease => L.issued = Null /\ L.ends = Null
    /\ L.to \in WithLease => L.issued \in Int /\ L.ends \in Int
    /\ L.issued = Null <=> L.ends = Null
    /\ L.issued # Null => L.ends > L.issued
    /\ L.to \in BeforeLease \cup {"PROVISIONING", "LIVE"} => ~taken
    /\ L.to = "EXTENDED" => taken
    /\ L.to = "REBUILDING" => L.from \in {"LIVE", "EXTENDED"}
    /\ L.to = "PROMOTING" => L.from \in {"LIVE", "EXTENDED", "EXPIRING"}
    /\ L.to \in {"REBUILDING", "PROMOTING"} /\ L.from = "LIVE" => ~taken
    /\ L.to \in {"REBUILDING", "PROMOTING"} /\ L.from = "EXTENDED" => taken

GoodHistory(h) ==
    /\ SameStart(h) /\ OneExtension(h) /\ ExactEnd(h)
    /\ h # <<>> => LastRow(h[Len(h)], ExtendedBy(h, Len(h)))

\* What a transaction holds after its read.
GoodJob(w) ==
    LET d == job[w].demo  n == job[w].seen
    IN  /\ pc[w] # "idle" => d \in Demos
        /\ pc[w] \in {"insert", "count"} => n <= Len(history[d])
        /\ pc[w] = "insert" => Follows(history[d], n, job[w].row)
        /\ pc[w] = "count" => /\ n > 0
                              /\ history[d][n].to \in {"LIVE", "EXPIRING"}
                              /\ job[w].row = Extended(history[d][n])

IInv ==
    /\ TypeOK
    /\ ~rejected
    /\ \A d \in Demos : GoodHistory(history[d])
    /\ \A w \in Workers : GoodJob(w)

--------------------------------------------------------------------------
(* Appending to a sequence.                                                *)

LEMMA AppendElements ==
    ASSUME NEW S, NEW h \in Seq(S), NEW r \in S
    PROVE  /\ Append(h, r) \in Seq(S)
           /\ Append(h, r) # <<>>
           /\ Len(Append(h, r)) = Len(h) + 1
           /\ Append(h, r)[Len(h) + 1] = r
           /\ \A i \in 1 .. Len(h) : Append(h, r)[i] = h[i]
  OBVIOUS

LEMMA EmptyLength ==
    ASSUME NEW S, NEW h \in Seq(S)
    PROVE  /\ Len(h) \in Nat
           /\ h = <<>> <=> Len(h) = 0
  OBVIOUS

LEMMA AppendExtended ==
    ASSUME NEW h \in Seq(Rows), NEW r \in Rows
    PROVE  /\ \A i \in 1 .. Len(h) : ExtendedBy(Append(h, r), i) <=> ExtendedBy(h, i)
           /\ ExtendedBy(Append(h, r), Len(h) + 1)
                  <=> ExtendedBy(h, Len(h)) \/ r.ext > 0
<1>1. /\ Len(h) \in Nat
      /\ Append(h, r)[Len(h) + 1] = r
      /\ \A i \in 1 .. Len(h) : Append(h, r)[i] = h[i]
  BY AppendElements, EmptyLength
<1>2. ASSUME NEW i \in 1 .. Len(h)
      PROVE  ExtendedBy(Append(h, r), i) <=> ExtendedBy(h, i)
  <2>1. \A k \in 1 .. i : Append(h, r)[k] = h[k]
    BY <1>1
  <2> QED
    BY <2>1 DEF ExtendedBy
<1>3. 1 .. (Len(h) + 1) = (1 .. Len(h)) \cup {Len(h) + 1}
  BY <1>1
<1>4. (\E k \in 1 .. Len(h) : Append(h, r)[k].ext > 0) <=> ExtendedBy(h, Len(h))
  BY <1>1 DEF ExtendedBy
<1>5. ExtendedBy(Append(h, r), Len(h) + 1)
        <=> (\E k \in 1 .. Len(h) : Append(h, r)[k].ext > 0)
            \/ Append(h, r)[Len(h) + 1].ext > 0
  BY <1>3 DEF ExtendedBy
<1> QED
  BY <1>1, <1>2, <1>4, <1>5

\* What a row was decided on does not change when others are appended.
LEMMA FollowsStable ==
    ASSUME NEW h \in Seq(Rows), NEW r \in Rows, NEW row \in Rows,
           NEW n \in 0 .. Len(h), Follows(h, n, row)
    PROVE  Follows(Append(h, r), n, row)
<1>1. Len(h) \in Nat
  BY EmptyLength
<1>2. CASE n = 0
  BY <1>2, Follows(h, n, row) DEF Follows
<1>3. CASE n > 0
  <2>1. n \in 1 .. Len(h)
    BY <1>1, <1>3
  <2>2. /\ Append(h, r)[n] = h[n]
        /\ ExtendedBy(Append(h, r), n) <=> ExtendedBy(h, n)
    BY <2>1, AppendElements, AppendExtended
  <2> QED
    BY <1>3, <2>2, Follows(h, n, row) DEF Follows
<1> QED
  BY <1>1, <1>2, <1>3

--------------------------------------------------------------------------
(* The closed set of moves, as far as the term depends on it.              *)

LEMMA MovesInto ==
    ASSUME NEW s \in DemoStates
    PROVE  /\ NextStates[s] = Exits[s] \cup (IF s \in SlotHolding THEN SafetyExits ELSE {})
           /\ "PROVISIONING" \in NextStates[s] => s = "CLAIMED"
           /\ "LIVE" \in NextStates[s] => s \in {"PROVISIONING", "REBUILDING", "PROMOTING"}
           /\ "REBUILDING" \in NextStates[s] => s \in {"LIVE", "EXTENDED"}
           /\ "PROMOTING" \in NextStates[s] => s \in {"LIVE", "EXTENDED", "EXPIRING"}
           /\ \A to \in BeforeLease : to \in NextStates[s] => s \in BeforeLease
           /\ \A to \in WithLease \ {"PROVISIONING"} :
                  to \in NextStates[s] => s \in WithLease
           /\ s \in {"LIVE", "EXPIRING"} => "EXTENDED" \in NextStates[s]
<1>1. NextStates[s] = Exits[s] \cup (IF s \in SlotHolding THEN SafetyExits ELSE {})
  BY DEF NextStates
<1> QED
  BY <1>1 DEF Exits, SlotHolding, SafetyExits, DemoStates, BeforeLease, WithLease

--------------------------------------------------------------------------
(* A row that follows the latest one.                                      *)

\* What the four kinds of row have to do with the row before.
Continues(L, taken, row) ==
    /\ row.from = L.to
    /\ row.to \in NextStates[L.to]
    /\ row.ext = 0 \/ row.ext = ExtensionDays
    /\ row.ext > 0 => row.to = "EXTENDED" /\ ~taken /\ L.issued \in Int
    /\ row.ext > 0 => L.to \in {"LIVE", "EXPIRING"}
    /\ row.to # "PROVISIONING" => row.issued = L.issued
    /\ row.to # "PROVISIONING" /\ row.ext = 0 => row.ends = L.ends
    /\ row.ext > 0 => row.ends = L.ends + ExtensionDays
    /\ row.to = "PROVISIONING" =>
          /\ L.issued = Null /\ ~taken /\ row.ext = 0
          /\ row.issued \in Int /\ row.ends = row.issued + LeaseDays
    /\ row.ext > 0 => LastRow(row, TRUE)
    /\ row.ext = 0 => LastRow(row, taken)

LEMMA FollowsLast ==
    ASSUME NEW h \in Seq(Rows), h # <<>>, NEW row \in Rows,
           Follows(h, Len(h), row), GoodHistory(h)
    PROVE  Continues(h[Len(h)], ExtendedBy(h, Len(h)), row)
<1> DEFINE L == h[Len(h)]
           taken == ExtendedBy(h, Len(h))
<1>1. /\ Len(h) \in Nat /\ Len(h) > 0 /\ Len(h) \in 1 .. Len(h)
      /\ L \in Rows
  BY EmptyLength
<1>2. LastRow(L, taken)
  BY DEF GoodHistory
<1>3. /\ L.to \in DemoStates
      /\ row.to \in DemoStates
      /\ ExtensionDays \in Nat /\ ExtensionDays > 0 /\ LeaseDays \in Nat /\ LeaseDays > 0
      /\ Null \notin Int
      /\ L.issued \in Int \cup {Null} /\ L.ends \in Int \cup {Null}
  BY <1>1, DemoAssumption DEF Rows, Times
<1>4. CASE \E to \in DemoStates \ {"PROVISIONING"} :
              TransitionAllowed(L, to) /\ row = Carried(L, to)
  <2>1. PICK to \in DemoStates \ {"PROVISIONING"} :
             TransitionAllowed(L, to) /\ row = Carried(L, to)
    BY <1>4
  <2>2. /\ row.from = L.to /\ row.to = to /\ row.ext = 0
        /\ row.issued = L.issued /\ row.ends = L.ends
    BY <2>1 DEF Carried, Row
  <2>3. /\ to \in NextStates[L.to]
        /\ to = "EXTENDED" => L.to \in {"PROMOTING", "REBUILDING"}
        /\ L.to = "PROMOTING" => to \in {"PROMOTED", L.from, "KILLED", "FROZEN"}
        /\ L.to = "REBUILDING" => to \in {"FAILED", L.from, "KILLED", "FROZEN"}
    BY <2>1 DEF TransitionAllowed, SafetyExits
  <2>4. LastRow(row, taken)
    BY <1>2, <1>3, <2>2, <2>3, MovesInto DEF LastRow, BeforeLease, WithLease
  <2> QED
    BY <2>2, <2>3, <2>4 DEF Continues
<1>5. CASE /\ TransitionAllowed(L, "PROVISIONING")
           /\ \E t \in Nat : row = Row(L.to, "PROVISIONING", t, t + LeaseDays, 0)
  <2>1. PICK t \in Nat : row = Row(L.to, "PROVISIONING", t, t + LeaseDays, 0)
    BY <1>5
  <2>2. /\ row.from = L.to /\ row.to = "PROVISIONING" /\ row.ext = 0
        /\ row.issued = t /\ row.ends = t + LeaseDays
    BY <2>1 DEF Row
  <2>3. "PROVISIONING" \in NextStates[L.to] /\ L.to = "CLAIMED"
    BY <1>3, <1>5, MovesInto DEF TransitionAllowed
  <2>4. L.issued = Null /\ ~taken
    BY <1>2, <2>3 DEF LastRow, BeforeLease
  <2>5. LastRow(row, taken)
    BY <1>3, <2>2, <2>4 DEF LastRow, BeforeLease, WithLease
  <2> QED
    BY <1>3, <2>2, <2>3, <2>4, <2>5 DEF Continues
<1>6. CASE L.to \in {"LIVE", "EXPIRING"} /\ ~taken /\ row = Extended(L)
  <2>1. /\ row.from = L.to /\ row.to = "EXTENDED" /\ row.ext = ExtensionDays
        /\ row.issued = L.issued /\ row.ends = L.ends + ExtensionDays
    BY <1>6 DEF Extended, Row
  <2>2. "EXTENDED" \in NextStates[L.to]
    BY <1>3, <1>6, MovesInto
  <2>3. L.issued \in Int /\ L.ends \in Int /\ L.ends > L.issued
    BY <1>2, <1>3, <1>6 DEF LastRow, WithLease
  <2>4. LastRow(row, TRUE)
    BY <1>3, <2>1, <2>3 DEF LastRow, BeforeLease, WithLease
  <2>5. row.ext > 0 /\ row.ext # 0 /\ row.to # "PROVISIONING"
    BY <1>3, <2>1
  <2> QED
    BY <1>6, <2>1, <2>2, <2>3, <2>4, <2>5 DEF Continues
<1> QED
  BY <1>1, <1>4, <1>5, <1>6, Follows(h, Len(h), row) DEF Follows

\* The first row of a history.
LEMMA FollowsNone ==
    ASSUME NEW h \in Seq(Rows), h = <<>>, NEW row, Follows(h, Len(h), row)
    PROVE  row = FirstRow
<1>1. Len(h) = 0
  BY EmptyLength
<1> QED
  BY <1>1, Follows(h, Len(h), row) DEF Follows

\* The checks of the table and its foreign key let the row in.
LEMMA FollowsAccepted ==
    ASSUME NEW d \in Demos, NEW row \in Rows, history[d] \in Seq(Rows),
           GoodHistory(history[d]), Follows(history[d], Len(history[d]), row)
    PROVE  Accepted(d, row)
<1>1. CASE history[d] = <<>>
  <2>1. row = FirstRow
    BY <1>1, FollowsNone
  <2>2. /\ row.from = "none" /\ row.to = "VERIFIED"
        /\ row.issued = Null /\ row.ends = Null /\ row.ext = 0
    BY <2>1 DEF FirstRow, Row
  <2> QED
    BY <1>1, <2>2 DEF Accepted, BeforeLease, WithLease
<1>2. CASE history[d] # <<>>
  <2>1. Continues(Latest(d), ExtendedBy(history[d], Len(history[d])), row)
    BY <1>2, FollowsLast DEF Latest
  <2>2. \/ row.ext = 0
        \/ row.ext > 0 /\ row.to = "EXTENDED"
    BY <2>1, DemoAssumption DEF Continues
  <2>3. \E taken \in BOOLEAN : LastRow(row, taken)
    BY <2>1, <2>2 DEF Continues, ExtendedBy
  <2>4. /\ row.to \in BeforeLease => row.issued = Null /\ row.ends = Null
        /\ row.to \in WithLease => row.issued \in Int /\ row.ends \in Int
        /\ row.issued = Null <=> row.ends = Null
        /\ row.issued # Null => row.ends > row.issued
    BY <2>3 DEF LastRow
  <2>5. /\ row.from = Latest(d).to
        /\ row.to \in NextStates[row.from]
        /\ row.to = "PROVISIONING" => row.ends = row.issued + LeaseDays
    BY <2>1 DEF Continues
  <2>6. Null \notin Int
    BY DemoAssumption
  <2> QED
    BY <1>2, <2>2, <2>4, <2>5, <2>6 DEF Accepted
<1> QED
  BY <1>1, <1>2

\* One more row leaves a history as it should be.
LEMMA FollowsKeeps ==
    ASSUME NEW h \in Seq(Rows), NEW row \in Rows,
           GoodHistory(h), Follows(h, Len(h), row)
    PROVE  GoodHistory(Append(h, row))
<1> DEFINE g == Append(h, row)
           n == Len(h)
<1>1. /\ n \in Nat
      /\ g \in Seq(Rows) /\ g # <<>>
      /\ Len(g) = n + 1 /\ g[n + 1] = row
      /\ \A i \in 1 .. n : g[i] = h[i]
      /\ \A i \in 1 .. n : h[i] \in Rows
      /\ 1 .. (n + 1) = (1 .. n) \cup {n + 1}
  BY AppendElements, EmptyLength
<1>2. /\ \A i \in 1 .. n : ExtendedBy(g, i) <=> ExtendedBy(h, i)
      /\ ExtendedBy(g, n + 1) <=> ExtendedBy(h, n) \/ row.ext > 0
  BY AppendExtended
<1>3. /\ ExtensionDays \in Nat /\ ExtensionDays > 0 /\ LeaseDays \in Nat /\ LeaseDays > 0
      /\ Null \notin Int
  BY DemoAssumption
<1>4. CASE h = <<>>
  <2>1. n = 0 /\ row = FirstRow
    BY <1>4, FollowsNone, EmptyLength
  <2>2. /\ row.from = "none" /\ row.to = "VERIFIED"
        /\ row.issued = Null /\ row.ends = Null /\ row.ext = 0
    BY <2>1 DEF FirstRow, Row
  <2>3. 1 .. Len(g) = {1} /\ g[1] = row
    BY <1>1, <2>1
  <2>4. ExtendedBy(g, 1) = FALSE
    BY <2>2, <2>3, <1>1, <2>1 DEF ExtendedBy
  <2>5. LastRow(row, FALSE)
    BY <2>2 DEF LastRow, BeforeLease, WithLease
  <2>6. LastRow(g[Len(g)], ExtendedBy(g, Len(g)))
    BY <1>1, <2>1, <2>3, <2>4, <2>5
  <2>7. SameStart(g) /\ OneExtension(g) /\ ExactEnd(g)
    BY <2>2, <2>3 DEF SameStart, OneExtension, ExactEnd
  <2> QED
    BY <2>6, <2>7 DEF GoodHistory
<1>5. CASE h # <<>>
  <2>1. /\ n > 0 /\ n \in 1 .. n
        /\ Continues(h[n], ExtendedBy(h, n), row)
        /\ LastRow(h[n], ExtendedBy(h, n))
        /\ SameStart(h) /\ OneExtension(h) /\ ExactEnd(h)
    BY <1>5, EmptyLength, FollowsLast DEF GoodHistory
  <2> DEFINE L == h[n]
  <2>2. SameStart(g)
    <3>1. SUFFICES ASSUME NEW i \in 1 .. n, h[i].issued # Null
                   PROVE  row.issued = h[i].issued
      BY <1>1, <2>1 DEF SameStart
    <3>2. L.issued = h[i].issued
      BY <3>1, <1>1, <2>1 DEF SameStart
    <3> QED
      BY <3>1, <3>2, <2>1 DEF Continues
  <2>3. OneExtension(g)
    <3>1. SUFFICES ASSUME NEW i \in 1 .. n, h[i].ext > 0
                   PROVE  row.ext = 0 /\ row.ends = h[i].ends
      BY <1>1, <2>1 DEF OneExtension
    <3>2. ExtendedBy(h, n)
      BY <3>1 DEF ExtendedBy
    <3>3. L.ends = h[i].ends
      BY <3>1, <1>1, <2>1 DEF OneExtension
    <3>4. row.ext = 0 /\ row.to # "PROVISIONING"
      BY <3>2, <2>1, <1>3 DEF Continues
    <3> QED
      BY <3>3, <3>4, <2>1 DEF Continues
  <2>4. ExactEnd(g)
    <3>1. SUFFICES ASSUME row.issued # Null
                   PROVE  row.ends = row.issued + LeaseDays
                              + (IF ExtendedBy(g, n + 1) THEN ExtensionDays ELSE 0)
      BY <1>1, <1>2, <2>1 DEF ExactEnd
    <3>2. L.issued # Null => /\ L.issued \in Int
                             /\ L.ends = L.issued + LeaseDays
                                  + (IF ExtendedBy(h, n) THEN ExtensionDays ELSE 0)
      BY <1>1, <2>1 DEF ExactEnd, Rows, Times
    <3>3. CASE row.to = "PROVISIONING"
      BY <3>3, <1>2, <1>3, <2>1 DEF Continues
    <3>4. CASE row.to # "PROVISIONING" /\ row.ext = 0
      BY <3>1, <3>2, <3>4, <1>2, <1>3, <2>1 DEF Continues
    <3>5. CASE row.ext > 0
      <4>1. /\ ~ExtendedBy(h, n) /\ L.issued \in Int
            /\ row.issued = L.issued /\ row.ends = L.ends + ExtensionDays
        BY <3>5, <2>1 DEF Continues
      <4>2. ExtendedBy(g, n + 1)
        BY <3>5, <1>2
      <4> QED
        BY <4>1, <4>2, <3>1, <3>2, <1>3
    <3>6. row.ext = 0 \/ row.ext > 0
      BY <2>1, <1>3 DEF Continues
    <3> QED
      BY <3>3, <3>4, <3>5, <3>6
  <2>5. LastRow(row, ExtendedBy(g, n + 1))
    <3>1. CASE row.ext = 0
      <4>1. ExtendedBy(g, n + 1) = ExtendedBy(h, n)
        BY <3>1, <1>2 DEF ExtendedBy
      <4> QED
        BY <3>1, <4>1, <2>1 DEF Continues
    <3>2. CASE row.ext > 0
      <4>1. ExtendedBy(g, n + 1) = TRUE
        BY <3>2, <1>2 DEF ExtendedBy
      <4> QED
        BY <3>2, <4>1, <2>1 DEF Continues
    <3> QED
      BY <3>1, <3>2, <2>1, <1>3 DEF Continues
  <2> QED
    BY <1>1, <2>2, <2>3, <2>4, <2>5 DEF GoodHistory
<1> QED
  BY <1>4, <1>5

--------------------------------------------------------------------------
(* Init establishes the invariant.                                         *)

LEMMA EmptyGood == GoodHistory(<<>>)
<1>1. Len(<<>>) = 0 /\ 1 .. 0 = {}
  OBVIOUS
<1> QED
  BY <1>1 DEF GoodHistory, SameStart, OneExtension, ExactEnd

LEMMA RowsHold ==
    /\ FirstRow \in Rows
    /\ Idle \in [op : Ops \cup {"none"}, demo : Demos \cup {Null},
                 start : Nat, seen : Nat, row : Rows]
<1>1. FirstRow \in Rows
  BY DEF FirstRow, Row, Rows, Times, DemoStates
<1> QED
  BY <1>1 DEF Idle

LEMMA InitInv == Init => IInv
<1> SUFFICES ASSUME Init PROVE IInv
  OBVIOUS
<1>1. history \in [Demos -> Seq(Rows)]
  BY DEF Init
<1>2. job \in [Workers -> [op : Ops \cup {"none"}, demo : Demos \cup {Null},
                           start : Nat, seen : Nat, row : Rows]]
  BY RowsHold DEF Init
<1>3. /\ register \in [Labels -> Demos \cup {Null}]
      /\ retired \subseteq {l \in Labels : register[l] # Null}
      /\ clock \in Nat /\ rejected \in BOOLEAN /\ ~rejected
      /\ pc \in [Workers -> {"idle", "begun", "count", "insert", "name"}]
  BY DEF Init
<1>4. \A d \in Demos : GoodHistory(history[d])
  BY EmptyGood DEF Init
<1>5. \A w \in Workers : GoodJob(w)
  BY DEF Init, GoodJob
<1> QED
  BY <1>1, <1>2, <1>3, <1>4, <1>5 DEF IInv, TypeOK

--------------------------------------------------------------------------
(* What the reads leave behind.                                            *)

\* The job of worker w alone is replaced.
LEMMA OthersJobs ==
    ASSUME NEW w \in Workers, NEW p, NEW j,
           IInv, history' = history,
           pc' = [pc EXCEPT ![w] = p], job' = [job EXCEPT ![w] = j]
    PROVE  \A v \in Workers \ {w} : GoodJob(v)'
<1> SUFFICES ASSUME NEW v \in Workers, v # w
             PROVE  GoodJob(v)'
  OBVIOUS
<1>1. pc'[v] = pc[v] /\ job'[v] = job[v]
  BY DEF IInv, TypeOK
<1>2. GoodJob(v)
  BY DEF IInv
<1> QED
  BY <1>1, <1>2 DEF GoodJob

\* A step of w that leaves the tables and keeps its job well formed.
LEMMA ReadKeeps ==
    ASSUME NEW w \in Workers,
           NEW p \in {"idle", "begun", "count", "insert", "name"},
           NEW j \in [op : Ops \cup {"none"}, demo : Demos \cup {Null},
                      start : Nat, seen : Nat, row : Rows],
           IInv, history' = history, rejected' = rejected,
           register' \in [Labels -> Demos \cup {Null}],
           retired' \subseteq {l \in Labels : register'[l] # Null},
           clock' = clock,
           pc' = [pc EXCEPT ![w] = p], job' = [job EXCEPT ![w] = j],
           p # "idle" => j.demo \in Demos,
           p = "insert" => /\ j.seen <= Len(history[j.demo])
                           /\ Follows(history[j.demo], j.seen, j.row),
           p = "count" => /\ j.seen <= Len(history[j.demo]) /\ j.seen > 0
                          /\ history[j.demo][j.seen].to \in {"LIVE", "EXPIRING"}
                          /\ j.row = Extended(history[j.demo][j.seen])
    PROVE  IInv'
<1>1. /\ pc'[w] = p /\ job'[w] = j
      /\ pc' \in [Workers -> {"idle", "begun", "count", "insert", "name"}]
      /\ job' \in [Workers -> [op : Ops \cup {"none"}, demo : Demos \cup {Null},
                               start : Nat, seen : Nat, row : Rows]]
  BY DEF IInv, TypeOK
<1>2. TypeOK'
  BY <1>1 DEF IInv, TypeOK
<1>3. GoodJob(w)'
  BY <1>1 DEF GoodJob
<1>4. \A v \in Workers : GoodJob(v)'
  BY <1>3, OthersJobs
<1> QED
  BY <1>2, <1>4 DEF IInv

LEMMA EndsKeeps ==
    ASSUME NEW w \in Workers, IInv, Ends(w), UNCHANGED <<Tables, clock>>
    PROVE  IInv'
<1>1. Idle.demo = Null
  BY DEF Idle
<1>2. /\ register' \in [Labels -> Demos \cup {Null}]
      /\ retired' \subseteq {l \in Labels : register'[l] # Null}
  BY DEF Tables, IInv, TypeOK
<1> QED
  BY <1>2, RowsHold, ReadKeeps DEF Ends, Goes, Tables

\* The latest row of a history, and the facts of it the reads need.
LEMMA LatestRow ==
    ASSUME NEW d \in Demos, IInv, history[d] # <<>>
    PROVE  /\ Len(history[d]) \in Nat /\ Len(history[d]) > 0
           /\ Latest(d) \in Rows
           /\ LastRow(Latest(d), ExtendedBy(history[d], Len(history[d])))
<1>1. history[d] \in Seq(Rows)
  BY DEF IInv, TypeOK
<1>2. Len(history[d]) \in Nat /\ Len(history[d]) > 0
  BY <1>1, EmptyLength
<1>3. history[d][Len(history[d])] \in Rows
  BY <1>1, <1>2
<1>4. GoodHistory(history[d])
  BY DEF IInv
<1> QED
  BY <1>2, <1>3, <1>4 DEF Latest, GoodHistory

LEMMA AppendsKeeps ==
    ASSUME NEW w \in Workers, NEW d \in Demos, NEW row \in Rows,
           NEW p \in {"insert", "count"}, IInv, history[d] # <<>>,
           Appends(w, d, p, row), UNCHANGED <<Tables, clock>>,
           p = "insert" => Follows(history[d], Len(history[d]), row),
           p = "count" => /\ Latest(d).to \in {"LIVE", "EXPIRING"}
                          /\ row = Extended(Latest(d))
    PROVE  IInv'
<1> DEFINE j == [Idle EXCEPT !.demo = d, !.seen = Len(history[d]), !.row = row]
<1>1. Len(history[d]) \in Nat /\ Len(history[d]) > 0
  BY LatestRow
<1>2. /\ j \in [op : Ops \cup {"none"}, demo : Demos \cup {Null},
                start : Nat, seen : Nat, row : Rows]
      /\ j.demo = d /\ j.seen = Len(history[d]) /\ j.row = row
  BY <1>1, RowsHold
<1>3. /\ register' \in [Labels -> Demos \cup {Null}]
      /\ retired' \subseteq {l \in Labels : register'[l] # Null}
      /\ history' = history /\ rejected' = rejected /\ clock' = clock
  BY DEF Tables, IInv, TypeOK
<1>4. pc' = [pc EXCEPT ![w] = p] /\ job' = [job EXCEPT ![w] = j]
  BY DEF Appends, Goes
<1> HIDE DEF j
<1>5. p = "insert" => /\ j.seen <= Len(history[j.demo])
                      /\ Follows(history[j.demo], j.seen, j.row)
  BY <1>1, <1>2
<1>6. p = "count" => /\ j.seen <= Len(history[j.demo]) /\ j.seen > 0
                     /\ history[j.demo][j.seen].to \in {"LIVE", "EXPIRING"}
                     /\ j.row = Extended(history[j.demo][j.seen])
  BY <1>1, <1>2 DEF Latest
<1>7. j.demo \in Demos /\ p \in {"idle", "begun", "count", "insert", "name"}
  BY <1>2
<1> QED
  BY <1>2, <1>3, <1>4, <1>5, <1>6, <1>7, ReadKeeps

\* A begun transaction has a demo, whose history is a sequence of rows.
LEMMA BegunDemo ==
    ASSUME NEW w \in Workers, IInv, pc[w] # "idle"
    PROVE  /\ job[w].demo \in Demos
           /\ job[w] \in [op : Ops \cup {"none"}, demo : Demos \cup {Null},
                          start : Nat, seen : Nat, row : Rows]
           /\ history[job[w].demo] \in Seq(Rows)
<1>1. GoodJob(w)
  BY DEF IInv
<1>2. job[w].demo \in Demos
  BY <1>1 DEF GoodJob
<1> QED
  BY <1>2 DEF IInv, TypeOK

--------------------------------------------------------------------------
(* One lemma for each step.                                                *)

LEMMA RunKeeps ==
    ASSUME NEW w \in Workers, NEW d \in Demos, NEW op \in Ops, IInv, Run(w, d, op)
    PROVE  IInv'
<1> DEFINE j == [Idle EXCEPT !.op = op, !.demo = d, !.start = clock]
           p == IF op = "beginDemo" THEN "insert" ELSE "begun"
<1>1. /\ history[d] \in Seq(Rows) /\ clock \in Nat
      /\ register \in [Labels -> Demos \cup {Null}]
      /\ retired \subseteq {l \in Labels : register[l] # Null}
  BY DEF IInv, TypeOK
<1>2. Len(history[d]) \in Nat
  BY <1>1, EmptyLength
<1>3. /\ j \in [op : Ops \cup {"none"}, demo : Demos \cup {Null},
                start : Nat, seen : Nat, row : Rows]
      /\ j.demo = d /\ j.seen = 0 /\ j.row = FirstRow
  BY <1>1, RowsHold DEF Idle
<1>4. Follows(history[d], 0, FirstRow)
  BY DEF Follows
<1>5. /\ pc' = [pc EXCEPT ![w] = p] /\ job' = [job EXCEPT ![w] = j]
      /\ history' = history /\ rejected' = rejected /\ clock' = clock
      /\ register' = register /\ retired' = retired
  BY DEF Run, Goes, Tables
<1>6. p \in {"begun", "insert"}
  OBVIOUS
<1> HIDE DEF j, p
<1>7. p = "insert" => /\ j.seen <= Len(history[j.demo])
                      /\ Follows(history[j.demo], j.seen, j.row)
  BY <1>2, <1>3, <1>4
<1>8. /\ j.demo \in Demos /\ p # "count"
      /\ p \in {"idle", "begun", "count", "insert", "name"}
  BY <1>3, <1>6
<1> QED
  BY <1>1, <1>3, <1>5, <1>7, <1>8, ReadKeeps

LEMMA ReadTransitionKeeps ==
    ASSUME NEW w \in Workers, NEW to \in DemoStates, IInv, ReadTransition(w, to)
    PROVE  IInv'
<1> DEFINE d == job[w].demo
           L == Latest(d)
           row == IF to = "PROVISIONING" THEN Issued(w, L) ELSE Carried(L, to)
<1>1. pc[w] = "begun" /\ UNCHANGED <<Tables, clock>>
  BY DEF ReadTransition
<1>2. d \in Demos /\ job[w].start \in Nat
  BY <1>1, BegunDemo
<1>3. CASE history[d] # <<>> /\ TransitionAllowed(L, to)
  <2>1. /\ Len(history[d]) > 0 /\ L \in Rows
    BY <1>2, <1>3, LatestRow
  <2>2. row \in Rows
    <3>1. CASE to = "PROVISIONING"
      <4>1. job[w].start + LeaseDays \in Int
        BY <1>2, DemoAssumption
      <4> QED
        BY <3>1, <4>1, <1>2, <2>1 DEF Issued, Row, Rows, Times
    <3>2. CASE to # "PROVISIONING"
      BY <3>2, <2>1 DEF Carried, Row, Rows
    <3> QED
      BY <3>1, <3>2
  <2>3. Follows(history[d], Len(history[d]), row)
    <3>1. CASE to = "PROVISIONING"
      BY <3>1, <1>2, <1>3, <2>1 DEF Follows, Issued, Latest
    <3>2. CASE to # "PROVISIONING"
      BY <3>2, <1>3, <2>1 DEF Follows, Latest
    <3> QED
      BY <3>1, <3>2
  <2>4. Appends(w, d, "insert", row)
    BY <1>3 DEF ReadTransition
  <2> HIDE DEF row
  <2> QED
    BY <1>1, <1>2, <1>3, <2>2, <2>3, <2>4, AppendsKeeps
<1>4. CASE ~(history[d] # <<>> /\ TransitionAllowed(L, to))
  BY <1>1, <1>4, EndsKeeps DEF ReadTransition
<1> QED
  BY <1>3, <1>4

LEMMA ReadExtendKeeps ==
    ASSUME NEW w \in Workers, IInv, ReadExtend(w)
    PROVE  IInv'
<1> DEFINE d == job[w].demo
           L == Latest(d)
<1>1. pc[w] = "begun" /\ UNCHANGED <<Tables, clock>>
  BY DEF ReadExtend
<1>2. d \in Demos
  BY <1>1, BegunDemo
<1>3. CASE history[d] # <<>> /\ L.to \in {"LIVE", "EXPIRING"}
  <2>1. L \in Rows /\ L.issued \in Int /\ L.ends \in Int
    BY <1>2, <1>3, LatestRow DEF LastRow, WithLease
  <2>2. L.ends + ExtensionDays \in Int
    BY <2>1, DemoAssumption
  <2>3. Extended(L) \in Rows
    BY <2>1, <2>2 DEF Extended, Row, Rows, Times, DemoStates
  <2>4. Appends(w, d, "count", Extended(L))
    BY <1>3 DEF ReadExtend
  <2> QED
    BY <1>1, <1>2, <1>3, <2>3, <2>4, AppendsKeeps
<1>4. CASE ~(history[d] # <<>> /\ L.to \in {"LIVE", "EXPIRING"})
  BY <1>1, <1>4, EndsKeeps DEF ReadExtend
<1> QED
  BY <1>3, <1>4

LEMMA CountExtensionsKeeps ==
    ASSUME NEW w \in Workers, IInv, CountExtensions(w)
    PROVE  IInv'
<1> DEFINE j == job[w]
           d == j.demo
<1>1. pc[w] = "count" /\ UNCHANGED <<Tables, clock>>
  BY DEF CountExtensions
<1>2. /\ d \in Demos /\ history[d] \in Seq(Rows)
      /\ j \in [op : Ops \cup {"none"}, demo : Demos \cup {Null},
                start : Nat, seen : Nat, row : Rows]
  BY <1>1, BegunDemo
<1>3. CASE Taken(d)
  BY <1>1, <1>3, EndsKeeps DEF CountExtensions
<1>4. CASE ~Taken(d)
  <2>1. /\ j.seen \in Nat /\ j.seen > 0 /\ j.seen <= Len(history[d])
        /\ history[d][j.seen].to \in {"LIVE", "EXPIRING"}
        /\ j.row = Extended(history[d][j.seen])
    BY <1>1, <1>2 DEF IInv, GoodJob
  <2>2. Len(history[d]) \in Nat
    BY <1>2, EmptyLength
  <2>3. ~ExtendedBy(history[d], j.seen)
    BY <1>4, <2>1, <2>2 DEF Taken, ExtendedBy
  <2>4. Follows(history[d], j.seen, j.row)
    BY <2>1, <2>3 DEF Follows
  <2>5. pc' = [pc EXCEPT ![w] = "insert"] /\ job' = job
    BY <1>4 DEF CountExtensions, Goes
  <2>6. job' = [job EXCEPT ![w] = j]
    BY <2>5 DEF IInv, TypeOK
  <2>7. /\ history' = history /\ rejected' = rejected /\ clock' = clock
        /\ register' \in [Labels -> Demos \cup {Null}]
        /\ retired' \subseteq {l \in Labels : register'[l] # Null}
    BY <1>1 DEF Tables, IInv, TypeOK
  <2>8. /\ "insert" \in {"idle", "begun", "count", "insert", "name"}
        /\ "insert" # "count"
    OBVIOUS
  <2> HIDE DEF j
  <2> QED
    BY <1>2, <2>1, <2>4, <2>5, <2>6, <2>7, <2>8, ReadKeeps
<1> QED
  BY <1>3, <1>4

\* The row appended to d's history: what the others hold of it still stands.
LEMMA AppendKeepsJobs ==
    ASSUME NEW w \in Workers, NEW d \in Demos, NEW row \in Rows, IInv,
           history' = [history EXCEPT ![d] = Append(@, row)], Ends(w)
    PROVE  \A v \in Workers : GoodJob(v)'
<1>1. \A e \in Demos : history[e] \in Seq(Rows)
  BY DEF IInv, TypeOK
<1>2. history'[d] = Append(history[d], row)
      /\ \A e \in Demos \ {d} : history'[e] = history[e]
  BY DEF IInv, TypeOK
<1>3. ASSUME NEW v \in Workers PROVE GoodJob(v)'
  <2>1. CASE v = w
    <3>1. pc'[w] = "idle"
      BY DEF Ends, Goes, IInv, TypeOK
    <3> QED
      BY <2>1, <3>1 DEF GoodJob
  <2>2. CASE v # w
    <3>1. pc'[v] = pc[v] /\ job'[v] = job[v]
      BY <2>2 DEF Ends, Goes, IInv, TypeOK
    <3>2. GoodJob(v) /\ job[v].seen \in Nat /\ job[v].row \in Rows
      BY DEF IInv, TypeOK
    <3>3. CASE job[v].demo # d \/ pc[v] \notin {"insert", "count"}
      BY <1>2, <3>1, <3>2, <3>3 DEF GoodJob
    <3>4. CASE job[v].demo = d /\ pc[v] \in {"insert", "count"}
      <4> DEFINE h == history[d]
                 n == job[v].seen
      <4>1. /\ h \in Seq(Rows) /\ Len(h) \in Nat /\ n \in 0 .. Len(h)
            /\ Len(Append(h, row)) = Len(h) + 1
            /\ \A i \in 1 .. Len(h) : Append(h, row)[i] = h[i]
        BY <1>1, <3>2, <3>4, AppendElements, EmptyLength DEF GoodJob
      <4>2. n <= Len(Append(h, row))
        BY <4>1
      <4>3. pc[v] = "insert" => Follows(Append(h, row), n, job[v].row)
        BY <3>2, <3>4, <4>1, FollowsStable DEF GoodJob
      <4>4. pc[v] = "count" => /\ n > 0
                               /\ Append(h, row)[n].to \in {"LIVE", "EXPIRING"}
                               /\ job[v].row = Extended(Append(h, row)[n])
        <5>1. SUFFICES ASSUME pc[v] = "count"
                       PROVE  /\ n > 0
                              /\ Append(h, row)[n].to \in {"LIVE", "EXPIRING"}
                              /\ job[v].row = Extended(Append(h, row)[n])
          OBVIOUS
        <5>2. n > 0 /\ h[n].to \in {"LIVE", "EXPIRING"} /\ job[v].row = Extended(h[n])
          BY <3>2, <3>4, <5>1 DEF GoodJob
        <5>3. Append(h, row)[n] = h[n]
          BY <4>1, <5>2
        <5> QED
          BY <5>2, <5>3
      <4>5. history'[d] = Append(h, row)
        BY <1>2
      <4> HIDE DEF h, n
      <4> QED
        BY <3>1, <3>4, <4>2, <4>3, <4>4, <4>5 DEF GoodJob, n
    <3> QED
      BY <3>3, <3>4
  <2> QED
    BY <2>1, <2>2
<1> QED
  BY <1>3

LEMMA InsertKeeps ==
    ASSUME NEW w \in Workers, IInv, Insert(w)
    PROVE  IInv' /\ ~rejected'
<1> DEFINE d == job[w].demo
           row == job[w].row
<1>1. /\ pc[w] = "insert" /\ Ends(w)
      /\ register' = register /\ retired' = retired /\ clock' = clock
  BY DEF Insert
<1>2. d \in Demos /\ row \in Rows /\ history[d] \in Seq(Rows) /\ ~rejected
  BY <1>1, BegunDemo DEF IInv
<1>3. CASE Len(history[d]) # job[w].seen
  <2>1. UNCHANGED <<Tables, clock>>
    BY <1>1, <1>3 DEF Insert, Tables
  <2> QED
    BY <1>1, <1>2, <2>1, EndsKeeps DEF Tables
<1>4. CASE Len(history[d]) = job[w].seen
  <2>1. Follows(history[d], Len(history[d]), row) /\ GoodHistory(history[d])
    BY <1>1, <1>2, <1>4 DEF IInv, GoodJob
  <2>2. Accepted(d, row)
    BY <1>2, <2>1, FollowsAccepted
  <2>3. history' = [history EXCEPT ![d] = Append(@, row)] /\ rejected' = rejected
    BY <1>4, <2>2 DEF Insert
  <2>4. GoodHistory(Append(history[d], row)) /\ Append(history[d], row) \in Seq(Rows)
    BY <1>2, <2>1, FollowsKeeps, AppendElements
  <2>5. \A e \in Demos : GoodHistory(history'[e])
    <3>1. history'[d] = Append(history[d], row)
          /\ \A e \in Demos \ {d} : history'[e] = history[e]
      BY <1>2, <2>3 DEF IInv, TypeOK
    <3> QED
      BY <2>4, <3>1 DEF IInv
  <2>6. \A v \in Workers : GoodJob(v)'
    BY <1>1, <1>2, <2>3, AppendKeepsJobs
  <2>7. TypeOK'
    <3>1. /\ history' \in [Demos -> Seq(Rows)]
          /\ register' \in [Labels -> Demos \cup {Null}]
          /\ retired' \subseteq {l \in Labels : register'[l] # Null}
          /\ clock' \in Nat /\ rejected' \in BOOLEAN
      BY <1>1, <2>3, <2>4 DEF IInv, TypeOK
    <3>2. /\ pc' \in [Workers -> {"idle", "begun", "count", "insert", "name"}]
          /\ job' \in [Workers -> [op : Ops \cup {"none"}, demo : Demos \cup {Null},
                                   start : Nat, seen : Nat, row : Rows]]
      BY <1>1, RowsHold DEF IInv, TypeOK, Ends, Goes
    <3> QED
      BY <3>1, <3>2 DEF TypeOK
  <2> QED
    BY <1>2, <2>3, <2>5, <2>6, <2>7 DEF IInv
<1> QED
  BY <1>3, <1>4

LEMMA ReadAllocateKeeps ==
    ASSUME NEW w \in Workers, IInv, ReadAllocate(w)
    PROVE  IInv'
<1> DEFINE d == job[w].demo
           j == job[w]
<1>1. pc[w] = "begun" /\ UNCHANGED <<Tables, clock>>
  BY DEF ReadAllocate
<1>2. CASE ~(history[d] # <<>> /\ Latest(d).to = "CLAIMED")
  BY <1>1, <1>2, EndsKeeps DEF ReadAllocate
<1>3. CASE history[d] # <<>> /\ Latest(d).to = "CLAIMED"
  <2>1. /\ pc' = [pc EXCEPT ![w] = "name"] /\ job' = job
    BY <1>3 DEF ReadAllocate, Goes
  <2>2. /\ job' = [job EXCEPT ![w] = j]
        /\ history' = history /\ rejected' = rejected /\ clock' = clock
        /\ register' \in [Labels -> Demos \cup {Null}]
        /\ retired' \subseteq {l \in Labels : register'[l] # Null}
    BY <1>1, <2>1 DEF Tables, IInv, TypeOK
  <2>3. /\ j.demo \in Demos
        /\ j \in [op : Ops \cup {"none"}, demo : Demos \cup {Null},
                  start : Nat, seen : Nat, row : Rows]
    BY <1>1, BegunDemo
  <2>4. /\ "name" \in {"idle", "begun", "count", "insert", "name"}
        /\ "name" # "insert" /\ "name" # "count"
    OBVIOUS
  <2> HIDE DEF j
  <2> QED
    BY <2>1, <2>2, <2>3, <2>4, ReadKeeps
<1> QED
  BY <1>2, <1>3

LEMMA InsertLabelKeeps ==
    ASSUME NEW w \in Workers, IInv, InsertLabel(w)
    PROVE  IInv'
<1>1. /\ pc[w] = "name" /\ Ends(w)
      /\ history' = history /\ rejected' = rejected /\ clock' = clock
      /\ retired' = retired
  BY DEF InsertLabel
<1>2. job[w].demo \in Demos
  BY <1>1, BegunDemo
<1>3. PICK l \in Labels :
          register' = IF register[l] = Null /\ \A k \in Labels : register[k] # job[w].demo
                      THEN [register EXCEPT ![l] = job[w].demo] ELSE register
  BY DEF InsertLabel
<1>4. /\ register' \in [Labels -> Demos \cup {Null}]
      /\ \A k \in Labels : register[k] # Null => register'[k] # Null
  BY <1>2, <1>3, DemoAssumption DEF IInv, TypeOK
<1>5. retired' \subseteq {k \in Labels : register'[k] # Null}
  BY <1>1, <1>4 DEF IInv, TypeOK
<1>6. Idle.demo = Null
  BY DEF Idle
<1> QED
  BY <1>1, <1>4, <1>5, RowsHold, ReadKeeps DEF Ends, Goes

\* A step that leaves the histories and the transactions alone.
LEMMA OutsideKeeps ==
    ASSUME IInv, history' = history, register' = register, rejected' = rejected,
           pc' = pc, job' = job, clock' \in Nat,
           retired' \subseteq {l \in Labels : register[l] # Null}
    PROVE  IInv'
<1>1. TypeOK'
  BY DEF IInv, TypeOK
<1>2. \A w \in Workers : GoodJob(w)'
  BY DEF IInv, GoodJob
<1> QED
  BY <1>1, <1>2 DEF IInv

--------------------------------------------------------------------------
(* The invariant, and what it gives.                                       *)

LEMMA NextInv == IInv /\ [Next]_vars => IInv'
<1> SUFFICES ASSUME IInv, [Next]_vars PROVE IInv'
  OBVIOUS
<1>1. ASSUME NEW w \in Workers, WorkerStep(w) PROVE IInv'
  <2>1. CASE \E d \in Demos, op \in Ops : Run(w, d, op)
    BY <2>1, RunKeeps
  <2>2. CASE \E to \in DemoStates : ReadTransition(w, to)
    BY <2>2, ReadTransitionKeeps
  <2>3. CASE ReadExtend(w)
    BY <2>3, ReadExtendKeeps
  <2>4. CASE CountExtensions(w)
    BY <2>4, CountExtensionsKeeps
  <2>5. CASE Insert(w)
    BY <2>5, InsertKeeps
  <2>6. CASE ReadAllocate(w)
    BY <2>6, ReadAllocateKeeps
  <2>7. CASE InsertLabel(w)
    BY <2>7, InsertLabelKeeps
  <2>8. CASE Rollback(w)
    BY <2>8, EndsKeeps DEF Rollback
  <2> QED
    BY <1>1, <2>1, <2>2, <2>3, <2>4, <2>5, <2>6, <2>7, <2>8 DEF WorkerStep
<1>2. ASSUME NEW l \in Labels, RetireHostname(l) PROVE IInv'
  BY <1>2, OutsideKeeps DEF RetireHostname, IInv, TypeOK
<1>3. CASE Tick
  BY <1>3, OutsideKeeps DEF Tick, Tables, IInv, TypeOK
<1>4. CASE UNCHANGED vars
  BY <1>4, OutsideKeeps DEF vars, IInv, TypeOK
<1> QED
  BY <1>1, <1>2, <1>3, <1>4 DEF Next

LEMMA Invariant == Spec => []IInv
<1> QED
  BY InitInv, NextInv, PTL DEF Spec

\* Every variable stays in its set, whatever transactions race.
THEOREM TypeCorrect == Spec => []TypeOK
<1>1. IInv => TypeOK
  BY DEF IInv
<1> QED
  BY <1>1, Invariant, PTL

\* A demo's rows carry one term: one start, and an end that only the one
\* extension moves, by ExtensionDays (issuedNow, carried, extend).
THEOREM OneTerm == Spec => []TermKept
<1>1. IInv => TermKept
  BY DEF IInv, GoodHistory, TermKept
<1> QED
  BY <1>1, Invariant, PTL

\* No row the code sends is refused by a check or the foreign key: the rules
\* of assertTransitionAllowed and of the terms are within those of the schema.
THEOREM RulesAgree == Spec => []NeverRejected
<1>1. IInv => NeverRejected
  BY DEF IInv, NeverRejected
<1> QED
  BY <1>1, Invariant, PTL

--------------------------------------------------------------------------
(* The refinement of DemoRegister.                                         *)

\* A step that leaves the histories and the register is a stutter.
LEMMA Stutters ==
    ASSUME history' = history, register' = register
    PROVE  UNCHANGED Promise!vars
  BY DEF Promise!vars, Latest, Taken

LEMMA PromiseInit == Init => Promise!Init
<1> SUFFICES ASSUME Init PROVE Promise!Init
  OBVIOUS
<1>1. Len(<<>>) = 0 /\ 1 .. 0 = {}
  OBVIOUS
<1>2. \A d \in Demos : history[d] = <<>> /\ Taken(d) = FALSE
  BY <1>1 DEF Init, Taken, ExtendedBy
<1>3. [d \in Demos |-> IF history[d] = <<>> THEN "none" ELSE Latest(d).to]
        = [d \in Demos |-> "none"]
  BY <1>2
<1>4. /\ [d \in Demos |-> IF history[d] = <<>> THEN Null ELSE Latest(d).issued]
           = [d \in Demos |-> Null]
      /\ [d \in Demos |-> IF history[d] = <<>> THEN Null ELSE Latest(d).ends]
           = [d \in Demos |-> Null]
  BY <1>2
<1>5. [d \in Demos |-> Taken(d)] = [d \in Demos |-> FALSE]
  BY <1>2, Zenon
<1> QED
  BY <1>3, <1>4, <1>5 DEF Init, Promise!Init, Promise!Unborn

\* The mapped variables after one more row of d, in terms of the row.
LEMMA MappedRow ==
    ASSUME NEW d \in Demos, NEW row \in Rows, IInv,
           history' = [history EXCEPT ![d] = Append(@, row)]
    PROVE  /\ history'[d] # <<>>
           /\ Latest(d)' = row
           /\ Taken(d)' <=> Taken(d) \/ row.ext > 0
           /\ \A e \in Demos \ {d} : /\ history'[e] = history[e]
                                     /\ Latest(e)' = Latest(e)
                                     /\ Taken(e)' = Taken(e)
<1>1. /\ history[d] \in Seq(Rows)
      /\ history'[d] = Append(history[d], row)
      /\ \A e \in Demos \ {d} : history'[e] = history[e]
  BY DEF IInv, TypeOK
<1>2. /\ history'[d] # <<>> /\ Len(history'[d]) = Len(history[d]) + 1
      /\ history'[d][Len(history'[d])] = row
  BY <1>1, AppendElements
<1>3. Taken(d)' <=> (Taken(d) \/ row.ext > 0)
  BY <1>1, <1>2, AppendExtended DEF Taken
<1> QED
  BY <1>1, <1>2, <1>3 DEF Latest, Taken

LEMMA ExceptSame ==
    ASSUME NEW S, NEW f, f = [x \in S |-> f[x]], NEW d
    PROVE  [f EXCEPT ![d] = f[d]] = f
  OBVIOUS

\* The four kinds of row are the four steps of the promise.
LEMMA AppendImplements ==
    ASSUME NEW d \in Demos, NEW row \in Rows, IInv,
           history' = [history EXCEPT ![d] = Append(@, row)],
           register' = register,
           Follows(history[d], Len(history[d]), row)
    PROVE  Promise!Next
<1> DEFINE state == [e \in Demos |-> IF history[e] = <<>> THEN "none" ELSE Latest(e).to]
           issued == [e \in Demos |-> IF history[e] = <<>> THEN Null ELSE Latest(e).issued]
           ends == [e \in Demos |-> IF history[e] = <<>> THEN Null ELSE Latest(e).ends]
           extended == [e \in Demos |-> Taken(e)]
<1>1. /\ history'[d] # <<>>
      /\ Latest(d)' = row
      /\ Taken(d)' <=> Taken(d) \/ row.ext > 0
      /\ \A e \in Demos \ {d} : /\ history'[e] = history[e]
                                /\ Latest(e)' = Latest(e)
                                /\ Taken(e)' = Taken(e)
  BY MappedRow
<1>2. /\ state' = [state EXCEPT ![d] = row.to]
      /\ issued' = [issued EXCEPT ![d] = row.issued]
      /\ ends' = [ends EXCEPT ![d] = row.ends]
  BY <1>1
<1>3. row.ext > 0 => extended' = [extended EXCEPT ![d] = TRUE]
  BY <1>1 DEF Taken, ExtendedBy
<1>4. row.ext = 0 => extended' = extended
  <2>1. SUFFICES ASSUME row.ext = 0 PROVE \A e \in Demos : Taken(e)' = Taken(e)
    BY Zenon
  <2>2. Taken(d)' = Taken(d)
    BY <1>1, <2>1 DEF Taken, ExtendedBy
  <2> QED
    BY <1>1, <2>2
<1>5. /\ ExtensionDays \in Nat /\ ExtensionDays > 0 /\ Null \notin Int
      /\ history[d] \in Seq(Rows) /\ GoodHistory(history[d])
  BY DemoAssumption DEF IInv, TypeOK
<1>6. issued = [e \in Demos |-> issued[e]] /\ ends = [e \in Demos |-> ends[e]]
  OBVIOUS
<1>7. CASE history[d] = <<>>
  <2>1. row = FirstRow
    BY <1>5, <1>7, FollowsNone
  <2>2. /\ row.to = "VERIFIED" /\ row.issued = Null /\ row.ends = Null /\ row.ext = 0
    BY <2>1 DEF FirstRow, Row
  <2>3. state[d] = "none" /\ row.issued = issued[d] /\ row.ends = ends[d]
    BY <1>7, <2>2
  <2> HIDE DEF state, issued, ends, extended
  <2>4. issued' = issued /\ ends' = ends
    BY <1>2, <1>6, <2>3, ExceptSame
  <2>5. Promise!Begin(d)
    BY <1>2, <1>4, <2>2, <2>3, <2>4
       DEF Promise!Begin, Promise!Unborn, state, issued, ends, extended
  <2> QED
    BY <2>5 DEF Promise!Next
<1>8. CASE history[d] # <<>>
  <2>1. /\ Continues(Latest(d), Taken(d), row)
        /\ LastRow(Latest(d), Taken(d))
        /\ Latest(d) \in Rows
    BY <1>5, <1>8, FollowsLast, LatestRow DEF Latest, Taken
  <2>2. /\ state[d] = Latest(d).to /\ issued[d] = Latest(d).issued
        /\ ends[d] = Latest(d).ends /\ extended[d] = Taken(d)
        /\ state[d] \in DemoStates
    BY <1>8, <2>1 DEF Rows
  <2>3. state[d] # "none"
    BY <2>2 DEF DemoStates
  <2> HIDE DEF state, issued, ends, extended
  <2>4. CASE row.to = "PROVISIONING"
    <3>1. /\ row.ext = 0 /\ row.issued \in Int /\ row.ends = row.issued + LeaseDays
          /\ "PROVISIONING" \in NextStates[state[d]]
      BY <2>1, <2>2, <2>4 DEF Continues
    <3>2. issued'[d] = row.issued
      BY <1>2 DEF issued
    <3>3. Promise!Provision(d)
      BY <1>2, <1>4, <2>3, <2>4, <3>1, <3>2
         DEF Promise!Provision, Promise!Unborn, state, issued, ends, extended
    <3> QED
      BY <3>3 DEF Promise!Next
  <2>5. CASE row.to # "PROVISIONING" /\ row.ext = 0
    <3>1. /\ row.to \in NextStates[state[d]] \ {"PROVISIONING"}
          /\ row.issued = issued[d] /\ row.ends = ends[d]
          /\ LastRow(row, extended[d])
      BY <2>1, <2>2, <2>5 DEF Continues
    <3>2. /\ row.to = "EXTENDED" => extended[d]
          /\ row.to = "LIVE" => ~extended[d]
      BY <3>1 DEF LastRow
    <3>3. issued' = issued /\ ends' = ends
      BY <1>2, <1>6, <3>1, ExceptSame
    <3>4. Promise!Move(d)
      BY <1>2, <1>4, <2>3, <2>5, <3>1, <3>2, <3>3
         DEF Promise!Move, Promise!Unborn, state, issued, ends, extended
    <3> QED
      BY <3>4 DEF Promise!Next
  <2>6. CASE row.ext > 0
    <3>1. /\ row.to = "EXTENDED" /\ ~extended[d] /\ state[d] \in {"LIVE", "EXPIRING"}
          /\ row.issued = issued[d] /\ row.ends = ends[d] + ExtensionDays
      BY <2>1, <2>2, <2>6 DEF Continues
    <3>2. issued' = issued
      BY <1>2, <1>6, <3>1, ExceptSame
    <3>3. ends' = [ends EXCEPT ![d] = @ + ExtensionDays]
      BY <1>2, <3>1 DEF ends
    <3>4. Promise!Extend(d)
      BY <1>2, <1>3, <2>6, <3>1, <3>2, <3>3
         DEF Promise!Extend, state, issued, ends, extended
    <3> QED
      BY <3>4 DEF Promise!Next
  <2> QED
    BY <2>1, <2>4, <2>5, <2>6, <1>5 DEF Continues
<1> QED
  BY <1>7, <1>8

LEMMA InsertLabelImplements ==
    ASSUME NEW w \in Workers, IInv, InsertLabel(w)
    PROVE  Promise!Next \/ UNCHANGED Promise!vars
<1>1. history' = history /\ job[w].demo \in Demos /\ register \in [Labels -> Demos \cup {Null}]
  BY BegunDemo DEF InsertLabel, IInv, TypeOK
<1>2. PICK l \in Labels :
          register' = IF register[l] = Null /\ \A k \in Labels : register[k] # job[w].demo
                      THEN [register EXCEPT ![l] = job[w].demo] ELSE register
  BY DEF InsertLabel
<1>3. CASE register[l] = Null /\ \A k \in Labels : register[k] # job[w].demo
  <2>1. Promise!Name(job[w].demo)
    BY <1>1, <1>2, <1>3 DEF Promise!Name, Latest, Taken
  <2> QED
    BY <1>1, <2>1 DEF Promise!Next
<1>4. CASE ~(register[l] = Null /\ \A k \in Labels : register[k] # job[w].demo)
  BY <1>1, <1>2, <1>4, Stutters
<1> QED
  BY <1>3, <1>4

LEMMA PromiseStep == IInv /\ [Next]_vars => [Promise!Next]_(Promise!vars)
<1> SUFFICES ASSUME IInv, [Next]_vars
             PROVE  Promise!Next \/ UNCHANGED Promise!vars
  OBVIOUS
<1>1. ASSUME NEW w \in Workers, WorkerStep(w)
      PROVE  Promise!Next \/ UNCHANGED Promise!vars
  <2>1. CASE Insert(w)
    <3>1. /\ pc[w] = "insert" /\ register' = register /\ GoodJob(w)
      BY <2>1 DEF Insert, IInv
    <3>2. job[w].demo \in Demos /\ job[w].row \in Rows
      BY <3>1, BegunDemo DEF IInv, TypeOK
    <3>3. CASE history' = history
      BY <3>1, <3>3, Stutters
    <3>4. CASE /\ Len(history[job[w].demo]) = job[w].seen
               /\ history' = [history EXCEPT ![job[w].demo] = Append(@, job[w].row)]
      BY <3>1, <3>2, <3>4, AppendImplements DEF GoodJob
    <3> QED
      BY <2>1, <3>3, <3>4 DEF Insert
  <2>2. CASE InsertLabel(w)
    BY <2>2, InsertLabelImplements
  <2>3. CASE ~Insert(w) /\ ~InsertLabel(w)
    <3>1. history' = history /\ register' = register
      BY <1>1, <2>3 DEF WorkerStep, Run, ReadTransition, ReadExtend, CountExtensions,
                        ReadAllocate, Rollback, Tables
    <3> QED
      BY <3>1, Stutters
  <2> QED
    BY <2>1, <2>2, <2>3
<1>2. ASSUME NEW l \in Labels, RetireHostname(l)
      PROVE  Promise!Next \/ UNCHANGED Promise!vars
  BY <1>2, Stutters DEF RetireHostname
<1>3. CASE Tick
  BY <1>3, Stutters DEF Tick, Tables
<1>4. CASE UNCHANGED vars
  BY <1>4, Stutters DEF vars
<1> QED
  BY <1>1, <1>2, <1>3, <1>4 DEF Next

\* Racing transactions at READ COMMITTED are, to whoever reads the register,
\* one object per demo changed in single steps: DemoRegister (ProvisionerDb).
THEOREM OneRegister == Spec => PromiseSpec
<1>1. Init => Promise!Init
  BY PromiseInit
<1>2. IInv /\ [Next]_vars => [Promise!Next]_(Promise!vars)
  BY PromiseStep
<1> QED
  BY <1>1, <1>2, Invariant, PTL DEF Spec, PromiseSpec, Promise!Spec

--------------------------------------------------------------------------
(* What a reader of the register may conclude.                             *)

\* The state tells whether the one extension was taken, although promotions and
\* rebuilds leave the state and come back to it: a demo that is LIVE has it still,
\* one that is EXTENDED has had it (TransitionAllowed: back to where it came from).
THEOREM StateTellsExtension ==
    Spec => [](\A d \in Demos : history[d] # <<>> =>
                 /\ Latest(d).to = "LIVE" => ~Taken(d)
                 /\ Latest(d).to = "EXTENDED" => Taken(d))
<1> DEFINE Tells == \A d \in Demos : history[d] # <<>> =>
                      /\ Latest(d).to = "LIVE" => ~Taken(d)
                      /\ Latest(d).to = "EXTENDED" => Taken(d)
<1>1. IInv => Tells
  BY DEF IInv, GoodHistory, LastRow, Latest, Taken
<1> QED
  BY <1>1, Invariant, PTL

\* A demo has one hostname at most, and keeps it: no other demo is ever given it,
\* and the demo is given no other (allocateHostname, hostname_register).
THEOREM NamesForGood ==
    Spec => /\ [](\A l, k \in Labels : register[l] # Null /\ register[l] = register[k] => l = k)
            /\ [][\A l \in Labels : register[l] # Null => register'[l] = register[l]]_vars
<1> DEFINE OneName == \A l, k \in Labels : register[l] # Null /\ register[l] = register[k] => l = k
           Keeps == \A l \in Labels : register[l] # Null => register'[l] = register[l]
<1>1. Init => OneName
  BY DEF Init
<1>2. IInv /\ [Next]_vars => UNCHANGED register \/ \E w \in Workers : InsertLabel(w)
  BY DEF Next, vars, Tables, WorkerStep, Run, ReadTransition, ReadExtend, CountExtensions, Insert,
         ReadAllocate, Rollback, RetireHostname, Tick
<1>3. IInv /\ OneName /\ [Next]_vars => OneName' /\ Keeps
  <2> SUFFICES ASSUME IInv, OneName, NEW w \in Workers, InsertLabel(w)
               PROVE  OneName' /\ Keeps
    BY <1>2
  <2>1. PICK l \in Labels :
            register' = IF register[l] = Null /\ \A k \in Labels : register[k] # job[w].demo
                        THEN [register EXCEPT ![l] = job[w].demo] ELSE register
    BY DEF InsertLabel
  <2>2. register \in [Labels -> Demos \cup {Null}]
    BY DEF IInv, TypeOK
  <2>3. CASE register[l] = Null /\ \A k \in Labels : register[k] # job[w].demo
    <3>1. register'[l] = job[w].demo /\ \A k \in Labels \ {l} : register'[k] = register[k]
      BY <2>1, <2>2, <2>3
    <3> QED
      BY <2>3, <3>1
  <2>4. CASE register' = register
    BY <2>4
  <2> QED
    BY <2>1, <2>3, <2>4
<1>4. IInv /\ OneName /\ [Next]_vars => [Keeps]_vars
  BY <1>3
<1> QED
  BY <1>1, <1>3, <1>4, Invariant, PTL DEF Spec

====
