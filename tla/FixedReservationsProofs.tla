------------------------ MODULE FixedReservationsProofs ------------------------
(***************************************************************************)
(* What claims guarantee in FixedReservations, for every number of         *)
(* snapshots, claims, requests and alternatives.                           *)
(*                                                                         *)
(* The argument: a claim is out of an assignment for the snapshot its      *)
(* answer was computed from (Grants); a snapshot holds all alternatives of *)
(* a ticket not claimed before it, and only the claimed one of a ticket    *)
(* that was claimed once (Snapshots); and an assignment of a snapshot      *)
(* never chooses alternatives that overlap.                                *)
(***************************************************************************)
EXTENDS FixedReservations, FiniteSetTheorems, TLAPS

\* A claim that was returned.
Grant ==
    [ticket : Tickets, alternative : 0..(MaxAlternatives - 1), answered : Solves,
     from : UNION {[0..(n - 1) -> 0..(MaxAlternatives - 1)] : n \in Nat}, newest : Solves]

\* Claim k is the only one of its ticket.
Once(k) == \A j \in DOMAIN granted : granted[j].ticket = granted[k].ticket => j = k

\* Snapshots number the tickets they take from 0 on.
Numbered ==
    \A s \in 1..latest :
        /\ \E n \in 0..s : DOMAIN tracked[s] = 0..(n - 1)
        /\ DOMAIN problem[s] = DOMAIN tracked[s]
        /\ \A id \in DOMAIN tracked[s] : tracked[s][id] \in 0..(s - 1)

\* What the cell holds is an assignment for its snapshot.
CellAssigns ==
    IF answer.kind \in {"Partial", "Optimal"}
    THEN answer.solve \in 1..latest /\ chosen \in Assignments(problem[answer.solve])
    ELSE chosen = <<>>

\* And so was what each claim took its alternative from.
Grants ==
    \A i \in DOMAIN granted :
        /\ granted[i].answered \in 1..granted[i].newest
        /\ granted[i].newest \in 1..latest
        /\ granted[i].from \in Assignments(problem[granted[i].answered])
        /\ granted[i].ticket \in DOMAIN granted[i].from
        /\ granted[i].alternative = granted[i].from[granted[i].ticket]

\* The claims on record are those returned; of a repeated claim the last.
Recorded ==
    /\ \A t \in Tickets : claims[t] # Unclaimed =>
          \E k \in DOMAIN granted : granted[k].ticket = t
    /\ \A k \in DOMAIN granted :
          /\ claims[granted[k].ticket] # Unclaimed
          /\ Once(k) => claims[granted[k].ticket] = granted[k].alternative

\* What a snapshot holds for a ticket.
Snapshots ==
    \A s \in 1..latest : \A id \in DOMAIN tracked[s] :
        /\ (\A k \in DOMAIN granted : granted[k].ticket = tracked[s][id] => granted[k].newest >= s)
           => problem[s][id] = record[tracked[s][id] + 1]
        /\ \A k \in DOMAIN granted :
              granted[k].ticket = tracked[s][id] /\ granted[k].newest < s /\ Once(k)
              => problem[s][id] = <<record[tracked[s][id] + 1][granted[k].alternative + 1]>>

\* As long as request ids are tickets, claims on record are alternatives of
\* their tickets, and no snapshot has more alternatives than its tickets.
AllInOrder == \A s \in 1..latest : InOrder(s)

PinsExist ==
    AllInOrder =>
        /\ \A t \in 0..(latest - 1) : claims[t] # Unclaimed => claims[t] + 1 \in DOMAIN record[t + 1]
        /\ \A s \in 1..latest : \A id \in 0..(s - 1) :
              DOMAIN problem[s][id] \subseteq DOMAIN record[id + 1]

Inv ==
    /\ FixedTypeOK
    /\ panicked \in BOOLEAN
    /\ granted \in Seq(Grant)
    /\ tracked = [s \in Solves |-> tracked[s]]
    /\ problem = [s \in Solves |-> problem[s]]
    /\ Numbered
    /\ CellAssigns
    /\ Grants
    /\ Recorded
    /\ Snapshots
    /\ PinsExist
    /\ NoPanicInOrder
-----------------------------------------------------------------------------
(* Types.                                                                  *)

LEMMA Types ==
    ASSUME FixedTypeOK
    PROVE  /\ latest \in Nat /\ MaxSolves \in Nat /\ latest <= MaxSolves
           /\ live \subseteq 1..latest
           /\ Solves = 1..MaxSolves
           /\ record \in Seq(Requests)
           /\ latest <= Len(record) /\ Len(record) \in Nat
           /\ ~panicked => Len(record) = latest
           /\ MaxAlternatives \in Nat
BY SolvesAssumption, RequestsAssumption DEF FixedTypeOK, CellTypeOK, Solves

\* A set of tickets is not larger than the range it is taken from.
LEMMA TicketCount ==
    ASSUME NEW n \in Nat, NEW S \in SUBSET (0..n)
    PROVE  Cardinality(S) \in 0..(n + 1)
<1>1. IsFiniteSet(0..n) /\ Cardinality(0..n) = n + 1
  BY FS_Interval
<1>2. Cardinality(S) <= Cardinality(0..n) /\ IsFiniteSet(S)
  BY <1>1, FS_Subset
<1>3. Cardinality(S) \in Nat
  BY <1>2, FS_CardinalityType
<1> QED
  BY <1>1, <1>2, <1>3

\* Assignments are functions on the requests of the problem.
LEMMA AssignmentType ==
    ASSUME NEW p, NEW c \in Assignments(p)
    PROVE  /\ c \in [DOMAIN p -> 0..(MaxAlternatives - 1)]
           /\ \A id \in DOMAIN p : c[id] + 1 \in DOMAIN p[id]
           /\ \A i, j \in DOMAIN p : i # j => ~Overlap(p[i][c[i] + 1], p[j][c[j] + 1])
BY DEF Assignments

LEMMA InitInv == ASSUME FixedInit PROVE Inv
<1> USE SolvesAssumption, RequestsAssumption DEF FixedInit, CellInit
<1>1. latest = 0 /\ 1..latest = {} /\ answer.kind = "NotFound" /\ chosen = <<>> /\ granted = <<>>
  BY DEF NoAnswer
<1>2. FixedTypeOK
  BY <1>1 DEF FixedTypeOK, CellTypeOK, Answer, Kinds, NoAnswer, Unclaimed
<1>3. Numbered /\ CellAssigns /\ Grants
  BY <1>1 DEF Numbered, CellAssigns, Grants
<1>4. Recorded /\ Snapshots /\ PinsExist /\ NoPanicInOrder
  BY <1>1 DEF Recorded, Snapshots, PinsExist, NoPanicInOrder
<1>5. tracked = [s \in Solves |-> tracked[s]] /\ problem = [s \in Solves |-> problem[s]]
  OBVIOUS
<1>6. <<>> \in Seq(Grant)
  OBVIOUS
<1>7. panicked \in BOOLEAN
  OBVIOUS
<1> QED
  BY <1>1, <1>2, <1>3, <1>4, <1>5, <1>6, <1>7 DEF Inv
-----------------------------------------------------------------------------
(* Requests and snapshots.                                                 *)

\* A request is filed behind the others.
LEMMA Filed ==
    ASSUME Inv, NEW alternatives \in Requests, RequestResources(alternatives)
    PROVE  /\ ~panicked /\ latest < MaxSolves
           /\ record' = Append(record, alternatives)
           /\ record' \in Seq(Requests) /\ Len(record') = latest + 1
           /\ \A t \in 0..(latest - 1) : record'[t + 1] = record[t + 1] /\ t + 1 \in DOMAIN record
           /\ record'[latest + 1] = alternatives
           /\ UNCHANGED <<claims, chosen, granted>>
<1>1. /\ ~panicked /\ latest < MaxSolves
      /\ record' = Append(record, alternatives)
      /\ UNCHANGED <<claims, chosen, granted>>
  BY DEF RequestResources
<1>2. record \in Seq(Requests) /\ Len(record) = latest /\ latest \in Nat
  BY <1>1, Types DEF Inv
<1> QED
  BY <1>1, <1>2

\* Only tickets that exist are claimed.
LEMMA ClaimedTickets ==
    ASSUME Inv, NEW t \in Tickets, claims[t] # Unclaimed
    PROVE  t \in 0..(latest - 1)
<1>1. PICK k \in DOMAIN granted : granted[k].ticket = t
  BY DEF Inv, Recorded
<1>2. /\ granted[k].answered \in 1..granted[k].newest
      /\ granted[k].newest \in 1..latest
      /\ t \in DOMAIN granted[k].from
      /\ DOMAIN granted[k].from = DOMAIN problem[granted[k].answered]
  BY <1>1, AssignmentType DEF Inv, Grants
<1>3. latest \in Nat
  BY Types DEF Inv
<1>4. PICK n \in 0..granted[k].answered : DOMAIN problem[granted[k].answered] = 0..(n - 1)
  <2>1. granted[k].answered \in 1..latest
    BY <1>2, <1>3
  <2> QED
    BY <2>1 DEF Inv, Numbered
<1> QED
  BY <1>2, <1>3, <1>4

\* Where ids are tickets, what is pinned exists, and it has a time if all do.
LEMMA PinnedInOrder ==
    ASSUME Inv, NEW file \in Seq(Requests), Len(file) = latest + 1,
           \A t \in 0..(latest - 1) : file[t + 1] = record[t + 1],
           latest < MaxSolves, AllInOrder, NEW t \in 0..latest
    PROVE  /\ ~BadPin(file, t)
           /\ DOMAIN Pinned(file, t) \subseteq DOMAIN file[t + 1]
           /\ Untimed(Pinned(file, t)) => Untimed(file[t + 1])
<1>0. latest \in Nat /\ MaxSolves \in Nat /\ MaxAlternatives \in Nat /\ claims \in [Tickets -> 0..Unclaimed]
  BY Types DEF Inv, FixedTypeOK
<1>1. CASE t \in Tickets /\ claims[t] # Unclaimed
  <2>1. t \in 0..(latest - 1)
    BY <1>1, ClaimedTickets
  <2>2. claims[t] + 1 \in DOMAIN file[t + 1]
    BY <1>1, <2>1 DEF Inv, PinsExist
  <2>3. PICK n \in 0..MaxAlternatives : DOMAIN file[t + 1] = 1..n
    BY <1>0, RequestsAssumption
  <2>4. 1 \in DOMAIN file[t + 1]
    BY <1>0, <1>1, <2>2, <2>3 DEF Unclaimed
  <2>5. Pinned(file, t) = <<file[t + 1][claims[t] + 1]>>
    BY <1>1 DEF Pinned
  <2>6. DOMAIN Pinned(file, t) = {1} /\ Pinned(file, t)[1] = file[t + 1][claims[t] + 1]
    BY <2>5
  <2>7. Untimed(Pinned(file, t)) => Untimed(file[t + 1])
    BY <2>2, <2>6 DEF Untimed
  <2> QED
    BY <2>2, <2>4, <2>6, <2>7 DEF BadPin
<1>2. CASE claims[t] = Unclaimed
  BY <1>2 DEF BadPin, Pinned
<1>3. t \in Tickets
  BY <1>0 DEF Tickets
<1> QED
  BY <1>1, <1>2, <1>3

\* Parts of the invariant that the same snapshots and claims satisfy again.
LEMMA SameParts ==
    ASSUME Inv, UNCHANGED <<latest, tracked, problem, granted>>
    PROVE  Numbered' /\ Grants' /\ (\A k \in DOMAIN granted : Once(k)' = Once(k)) /\ AllInOrder' = AllInOrder
<1>0. Numbered /\ Grants
  BY DEF Inv
<1>1. Numbered'
  BY <1>0 DEF Numbered
<1>2. \A p : Assignments(p)' = Assignments(p)
  BY DEF Assignments
<1>3. \A i \in DOMAIN granted : Assignments(problem[granted[i].answered])' = Assignments(problem[granted[i].answered])
  BY DEF Assignments
<1>4. Grants'
  BY <1>0, <1>3 DEF Grants
<1> QED
  BY <1>1, <1>4 DEF Once, AllInOrder, InOrder

\* And so for what snapshots hold, as long as what they took is on record.
LEMMA SameSnapshots ==
    ASSUME Snapshots, UNCHANGED <<latest, tracked, problem, granted>>,
           \A s \in 1..latest : \A id \in DOMAIN tracked[s] :
              record'[tracked[s][id] + 1] = record[tracked[s][id] + 1]
    PROVE  Snapshots'
BY DEF Snapshots, Once

\* A panic leaves the request filed.  Where ids are tickets and everybody
\* gives times there is none.
LEMMA PanicKeepsInv ==
    ASSUME Inv, NEW alternatives \in Requests, RequestResources(alternatives),
           SnapshotPanics(Append(record, alternatives)), panicked' = TRUE,
           UNCHANGED <<cellVars, tracked, problem>>
    PROVE  Inv'
<1>0. /\ latest \in Nat /\ UNCHANGED <<latest, live, answer, tracked, problem, claims, chosen, granted>>
      /\ record' \in Seq(Requests) /\ Len(record') = latest + 1
      /\ \A t \in 0..(latest - 1) : record'[t + 1] = record[t + 1]
      /\ record' = Append(record, alternatives) /\ latest < MaxSolves
  BY Filed, Types DEF Inv, cellVars
<1>1. FixedTypeOK'
  BY <1>0 DEF Inv, FixedTypeOK, CellTypeOK
<1>i. Numbered /\ Recorded /\ Snapshots /\ CellAssigns
  BY DEF Inv
<1>2. Numbered' /\ Grants' /\ \A k \in DOMAIN granted : Once(k)' = Once(k)
  BY <1>0, SameParts
<1>7. CellAssigns'
  BY <1>0, <1>i DEF CellAssigns, Assignments
<1>8. Recorded'
  BY <1>0, <1>2, <1>i DEF Recorded
<1>3. \A s \in 1..latest : \A id \in DOMAIN tracked[s] :
         record'[tracked[s][id] + 1] = record[tracked[s][id] + 1]
  <2> SUFFICES ASSUME NEW s \in 1..latest, NEW id \in DOMAIN tracked[s]
               PROVE  record'[tracked[s][id] + 1] = record[tracked[s][id] + 1]
    OBVIOUS
  <2>1. tracked[s][id] \in 0..(s - 1)
    BY <1>i DEF Numbered
  <2>2. tracked[s][id] \in 0..(latest - 1)
    BY <1>0, <2>1
  <2> QED
    BY <1>0, <2>2
<1>4. Snapshots'
  BY <1>0, <1>3, <1>i, SameSnapshots
<1>5. PinsExist'
  <2>1. AllInOrder' = AllInOrder
    BY <1>0 DEF AllInOrder, InOrder
  <2>2. \A s \in 1..latest : \A id \in 0..(s - 1) : record'[id + 1] = record[id + 1]
    BY <1>0
  <2> QED
    BY <1>0, <2>1, <2>2 DEF Inv, PinsExist
<1>6. NoPanicInOrder'
  <2> SUFFICES ASSUME AllInOrder, \A t \in DOMAIN record' : ~Untimed(record'[t]) PROVE FALSE
    BY <1>0 DEF NoPanicInOrder, AllInOrder, InOrder
  <2>1. PICK t \in 0..latest :
           ~BadPin(record', t) => Known(Pinned(record', t)) /\ Untimed(Pinned(record', t))
    BY <1>0 DEF SnapshotPanics
  <2>2. ~BadPin(record', t) /\ (Untimed(Pinned(record', t)) => Untimed(record'[t + 1]))
    BY <1>0, PinnedInOrder
  <2>3. t + 1 \in DOMAIN record'
    BY <1>0
  <2> QED
    BY <2>1, <2>2, <2>3
<1> QED
  BY <1>0, <1>1, <1>2, <1>4, <1>5, <1>6, <1>7, <1>8 DEF Inv

\* The new snapshot holds what is pinned, and all of what is not.
LEMMA SnapshotKeepsInv ==
    ASSUME Inv, NEW alternatives \in Requests, RequestResources(alternatives),
           TakeSnapshot(Append(record, alternatives)), UNCHANGED panicked
    PROVE  Inv'
<1> DEFINE s0 == latest + 1
           file == Append(record, alternatives)
           taken == {t \in 0..(Len(file) - 1) : Known(Pinned(file, t))}
<1>0. /\ latest \in Nat /\ MaxSolves \in Nat /\ latest < MaxSolves /\ ~panicked
      /\ latest' = s0 /\ live' = live \cup {s0}
      /\ UNCHANGED <<answer, claims, chosen, granted, panicked>>
      /\ record' = file /\ record' \in Seq(Requests) /\ Len(record') = s0
      /\ \A t \in 0..(latest - 1) : record'[t + 1] = record[t + 1]
  BY Filed, Types DEF Inv, TakeSnapshot, NewSnapshot
<1>1. PICK walk \in Walks(taken) :
         /\ tracked' = [tracked EXCEPT ![s0] = walk]
         /\ problem' = [problem EXCEPT ![s0] = [id \in DOMAIN walk |-> Pinned(file, walk[id])]]
  BY DEF TakeSnapshot
<1>2. taken \subseteq 0..latest
  BY <1>0
<1>3. PICK n \in 0..s0 : walk \in [0..(n - 1) -> 0..latest]
  <2>1. Cardinality(taken) \in 0..(latest + 1)
    BY <1>0, <1>2, TicketCount
  <2>2. walk \in [0..(Cardinality(taken) - 1) -> taken]
    BY DEF Walks
  <2>3. walk \in [0..(Cardinality(taken) - 1) -> 0..latest]
    BY <1>2, <2>2
  <2> QED
    BY <2>1, <2>3
<1> HIDE DEF taken, file
<1>4. /\ s0 \in Solves
      /\ \A s \in 1..latest : tracked'[s] = tracked[s] /\ problem'[s] = problem[s]
      /\ tracked'[s0] = walk
      /\ problem'[s0] = [id \in 0..(n - 1) |-> Pinned(record', walk[id])]
      /\ tracked' = [s \in Solves |-> tracked'[s]]
      /\ problem' = [s \in Solves |-> problem'[s]]
  <2>1. s0 \in Solves /\ s0 \notin 1..latest /\ 1..latest \subseteq Solves
    BY <1>0, Types DEF Inv
  <2> HIDE DEF s0
  <2> QED
    BY <1>0, <1>1, <1>3, <2>1 DEF Inv
<1>5. 1..latest' = 1..latest \cup {s0} /\ 1..latest \subseteq Nat /\ s0 \in Nat /\ s0 - 1 = latest
  BY <1>0
<1> HIDE DEF s0
<1>6. Numbered'
  <2> SUFFICES ASSUME NEW s \in 1..latest'
               PROVE  /\ \E m \in 0..s : DOMAIN tracked'[s] = 0..(m - 1)
                      /\ DOMAIN problem'[s] = DOMAIN tracked'[s]
                      /\ \A id \in DOMAIN tracked'[s] : tracked'[s][id] \in 0..(s - 1)
    BY DEF Numbered
  <2>1. CASE s \in 1..latest
    BY <1>4, <2>1 DEF Inv, Numbered
  <2>2. CASE s = s0
    BY <1>3, <1>4, <1>5, <2>2
  <2> QED
    BY <1>5, <2>1, <2>2
<1>7. answer.kind \in {"Partial", "Optimal"} => answer.solve \in 1..latest
  BY DEF Inv, CellAssigns
<1>8. FixedTypeOK'
  <2>1. CellTypeOK'
    BY <1>0, <1>5, Types DEF Inv, FixedTypeOK, CellTypeOK, s0
  <2>2. Len(record') = IF panicked' THEN latest' + 1 ELSE latest'
    BY <1>0
  <2>3. answer'.kind \in {"Partial", "Optimal"} => DOMAIN chosen' = DOMAIN problem'[answer'.solve]
    BY <1>0, <1>4, <1>7 DEF Inv, FixedTypeOK
  <2> QED
    BY <1>0, <1>6, <2>1, <2>2, <2>3 DEF Inv, FixedTypeOK, Numbered
<1>9. CellAssigns'
  BY <1>0, <1>4, <1>5, <1>7 DEF Inv, CellAssigns, Assignments
<1>10. Grants'
  <2> SUFFICES ASSUME NEW i \in DOMAIN granted
               PROVE  /\ granted[i].newest \in 1..latest'
                      /\ granted[i].from \in Assignments(problem[granted[i].answered])'
    BY <1>0 DEF Inv, Grants
  <2>1. granted[i].newest \in 1..latest /\ granted[i].answered \in 1..latest
    BY <1>0 DEF Inv, Grants
  <2>2. problem'[granted[i].answered] = problem[granted[i].answered]
    BY <1>4, <2>1
  <2> QED
    BY <1>0, <1>5, <2>1, <2>2 DEF Inv, Grants, Assignments
<1>11. Recorded'
  BY <1>0 DEF Inv, Recorded, Once
<1>12. Snapshots'
  <2> SUFFICES ASSUME NEW s \in 1..latest', NEW id \in DOMAIN tracked'[s]
               PROVE  /\ (\A k \in DOMAIN granted : granted[k].ticket = tracked'[s][id] => granted[k].newest >= s)
                         => problem'[s][id] = record'[tracked'[s][id] + 1]
                      /\ \A k \in DOMAIN granted :
                            granted[k].ticket = tracked'[s][id] /\ granted[k].newest < s /\ Once(k)
                            => problem'[s][id] = <<record'[tracked'[s][id] + 1][granted[k].alternative + 1]>>
    BY <1>0 DEF Snapshots, Once
  <2>1. CASE s \in 1..latest
    <3>1. tracked[s][id] \in 0..(s - 1) /\ id \in DOMAIN tracked[s]
      BY <1>4, <2>1 DEF Inv, Numbered
    <3>2. record'[tracked[s][id] + 1] = record[tracked[s][id] + 1]
      BY <1>0, <2>1, <3>1
    <3>3. tracked'[s][id] = tracked[s][id] /\ problem'[s][id] = problem[s][id]
      BY <1>4, <2>1
    <3>4. Snapshots
      BY DEF Inv
    <3> QED
      BY <2>1, <3>1, <3>2, <3>3, <3>4 DEF Snapshots
  <2>2. CASE s = s0
    <3>1. /\ id \in 0..(n - 1) /\ tracked'[s][id] = walk[id] /\ walk[id] \in 0..latest
          /\ problem'[s][id] = Pinned(record', walk[id])
      BY <1>3, <1>4, <2>2
    <3>2. walk[id] \in Tickets
      BY <1>0, <3>1 DEF Tickets
    <3>3. \A k \in DOMAIN granted : ~(granted[k].newest >= s0)
      BY <1>0, <1>5 DEF Inv, Grants
    <3>4. ASSUME \A k \in DOMAIN granted : granted[k].ticket = walk[id] => granted[k].newest >= s
          PROVE  claims[walk[id]] = Unclaimed
      BY <2>2, <3>2, <3>3, <3>4 DEF Inv, Recorded
    <3>5. ASSUME NEW k \in DOMAIN granted, granted[k].ticket = walk[id], Once(k)
          PROVE  claims[walk[id]] = granted[k].alternative /\ claims[walk[id]] # Unclaimed
      BY <3>5 DEF Inv, Recorded
    <3>6. claims[walk[id]] = Unclaimed => problem'[s][id] = record'[walk[id] + 1]
      BY <3>1 DEF Pinned
    <3>7. claims[walk[id]] # Unclaimed =>
             problem'[s][id] = <<record'[walk[id] + 1][claims[walk[id]] + 1]>>
      BY <3>1 DEF Pinned
    <3>8. tracked'[s][id] = walk[id]
      BY <3>1
    <3>9. ASSUME \A k \in DOMAIN granted : granted[k].ticket = tracked'[s][id] => granted[k].newest >= s
          PROVE  problem'[s][id] = record'[tracked'[s][id] + 1]
      BY <3>4, <3>6, <3>8, <3>9
    <3>10. ASSUME NEW k \in DOMAIN granted, granted[k].ticket = tracked'[s][id], Once(k)
           PROVE  problem'[s][id] = <<record'[tracked'[s][id] + 1][granted[k].alternative + 1]>>
      BY <3>5, <3>7, <3>8, <3>10
    <3> QED
      BY <3>9, <3>10
  <2> QED
    BY <1>5, <2>1, <2>2
<1>13. PinsExist'
  <2> SUFFICES ASSUME AllInOrder'
               PROVE  /\ \A t \in 0..latest : claims[t] # Unclaimed => claims[t] + 1 \in DOMAIN record'[t + 1]
                      /\ \A s \in 1..latest' : \A id \in 0..(s - 1) :
                            DOMAIN problem'[s][id] \subseteq DOMAIN record'[id + 1]
    BY <1>0, <1>5 DEF PinsExist
  <2>1. AllInOrder
    BY <1>4, <1>5 DEF AllInOrder, InOrder
  <2>2. \A t \in 0..latest : ~BadPin(record', t) /\ DOMAIN Pinned(record', t) \subseteq DOMAIN record'[t + 1]
    BY <1>0, <1>5, <2>1, PinnedInOrder
  <2>3. ASSUME NEW s \in 1..latest, NEW id \in 0..(s - 1)
        PROVE  DOMAIN problem'[s][id] \subseteq DOMAIN record'[id + 1]
    <3>1. record'[id + 1] = record[id + 1]
      BY <1>0
    <3> QED
      BY <1>4, <2>1, <3>1 DEF Inv, PinsExist
  <2>4. ASSUME NEW id \in 0..(s0 - 1)
        PROVE  DOMAIN problem'[s0][id] \subseteq DOMAIN record'[id + 1]
    <3>1. walk = [i \in 0..(s0 - 1) |-> i]
      BY <1>4, <1>5 DEF AllInOrder, InOrder
    <3>2. id \in 0..(n - 1) /\ walk[id] = id
      BY <1>3, <3>1
    <3> QED
      BY <1>4, <1>5, <2>2, <3>2
  <2> QED
    BY <1>5, <2>2, <2>3, <2>4 DEF BadPin
<1> QED
  BY <1>0, <1>4, <1>6, <1>8, <1>9, <1>10, <1>11, <1>12, <1>13 DEF Inv, NoPanicInOrder

LEMMA RequestKeepsInv ==
    ASSUME Inv, NEW alternatives \in Requests, RequestResources(alternatives)
    PROVE  Inv'
<1> DEFINE file == Append(record, alternatives)
<1>1. CASE SnapshotPanics(file) /\ panicked' = TRUE /\ UNCHANGED <<cellVars, tracked, problem>>
  BY <1>1, PanicKeepsInv
<1>2. CASE TakeSnapshot(file) /\ UNCHANGED panicked
  BY <1>2, SnapshotKeepsInv
<1> QED
  BY <1>1, <1>2 DEF RequestResources
-----------------------------------------------------------------------------
(* Answers and claims.                                                     *)

LEMMA ReportKeepsInv ==
    ASSUME Inv, NEW s \in Solves, ReportAssignment(s) \/ ReportUnSolveable(s)
    PROVE  Inv'
<1>0. /\ s \in 1..latest
      /\ \E k \in PublishedKinds : answer' = [kind |-> k, solve |-> s]
      /\ UNCHANGED <<latest, live, record, claims, tracked, problem, granted, panicked>>
  BY Types DEF Inv, ReportAssignment, ReportUnSolveable, Publish
<1>1. \/ answer'.kind \in {"Partial", "Optimal"} /\ chosen' \in Assignments(problem[s])
      \/ answer'.kind = "UnSolveable" /\ chosen' = <<>>
  BY DEF ReportAssignment, ReportUnSolveable
<1>2. CellAssigns'
  BY <1>0, <1>1 DEF CellAssigns, Assignments
<1>3. FixedTypeOK'
  <2>1. CellTypeOK'
    BY <1>0 DEF Inv, FixedTypeOK, CellTypeOK, Answer, Kinds, Solves
  <2>2. answer'.kind \in {"Partial", "Optimal"} => DOMAIN chosen' = DOMAIN problem'[answer'.solve]
    BY <1>0, <1>1, AssignmentType
  <2> QED
    BY <1>0, <2>1, <2>2 DEF Inv, FixedTypeOK
<1>i. Recorded /\ Snapshots /\ PinsExist /\ NoPanicInOrder /\ granted \in Seq(Grant) /\ panicked \in BOOLEAN
  BY DEF Inv
<1>4. Numbered' /\ Grants' /\ (\A k \in DOMAIN granted : Once(k)' = Once(k)) /\ AllInOrder' = AllInOrder
  BY <1>0, SameParts
<1>5. Recorded'
  BY <1>0, <1>4, <1>i DEF Recorded
<1>6. Snapshots'
  BY <1>0, <1>4, <1>i DEF Snapshots
<1>7. PinsExist' /\ NoPanicInOrder'
  BY <1>0, <1>4, <1>i DEF PinsExist, NoPanicInOrder, AllInOrder
<1> QED
  BY <1>0, <1>2, <1>3, <1>4, <1>5, <1>6, <1>7 DEF Inv

\* A claim is out of the assignment in the cell, and on record.
LEMMA ClaimKeepsInv ==
    ASSUME Inv, NEW t \in Tickets, ClaimRequest(t)
    PROVE  Inv'
<1> DEFINE g == Claim(t, chosen[t])
           s == answer.solve
<1>0. /\ t \in DOMAIN chosen /\ t \in 0..(latest - 1)
      /\ claims' = [claims EXCEPT ![t] = chosen[t]]
      /\ granted' = Append(granted, g)
      /\ UNCHANGED <<latest, live, answer, record, tracked, problem, chosen, panicked>>
      /\ latest \in Nat
  BY Types DEF Inv, ClaimRequest, cellVars, Tickets
<1>1. answer.kind \in {"Partial", "Optimal"} /\ s \in 1..latest /\ chosen \in Assignments(problem[s])
  <2>1. chosen # <<>>
    BY <1>0
  <2> QED
    BY <2>1 DEF Inv, CellAssigns
<1>2. PICK n \in 0..s : DOMAIN problem[s] = 0..(n - 1) /\ DOMAIN tracked[s] = 0..(n - 1)
  BY <1>1 DEF Inv, Numbered
<1>3. /\ chosen \in [0..(n - 1) -> 0..(MaxAlternatives - 1)]
      /\ t \in 0..(n - 1) /\ n \in Nat /\ chosen[t] + 1 \in DOMAIN problem[s][t]
  BY <1>0, <1>1, <1>2, AssignmentType
<1>4. /\ g.ticket = t /\ g.alternative = chosen[t] /\ g.answered = s
      /\ g.from = chosen /\ g.newest = latest /\ g \in Grant
  <2>1. g \in Grant
    <3>1. s \in Solves /\ latest \in Solves
      BY <1>0, <1>1, Types DEF Inv
    <3>2. chosen \in UNION {[0..(m - 1) -> 0..(MaxAlternatives - 1)] : m \in Nat}
      BY <1>3
    <3>3. chosen[t] \in 0..(MaxAlternatives - 1)
      BY <1>3
    <3> HIDE DEF s
    <3>4. g = [ticket |-> t, alternative |-> chosen[t], answered |-> s, from |-> chosen, newest |-> latest]
      BY DEF Claim, s
    <3> HIDE DEF g
    <3> QED
      BY <3>1, <3>2, <3>3, <3>4 DEF Grant
  <2> QED
    BY <2>1 DEF Claim
<1> DEFINE last == Len(granted) + 1
<1> HIDE DEF g, s
<1>5. /\ granted' \in Seq(Grant) /\ DOMAIN granted' = DOMAIN granted \cup {last}
      /\ granted'[last] = g /\ last \notin DOMAIN granted
      /\ \A k \in DOMAIN granted : granted'[k] = granted[k]
  BY <1>0, <1>4 DEF Inv
<1> HIDE DEF last
<1>6. FixedTypeOK'
  <2>1. chosen[t] \in 0..Unclaimed
    BY <1>3, RequestsAssumption DEF Unclaimed
  <2>2. FixedTypeOK
    BY DEF Inv
  <2> QED
    BY <1>0, <2>1, <2>2 DEF FixedTypeOK, CellTypeOK
<1>7. Grants'
  <2> SUFFICES ASSUME NEW i \in DOMAIN granted'
               PROVE  /\ granted'[i].answered \in 1..granted'[i].newest
                      /\ granted'[i].newest \in 1..latest
                      /\ granted'[i].from \in Assignments(problem[granted'[i].answered])
                      /\ granted'[i].ticket \in DOMAIN granted'[i].from
                      /\ granted'[i].alternative = granted'[i].from[granted'[i].ticket]
    BY <1>0 DEF Grants, Assignments
  <2>1. CASE i \in DOMAIN granted
    <3>1. Grants
      BY DEF Inv
    <3> QED
      BY <1>5, <2>1, <3>1 DEF Grants
  <2>2. CASE i = last
    BY <1>0, <1>1, <1>4, <1>5, <2>2
  <2> QED
    BY <1>5, <2>1, <2>2
<1>8. \A k \in DOMAIN granted : Once(k)' => Once(k) /\ granted[k].ticket # t
  BY <1>4, <1>5 DEF Once
<1>9. chosen[t] # Unclaimed
  BY <1>3, RequestsAssumption DEF Unclaimed
<1>10. Recorded'
  BY <1>0, <1>4, <1>5, <1>8, <1>9 DEF Inv, Recorded, FixedTypeOK
<1>11. Snapshots'
  <2> SUFFICES ASSUME NEW r \in 1..latest, NEW id \in DOMAIN tracked[r]
               PROVE  /\ (\A k \in DOMAIN granted' : granted'[k].ticket = tracked[r][id] => granted'[k].newest >= r)
                         => problem[r][id] = record[tracked[r][id] + 1]
                      /\ \A k \in DOMAIN granted' :
                            granted'[k].ticket = tracked[r][id] /\ granted'[k].newest < r /\ Once(k)'
                            => problem[r][id] = <<record[tracked[r][id] + 1][granted'[k].alternative + 1]>>
    BY <1>0 DEF Snapshots
  <2>1. ~(g.newest < r)
    BY <1>0, <1>4
  <2>2. Snapshots
    BY DEF Inv
  <2>3. ASSUME \A k \in DOMAIN granted' : granted'[k].ticket = tracked[r][id] => granted'[k].newest >= r
        PROVE  problem[r][id] = record[tracked[r][id] + 1]
    <3>1. \A k \in DOMAIN granted : granted[k].ticket = tracked[r][id] => granted[k].newest >= r
      BY <1>5, <2>3
    <3> QED
      BY <2>2, <3>1 DEF Snapshots
  <2>4. ASSUME NEW k \in DOMAIN granted',
               granted'[k].ticket = tracked[r][id], granted'[k].newest < r, Once(k)'
        PROVE  problem[r][id] = <<record[tracked[r][id] + 1][granted'[k].alternative + 1]>>
    <3>1. k \in DOMAIN granted /\ granted'[k] = granted[k] /\ Once(k)
      BY <1>5, <1>8, <2>1, <2>4
    <3> QED
      BY <2>2, <2>4, <3>1 DEF Snapshots
  <2> QED
    BY <2>3, <2>4
<1>12. PinsExist'
  <2> SUFFICES ASSUME AllInOrder
               PROVE  \A u \in 0..(latest - 1) : claims'[u] # Unclaimed => claims'[u] + 1 \in DOMAIN record[u + 1]
    BY <1>0 DEF Inv, PinsExist, AllInOrder, InOrder
  <2>1. t \in 0..(s - 1)
    BY <1>1, <1>2, <1>3
  <2>2. chosen[t] + 1 \in DOMAIN record[t + 1]
    BY <1>1, <1>3, <2>1 DEF Inv, PinsExist
  <2> QED
    BY <1>0, <2>2 DEF Inv, PinsExist, FixedTypeOK
<1>13. Numbered' /\ CellAssigns' /\ NoPanicInOrder'
  <2>1. Numbered /\ CellAssigns /\ NoPanicInOrder
    BY DEF Inv
  <2>2. Numbered'
    BY <1>0, <2>1 DEF Numbered
  <2>3. CellAssigns'
    BY <1>0, <2>1 DEF CellAssigns, Assignments
  <2>4. NoPanicInOrder'
    BY <1>0, <2>1 DEF NoPanicInOrder, InOrder
  <2> QED
    BY <2>2, <2>3, <2>4
<1> QED
  BY <1>0, <1>5, <1>6, <1>7, <1>10, <1>11, <1>12, <1>13 DEF Inv

LEMMA StepInv == ASSUME Inv, [FixedNext]_vars PROVE Inv'
<1>1. CASE UNCHANGED vars
  <2>0. UNCHANGED <<latest, live, answer, record, claims, tracked, problem, chosen, granted, panicked>>
    BY <1>1 DEF vars, cellVars
  <2>1. /\ FixedTypeOK /\ CellAssigns /\ Recorded /\ Snapshots /\ PinsExist /\ NoPanicInOrder
        /\ panicked \in BOOLEAN /\ granted \in Seq(Grant)
        /\ tracked = [s \in Solves |-> tracked[s]] /\ problem = [s \in Solves |-> problem[s]]
    BY DEF Inv
  <2>2. Numbered' /\ Grants' /\ AllInOrder' = AllInOrder
    BY <2>0, SameParts
  <2>3. FixedTypeOK' /\ CellAssigns'
    BY <2>0, <2>1 DEF FixedTypeOK, CellTypeOK, CellAssigns, Assignments
  <2>4. Recorded'
    BY <2>0, <2>1 DEF Recorded, Once
  <2>5. Snapshots'
    BY <2>0, <2>1, SameSnapshots
  <2>6. PinsExist' /\ NoPanicInOrder'
    BY <2>0, <2>1, <2>2 DEF PinsExist, NoPanicInOrder, InOrder
  <2> QED
    BY <2>0, <2>1, <2>2, <2>3, <2>4, <2>5, <2>6 DEF Inv
<1> QED
  BY <1>1, RequestKeepsInv, ReportKeepsInv, ClaimKeepsInv DEF FixedNext
-----------------------------------------------------------------------------
(* Theorems.                                                               *)

\* The inductive invariant.
THEOREM FixedInvariant == FixedSpec => []Inv
BY InitInv, StepInv, PTL DEF FixedSpec

\* Tickets, claims and the assignment in the cell keep their types.
THEOREM FixedTypeCorrect == FixedSpec => []FixedTypeOK
<1>1. Inv => FixedTypeOK
  BY DEF Inv
<1> QED
  BY <1>1, FixedInvariant, PTL

\* No claim returns what was computed before its request was filed.
THEOREM AnswersFollowRequests == FixedSpec => []NoAnswerBeforeRequest
<1>1. ASSUME Inv PROVE NoAnswerBeforeRequest
  <2> SUFFICES ASSUME NEW i \in DOMAIN granted
               PROVE  granted[i].ticket < granted[i].answered
    BY DEF NoAnswerBeforeRequest
  <2>0. FixedTypeOK /\ Grants /\ Numbered
    BY <1>1 DEF Inv
  <2>1. granted[i].answered \in 1..latest /\ granted[i].ticket \in DOMAIN problem[granted[i].answered]
    BY <2>0, Types, AssignmentType DEF Grants
  <2>2. PICK n \in 0..granted[i].answered : DOMAIN problem[granted[i].answered] = 0..(n - 1)
    BY <2>0, <2>1 DEF Numbered
  <2> QED
    BY <2>1, <2>2
<1> QED
  BY <1>1, FixedInvariant, PTL

\* Where ids are tickets and requests have times, request_resources never panics.
THEOREM InOrderNeverPanics == FixedSpec => []NoPanicInOrder
<1>1. Inv => NoPanicInOrder
  BY DEF Inv
<1> QED
  BY <1>1, FixedInvariant, PTL

\* What a robot was given by its only claim is what its snapshot held for it.
LEMMA BookingOfSnapshot ==
    ASSUME Inv, NEW j \in DOMAIN granted, Sound(j)
    PROVE  /\ granted[j].answered \in 1..latest
           /\ granted[j].ticket \in DOMAIN problem[granted[j].answered]
           /\ granted[j].from \in Assignments(problem[granted[j].answered])
           /\ Booking(j) = problem[granted[j].answered][granted[j].ticket][granted[j].from[granted[j].ticket] + 1]
<1> DEFINE s == granted[j].answered
           t == granted[j].ticket
<1>0. FixedTypeOK /\ Numbered /\ Grants /\ Snapshots /\ latest \in Nat
  BY Types DEF Inv
<1>1. /\ s \in 1..latest /\ s <= granted[j].newest
      /\ granted[j].from \in Assignments(problem[s])
      /\ t \in DOMAIN granted[j].from
      /\ granted[j].alternative = granted[j].from[t]
  BY <1>0 DEF Grants
<1>2. t \in DOMAIN problem[s] /\ t \in DOMAIN tracked[s]
  BY <1>0, <1>1, AssignmentType DEF Numbered
<1>3. tracked[s][t] = t
  BY <1>2 DEF Sound, InOrder
<1>4. \A k \in DOMAIN granted : granted[k].ticket = t => granted[k].newest >= s
  BY <1>0, <1>1 DEF Sound, Grants
<1>5. problem[s][t] = record[t + 1]
  BY <1>0, <1>1, <1>2, <1>3, <1>4 DEF Snapshots
<1> QED
  BY <1>1, <1>2, <1>5 DEF Booking

\* Of a robot that claimed before a snapshot, this holds its booking only.
LEMMA BookingPinned ==
    ASSUME Inv, NEW i \in DOMAIN granted, Sound(i),
           NEW s \in 1..latest, InOrder(s), s > granted[i].newest
    PROVE  /\ granted[i].ticket \in DOMAIN problem[s]
           /\ problem[s][granted[i].ticket] = <<Booking(i)>>
<1> DEFINE t == granted[i].ticket
<1>0. FixedTypeOK /\ Numbered /\ Grants /\ Snapshots /\ latest \in Nat
  BY Types DEF Inv
<1>1. granted[i].answered \in 1..granted[i].newest /\ granted[i].newest \in 1..latest
  BY <1>0 DEF Grants
<1>2. t \in DOMAIN problem[granted[i].answered]
  BY BookingOfSnapshot
<1>3. PICK n \in 0..granted[i].answered : DOMAIN problem[granted[i].answered] = 0..(n - 1)
  <2>1. granted[i].answered \in 1..latest
    BY <1>0, <1>1
  <2> QED
    BY <1>0, <2>1 DEF Numbered
<1>4. t \in 0..(s - 1)
  BY <1>0, <1>1, <1>2, <1>3
<1>5. t \in DOMAIN tracked[s] /\ tracked[s][t] = t /\ DOMAIN problem[s] = DOMAIN tracked[s]
  BY <1>0, <1>4 DEF InOrder, Numbered
<1>6. Once(i) /\ granted[i].newest < s
  BY <1>0, <1>1 DEF Sound, Once
<1> QED
  BY <1>0, <1>5, <1>6 DEF Snapshots, Booking

\* Bookings out of one assignment, and bookings that a later snapshot pins and
\* those made from it, never overlap.
THEOREM PinsHold == FixedSpec => []PinsKeepBookingsApart
<1>1. ASSUME Inv PROVE PinsKeepBookingsApart
  <2> SUFFICES ASSUME NEW i \in DOMAIN granted, NEW j \in DOMAIN granted,
                      i < j, Sound(i), Sound(j),
                      \/ /\ granted[j].answered = granted[i].answered
                         /\ granted[j].from = granted[i].from
                      \/ granted[j].answered > granted[i].newest
               PROVE  ~Overlap(Booking(i), Booking(j))
    BY DEF PinsKeepBookingsApart
  <2> DEFINE s == granted[j].answered
             p == problem[s]
             c == granted[j].from
             ti == granted[i].ticket
             tj == granted[j].ticket
  <2>1. /\ s \in 1..latest /\ tj \in DOMAIN p /\ c \in Assignments(p)
        /\ Booking(j) = p[tj][c[tj] + 1]
    BY <1>1, BookingOfSnapshot
  <2>2. i \in Nat /\ j \in Nat
    BY <1>1 DEF Inv
  <2>3. ti # tj
    BY <2>2 DEF Sound
  <2>4. ti \in DOMAIN p /\ Booking(i) = p[ti][c[ti] + 1]
    <3>1. CASE granted[j].answered = granted[i].answered /\ granted[j].from = granted[i].from
      BY <1>1, <3>1, BookingOfSnapshot
    <3>2. CASE granted[j].answered > granted[i].newest
      <4>1. ti \in DOMAIN p /\ p[ti] = <<Booking(i)>>
        BY <1>1, <2>1, <3>2, BookingPinned DEF Sound
      <4>2. c[ti] + 1 \in DOMAIN p[ti]
        BY <2>1, <4>1, AssignmentType
      <4> QED
        BY <4>1, <4>2
    <3> QED
      BY <3>1, <3>2
  <2> QED
    BY <2>1, <2>3, <2>4, AssignmentType
<1> QED
  BY <1>1, FixedInvariant, PTL
=============================================================================
