--------------------------- MODULE FixedReservations ---------------------------
(***************************************************************************)
(* FixedTimeReservationSystem of src/database/mod.rs: tickets, snapshots   *)
(* in which claimed tickets are pinned to their claim, and claims, over    *)
(* the cell its executor promises (SolutionCell, which AsyncExecutor       *)
(* implements).  ConflictTracker (src/algorithms/greedy_solver.rs) is      *)
(* modelled as far as it numbers requests and finds overlaps.              *)
(*                                                                         *)
(* Tickets, requests of a problem and alternatives are numbered from 0 in  *)
(* the code; the alternatives of a request are a sequence here, so         *)
(* alternative 0 is the first of the sequence.                             *)
(***************************************************************************)
EXTENDS SolutionCell, Sequences, FiniteSets

CONSTANTS
    Requests,       \* the lists of alternatives clients ask for
    MaxAlternatives,\* the longest of them
    Resources,      \* the resources the system was created with
    NoTime,         \* Option::None of a start or a duration
    MaxClaims       \* bound on the claims that return an alternative

\* The lists are sequences, none longer than MaxAlternatives.
ASSUME RequestsAssumption ==
    /\ MaxAlternatives \in Nat
    /\ \A q \in Requests : \E n \in 0..MaxAlternatives : DOMAIN q = 1..n

Tickets == 0..(MaxSolves - 1)
Unclaimed == MaxAlternatives    \* no alternative has this number

VARIABLES
    record,     \* the alternatives of ticket t are record[t + 1]
    claims,     \* per ticket: the alternative claimed, or Unclaimed
    tracked,    \* per snapshot: the ticket behind each request id
    problem,    \* per snapshot: the alternatives of each request id
    chosen,     \* the assignment in the cell: request id -> alternative
    granted,    \* the claims that returned an alternative, in order
    panicked    \* a call has panicked: its owner's thread unwinds

vars == <<cellVars, record, claims, tracked, problem, chosen, granted, panicked>>

\* ReservationRequestAlternative: a resource, a start range and a duration.
Alternative(r, e, l, d) == [resource |-> r, earliest |-> e, latest |-> l, duration |-> d]

FixedInit ==
    /\ CellInit
    /\ record = <<>>
    /\ claims = [t \in Tickets |-> Unclaimed]
    /\ tracked = [s \in Solves |-> <<>>]
    /\ problem = [s \in Solves |-> <<>>]
    /\ chosen = <<>>
    /\ granted = <<>>
    /\ panicked = FALSE
-----------------------------------------------------------------------------
(* The problem of a snapshot.                                              *)

Finish(a) == a.earliest + a.duration

\* generate_literals_and_remap_requests: a conflict is a shared instant, the
\* last one included.
Overlap(a, b) ==
    a.resource = b.resource /\ a.earliest <= Finish(b) /\ b.earliest <= Finish(a)

\* request_resources lets a range through that has no earliest start.
Accepted(alternatives) ==
    \A i \in DOMAIN alternatives :
        LET a == alternatives[i] IN a.earliest = a.latest \/ a.earliest = NoTime

\* ConflictTracker::request_resources skips a request with a resource it does
\* not know, and gives its id to the next one.
Known(alternatives) == \A i \in DOMAIN alternatives : alternatives[i].resource \in Resources

\* Mutant of Pinned: claims are not looked up.
PinnedNever(file, t) == file[t + 1]

\* What get_snapshot hands the tracker for a ticket: everything it asked for,
\* or, once it is claimed, the one alternative claimed.
Pinned(file, t) ==
    IF claims[t] = Unclaimed THEN file[t + 1] ELSE <<file[t + 1][claims[t] + 1]>>

\* record[*index] out of bounds.
BadPin(file, t) == claims[t] # Unclaimed /\ claims[t] + 1 \notin DOMAIN file[t + 1]

\* unwrap of a start or a duration that is not there.
Untimed(alternatives) ==
    \E i \in DOMAIN alternatives :
        alternatives[i].earliest = NoTime \/ alternatives[i].duration = NoTime

\* Every ticket the tracker takes, in the order get_snapshot walks a HashMap.
Walks(tickets) ==
    {w \in [0..(Cardinality(tickets) - 1) -> tickets] :
        \A i, j \in DOMAIN w : w[i] = w[j] => i = j}

\* The snapshot cannot be taken: a claim or a time is not there.
SnapshotPanics(file) ==
    \E t \in 0..(Len(file) - 1) :
        ~BadPin(file, t) => Known(Pinned(file, t)) /\ Untimed(Pinned(file, t))

\* get_snapshot and attempt_solve.
TakeSnapshot(file) ==
    \E walk \in Walks({t \in 0..(Len(file) - 1) : Known(Pinned(file, t))}) :
        /\ tracked' = [tracked EXCEPT ![latest + 1] = walk]
        /\ problem' = [problem EXCEPT ![latest + 1] = [id \in DOMAIN walk |-> Pinned(file, walk[id])]]
        /\ NewSnapshot

\* request_resources.  The request is filed before the snapshot is taken: a
\* panic leaves it filed and starts no solve.
RequestResources(alternatives) ==
    LET file == Append(record, alternatives) IN
    /\ ~panicked
    /\ latest < MaxSolves
    /\ Accepted(alternatives)
    /\ record' = file
    /\ \/ /\ SnapshotPanics(file)
          /\ panicked' = TRUE
          /\ UNCHANGED <<cellVars, tracked, problem>>
       \/ /\ ~SnapshotPanics(file)
          /\ TakeSnapshot(file)
          /\ UNCHANGED panicked
    /\ UNCHANGED <<claims, chosen, granted>>
-----------------------------------------------------------------------------
(* Answers and claims.                                                     *)

\* Mutant of Assignments: what was left unassigned is dropped, not refused.
AssignmentsPartial(p) ==
    {c \in UNION {[ids -> 0..(MaxAlternatives - 1)] : ids \in SUBSET DOMAIN p} :
        /\ \A id \in DOMAIN c : c[id] + 1 \in DOMAIN p[id]
        /\ \A i, j \in DOMAIN c : i # j => ~Overlap(p[i][c[i] + 1], p[j][c[j] + 1])}

\* One alternative per request id, none of them overlapping.  A request
\* without alternatives leaves none to choose from.
Assignments(p) ==
    {c \in [DOMAIN p -> 0..(MaxAlternatives - 1)] :
        /\ \A id \in DOMAIN p : c[id] + 1 \in DOMAIN p[id]
        /\ \A i, j \in DOMAIN p : i # j => ~Overlap(p[i][c[i] + 1], p[j][c[j] + 1])}

\* A live solve, superseded or not, reports an assignment for its snapshot.
ReportAssignment(s) ==
    /\ Publish(s)
    /\ answer'.kind \in {"Partial", "Optimal"}
    /\ chosen' \in Assignments(problem[s])
    /\ UNCHANGED <<record, claims, tracked, problem, granted, panicked>>

\* A live solve reports that there is none, or that it was stopped.
ReportUnSolveable(s) ==
    /\ Publish(s)
    /\ answer'.kind = "UnSolveable"
    /\ chosen' = <<>>
    /\ UNCHANGED <<record, claims, tracked, problem, granted, panicked>>

\* What claim_request returned, and for the record: the solve and the whole
\* assignment it came from, and the newest snapshot at that time.
Claim(t, alt) ==
    [ticket |-> t, alternative |-> alt, answered |-> answer.solve, from |-> chosen, newest |-> latest]

\* Mutant of ClaimRequest: the first assignment of the answer is handed out.
ClaimRequestFirst(t) ==
    /\ ~panicked
    /\ t < latest
    /\ Len(granted) < MaxClaims
    /\ \E id \in DOMAIN chosen :
          /\ claims' = [claims EXCEPT ![t] = chosen[id]]
          /\ granted' = Append(granted, Claim(t, chosen[id]))
    /\ UNCHANGED <<cellVars, record, tracked, problem, chosen, panicked>>

\* claim_request: look the ticket up in the assignment and record the claim,
\* over an earlier one if there is one.  With no assignment in the cell, or
\* none for this id, it returns None and changes nothing.
ClaimRequest(t) ==
    /\ ~panicked
    /\ t < latest
    /\ Len(granted) < MaxClaims
    /\ t \in DOMAIN chosen
    /\ claims' = [claims EXCEPT ![t] = chosen[t]]
    /\ granted' = Append(granted, Claim(t, chosen[t]))
    /\ UNCHANGED <<cellVars, record, tracked, problem, chosen, panicked>>

FixedNext ==
    \/ \E alternatives \in Requests : RequestResources(alternatives)
    \/ \E s \in Solves : ReportAssignment(s) \/ ReportUnSolveable(s)
    \/ \E t \in Tickets : ClaimRequest(t)

FixedSpec == FixedInit /\ [][FixedNext]_vars
-----------------------------------------------------------------------------
(* Properties.                                                             *)

\* Request ids of solve s are tickets: the tracker skipped none and the walk
\* of the HashMap was in ascending order.
InOrder(s) == tracked[s] = [id \in 0..(s - 1) |-> id]

\* Claim i was made of a ticket that is claimed once, out of a solve whose ids
\* are tickets; Booking(i) is then what its robot was given.
Sound(i) ==
    /\ InOrder(granted[i].answered)
    /\ \A j \in DOMAIN granted : granted[j].ticket = granted[i].ticket => j = i
Booking(i) == record[granted[i].ticket + 1][granted[i].alternative + 1]

FixedTypeOK ==
    /\ CellTypeOK
    /\ record \in Seq(Requests)
    /\ Len(record) = IF panicked THEN latest + 1 ELSE latest
    /\ claims \in [Tickets -> 0..Unclaimed]
    /\ \A s \in 1..latest : DOMAIN tracked[s] = DOMAIN problem[s]
    /\ answer.kind \in {"Partial", "Optimal"} => DOMAIN chosen = DOMAIN problem[answer.solve]

\* An answer that is older than a ticket cannot be claimed for it: a claim
\* right after a request never returns what was computed without the request.
NoAnswerBeforeRequest ==
    \A i \in DOMAIN granted : granted[i].ticket < granted[i].answered

\* Bookings claimed out of one assignment of one solve do not overlap, nor
\* does a booking overlap one that was claimed before its snapshot was taken:
\* the pin in get_snapshot keeps later solves away from it.
PinsKeepBookingsApart ==
    \A i, j \in DOMAIN granted :
        /\ i < j /\ Sound(i) /\ Sound(j)
        /\ \/ /\ granted[j].answered = granted[i].answered
              /\ granted[j].from = granted[i].from
           \/ granted[j].answered > granted[i].newest
        => ~Overlap(Booking(i), Booking(j))

\* Where request ids are tickets, no legal sequence of requests with times and
\* of claims, repeated ones included, makes request_resources panic.
NoPanicInOrder ==
    /\ \A s \in 1..latest : InOrder(s)
    /\ \A t \in DOMAIN record : ~Untimed(record[t])
    => ~panicked

\* "The system will then assign the robot to said resource": two robots are
\* never assigned one resource at one time, whatever the solves improved on or
\* started from between their claims.
BookingsDisjoint ==
    \A i, j \in DOMAIN granted :
        i < j /\ Sound(i) /\ Sound(j) => ~Overlap(Booking(i), Booking(j))
=============================================================================
