--------------------------- MODULE ConversionProofs ---------------------------
(***************************************************************************)
(* Theorems about Conversion, for every number of runs, workers, attempts  *)
(* and renewals, every grouping of runs into versions of documents, every  *)
(* set of artifacts and profiles, and every number of deaths.  The first   *)
(* part is about the transactions of ConversionRuntime alone, the second   *)
(* about the handlers that call them, the third about the automatic        *)
(* handoff.                                                                *)
(***************************************************************************)
EXTENDS Conversion, TLAPS, SequenceTheorems, FiniteSetTheorems

\* What the properties of the runtime rest on.  A run that was not dispatched has
\* no attempt, and one that has not started, or never will, has no event of its
\* start.
Untouched(r) == run[r].status = "NONE" => attempts[r] = <<>>

Start == <<"PENDING", "RUNNING">>
Starts(r) == {i \in DOMAIN run[r].events: run[r].events[i] = Start}

StartsOnce(r) ==
  /\ run[r].status \in {"NONE", "PENDING", "CANCELLED"} => Starts(r) = {}
  /\ \A i, j \in Starts(r): i = j

EventsInv == EventsTellTheRun /\ \A r \in Runs: StartsOnce(r)

RuntimeInv ==
  /\ RuntimeTypeOK
  /\ LeasesFollowRuns
  /\ EventsInv
  /\ \A r \in Runs: Untouched(r)

\* What no transaction does: it takes no attempt away and reopens none.
AttemptsStay == \A r \in Runs: Len(attempts[r]) <= Len(attempts'[r])
Sound == RuntimeInv' /\ AttemptsStay /\ ClosedStaysClosed

\* Only a verifier decides about a run whose output was reported.
NoVerdict ==
  \A r \in Runs: run'[r].status # run[r].status =>
    run[r].status \in {"NONE", "PENDING", "RUNNING"} /\ run'[r].status # "COMPLETED"

-----------------------------------------------------------------------------
(* The transactions of ConversionRuntime. *)

\* One attempt of one run becomes a; nothing else of the attempts changes.
Rewritten(r, n, a) ==
  /\ attempts' \in [Runs -> Seq(Attempt)]
  /\ \A q \in Runs: Len(attempts'[q]) = Len(attempts[q])
  /\ \A q \in Runs: \A i \in 1 .. Len(attempts[q]):
       attempts'[q][i] = IF q = r /\ i = n THEN a ELSE attempts[q][i]

LEMMA Rewriting ==
  ASSUME RuntimeTypeOK, NEW r \in Runs, NEW n \in 1 .. Len(attempts[r]), NEW a \in Attempt,
         attempts' = [attempts EXCEPT ![r] = [attempts[r] EXCEPT ![n] = a]]
  PROVE  Rewritten(r, n, a)
<1> DEFINE s == attempts[r]
           t == [s EXCEPT ![n] = a]
<1>1. s \in Seq(Attempt) /\ attempts \in [Runs -> Seq(Attempt)]  BY DEF RuntimeTypeOK
<1>2. /\ t \in Seq(Attempt)
      /\ Len(t) = Len(s)
      /\ \A i \in 1 .. Len(s): t[i] = IF i = n THEN a ELSE s[i]
  BY <1>1, ExceptSeq
<1>3. attempts' = [attempts EXCEPT ![r] = t]  OBVIOUS
<1> HIDE DEF t
<1> QED  BY <1>1, <1>2, <1>3 DEF Rewritten

\* What the operations write is an attempt whose fields are as before but for
\* those that are named.
LEMMA AttemptFields ==
  ASSUME RuntimeTypeOK, NEW r \in Runs, NEW n \in 1 .. Len(attempts[r])
  PROVE  /\ attempts[r][n] \in Attempt
         /\ \A status \in AttemptStatus, lease \in LeaseStatus:
              [attempts[r][n] EXCEPT !.status = status, !.lease = lease] \in Attempt
<1>1. attempts[r][n] \in Attempt  BY ElementOfSeq DEF RuntimeTypeOK
<1>2. \A a \in Attempt, status \in AttemptStatus, lease \in LeaseStatus:
        [a EXCEPT !.status = status, !.lease = lease] \in Attempt
  BY DEF Attempt
<1> QED  BY <1>1, <1>2

LEMMA Closing ==
  ASSUME RuntimeTypeOK, NEW r \in Runs, attempts[r] # <<>>,
         NEW status \in AttemptStatus, NEW lease \in LeaseStatus, Close(r, status, lease)
  PROVE  \E a \in Attempt: /\ Rewritten(r, Len(attempts[r]), a)
                           /\ a.status = status /\ a.lease = lease
<1> DEFINE n == Len(attempts[r])
           a == [attempts[r][n] EXCEPT !.status = status, !.lease = lease]
<1>1. attempts \in [Runs -> Seq(Attempt)] /\ n \in 1 .. Len(attempts[r])
  BY EmptySeq DEF RuntimeTypeOK
<1>2. a \in Attempt /\ attempts[r][n] \in Attempt  BY <1>1, AttemptFields
<1>3. attempts' = [attempts EXCEPT ![r] = [attempts[r] EXCEPT ![n] = a]]
  BY <1>1, <1>2 DEF Close
<1>4. Rewritten(r, n, a)  BY <1>1, <1>2, <1>3, Rewriting
<1>5. a.status = status /\ a.lease = lease  BY <1>2 DEF Attempt
<1> QED  BY <1>2, <1>4, <1>5

\* Whatever ends nothing: a renewal, a read and the passing of time.
Quiet(r) ==
  \E n \in 1 .. Len(attempts[r]): \E a \in Attempt:
    /\ Rewritten(r, n, a)
    /\ a.status = attempts[r][n].status /\ a.lease = attempts[r][n].lease

LEMMA LeasedHasLatest ==
  ASSUME RuntimeTypeOK, LeasesFollowRuns, NEW r \in Runs, Leased(r)
  PROVE  /\ attempts[r] # <<>>
         /\ Len(attempts[r]) \in 1 .. Len(attempts[r])
         /\ Latest(r).lease = "ACTIVE" /\ Latest(r).status \in {"CLAIMED", "STARTED"}
<1>1. attempts[r] \in Seq(Attempt)  BY DEF RuntimeTypeOK
<1>2. PICK i \in 1 .. Len(attempts[r]): attempts[r][i].lease = "ACTIVE"
  BY <1>1 DEF Leased
<1>3. i = Len(attempts[r]) /\ attempts[r][i].status \in {"CLAIMED", "STARTED"}
  BY <1>1, <1>2 DEF LeasesFollowRuns
<1> QED  BY <1>1, <1>2, <1>3 DEF Latest

LEMMA RenewalIsQuiet ==
  ASSUME RuntimeTypeOK, LeasesFollowRuns, RuntimeAssumption, NEW r \in Runs, renewLease(r)
  PROVE  Quiet(r)
<1> DEFINE n == Len(attempts[r])
           a == [attempts[r][n] EXCEPT !.generation = @ + 1]
<1>1. n \in 1 .. Len(attempts[r]) /\ attempts[r][n] \in Attempt
  BY LeasedHasLatest, AttemptFields DEF renewLease
<1>2. attempts[r][n].generation + 1 \in 1 .. MaxGeneration
  BY <1>1 DEF renewLease, Latest, Attempt, RuntimeAssumption
<1>3. a \in Attempt /\ a.status = attempts[r][n].status /\ a.lease = attempts[r][n].lease
  BY <1>1, <1>2 DEF Attempt
<1>4. attempts' = [attempts EXCEPT ![r] = [attempts[r] EXCEPT ![n] = a]]
  BY <1>1 DEF renewLease, RuntimeTypeOK
<1> QED  BY <1>1, <1>3, <1>4, Rewriting DEF Quiet

LEMMA ReadIsQuiet ==
  ASSUME RuntimeTypeOK, NEW r \in Runs, NEW n \in 1 .. Len(attempts[r]), readInput(r, n)
  PROVE  Quiet(r)
<1> DEFINE a == [attempts[r][n] EXCEPT !.read = TRUE]
<1>1. attempts[r][n] \in Attempt  BY AttemptFields
<1>2. a \in Attempt /\ a.status = attempts[r][n].status /\ a.lease = attempts[r][n].lease
  BY <1>1 DEF Attempt
<1>3. attempts' = [attempts EXCEPT ![r] = [attempts[r] EXCEPT ![n] = a]]
  BY <1>1 DEF readInput, RuntimeTypeOK
<1> QED  BY <1>2, <1>3, Rewriting DEF Quiet

LEMMA TimeIsQuiet ==
  ASSUME RuntimeTypeOK, LeasesFollowRuns, NEW r \in Runs, LeaseLapses(r) \/ GrantsLapse(r)
  PROVE  Quiet(r)
<1> DEFINE n == Len(attempts[r])
<1>1. n \in 1 .. Len(attempts[r]) /\ attempts[r][n] \in Attempt
  BY LeasedHasLatest, AttemptFields DEF LeaseLapses, GrantsLapse
<1>2. CASE LeaseLapses(r)
  <2> DEFINE lapse == attempts[r][n].grantsLapsed \/ attempts[r][n].generation = 1
             a == [attempts[r][n] EXCEPT !.lapsed = TRUE, !.grantsLapsed = lapse]
  <2>1. a \in Attempt /\ a.status = attempts[r][n].status /\ a.lease = attempts[r][n].lease
    BY <1>1 DEF Attempt
  <2>2. attempts' = [attempts EXCEPT ![r] = [attempts[r] EXCEPT ![n] = a]]
    BY <1>1, <1>2 DEF LeaseLapses, RuntimeTypeOK, Latest
  <2> QED  BY <1>1, <2>1, <2>2, Rewriting DEF Quiet
<1>3. CASE GrantsLapse(r)
  <2> DEFINE a == [attempts[r][n] EXCEPT !.grantsLapsed = TRUE]
  <2>1. a \in Attempt /\ a.status = attempts[r][n].status /\ a.lease = attempts[r][n].lease
    BY <1>1 DEF Attempt
  <2>2. attempts' = [attempts EXCEPT ![r] = [attempts[r] EXCEPT ![n] = a]]
    BY <1>1, <1>3 DEF GrantsLapse, RuntimeTypeOK
  <2> QED  BY <1>1, <2>1, <2>2, Rewriting DEF Quiet
<1> QED  BY <1>2, <1>3

LEMMA AtMostOne ==
  ASSUME NEW S, \A i, j \in S: i = j
  PROVE  Cardinality(S) <= 1
<1>1. CASE S = {}  BY <1>1, FS_EmptySet
<1>2. CASE S # {}
  <2>1. PICK i: S = {i}  BY <1>2
  <2>2. Cardinality({i}) = 1  BY FS_Singleton
  <2> QED  BY <2>1, <2>2
<1> QED  BY <1>1, <1>2

\* A row and its event are written together, along the state machine.
LEMMA TransitionKeepsEvents ==
  ASSUME RuntimeTypeOK, EventsInv, NEW r \in Runs, NEW to \in RunStatus,
         <<run[r].status, to>> \in ALLOWED_TRANSITIONS, Transition(r, to)
  PROVE  /\ run' \in [Runs -> [status: RunStatus, events: Seq(RunStatus \X RunStatus)]]
         /\ run'[r].status = to
         /\ \A q \in Runs \ {r}: run'[q] = run[q]
         /\ EventsInv'
<1> DEFINE st == run[r].status
           e == run[r].events
           f == Append(e, <<st, to>>)
<1>1. /\ st \in RunStatus /\ e \in Seq(RunStatus \X RunStatus)
      /\ run \in [Runs -> [status: RunStatus, events: Seq(RunStatus \X RunStatus)]]
  BY DEF RuntimeTypeOK
<1>2. run' = [run EXCEPT ![r] = [status |-> to, events |-> f]]  BY <1>1 DEF Transition
<1>3. /\ f \in Seq(RunStatus \X RunStatus) /\ f # <<>>
      /\ Len(e) \in Nat /\ DOMAIN e = 1 .. Len(e)
      /\ DOMAIN f = 1 .. Len(e) + 1 /\ Len(f) = Len(e) + 1
      /\ \A i \in 1 .. Len(e): f[i] = e[i]
      /\ f[Len(e) + 1] = <<st, to>>
  <2>1. <<st, to>> \in RunStatus \X RunStatus  BY <1>1
  <2> HIDE DEF e, st
  <2> QED  BY <1>1, <2>1, AppendProperties, LenProperties
<1> HIDE DEF f
<1>4. run'[r].status = to /\ run'[r].events = f /\ \A q \in Runs \ {r}: run'[q] = run[q]
  BY <1>1, <1>2
<1>5. run' \in [Runs -> [status: RunStatus, events: Seq(RunStatus \X RunStatus)]]
  BY <1>1, <1>2, <1>3
<1>6. \A q \in Runs: StartsOnce(q)'
  <2>1. \A q \in Runs \ {r}: StartsOnce(q)'  BY <1>4 DEF EventsInv, StartsOnce, Starts
  <2>2. CASE <<st, to>> = Start
    <3>1. st = "PENDING" /\ to = "RUNNING"  BY <2>2 DEF Start
    <3>2. \A i \in 1 .. Len(e): e[i] # Start
      BY <1>3, <3>1 DEF EventsInv, StartsOnce, Starts
    <3>3. \A i \in DOMAIN f: f[i] = Start => i = Len(e) + 1  BY <1>3, <3>2
    <3> QED  BY <1>4, <2>1, <3>1, <3>3 DEF StartsOnce, Starts
  <2>3. CASE <<st, to>> # Start
    <3>1. \A i \in DOMAIN f: f[i] = Start => i \in 1 .. Len(e) /\ e[i] = Start  BY <1>3, <2>3
    <3>2. to \in {"NONE", "PENDING", "CANCELLED"} => st \in {"NONE", "PENDING", "CANCELLED"}
      BY DEF ALLOWED_TRANSITIONS
    <3>3. /\ st \in {"NONE", "PENDING", "CANCELLED"} => \A i \in 1 .. Len(e): e[i] # Start
          /\ \A i, j \in 1 .. Len(e): e[i] = Start /\ e[j] = Start => i = j
      BY <1>3 DEF EventsInv, StartsOnce, Starts
    <3>4. StartsOnce(r)'  BY <1>4, <3>1, <3>2, <3>3 DEF StartsOnce, Starts
    <3> QED  BY <2>1, <3>4
  <2> QED  BY <2>2, <2>3
<1>7. EventsTellTheRun'
  <2> SUFFICES ASSUME NEW q \in Runs
               PROVE  LET g == run'[q].events
                      IN  /\ run'[q].status = (IF g = <<>> THEN "NONE" ELSE g[Len(g)][2])
                          /\ \A i \in DOMAIN g:
                               /\ g[i][1] = (IF i = 1 THEN "NONE" ELSE g[i - 1][2])
                               /\ g[i] \in ALLOWED_TRANSITIONS
                          /\ Cardinality({i \in DOMAIN g: g[i] = <<"PENDING", "RUNNING">>}) <= 1
    BY DEF EventsTellTheRun
  <2>1. CASE q # r
    <3>1. run'[q] = run[q]  BY <1>4, <2>1
    <3> DEFINE g == run[q].events
    <3>2. /\ run[q].status = (IF g = <<>> THEN "NONE" ELSE g[Len(g)][2])
          /\ \A i \in DOMAIN g:
               /\ g[i][1] = (IF i = 1 THEN "NONE" ELSE g[i - 1][2])
               /\ g[i] \in ALLOWED_TRANSITIONS
          /\ Cardinality({i \in DOMAIN g: g[i] = <<"PENDING", "RUNNING">>}) <= 1
      BY DEF EventsInv, EventsTellTheRun
    <3> QED  BY Zenon, <3>1, <3>2
  <2>2. CASE q = r
    <3>1. /\ st = (IF e = <<>> THEN "NONE" ELSE e[Len(e)][2])
          /\ \A i \in DOMAIN e: /\ e[i][1] = (IF i = 1 THEN "NONE" ELSE e[i - 1][2])
                                /\ e[i] \in ALLOWED_TRANSITIONS
      BY DEF EventsInv, EventsTellTheRun
    <3>2. e = <<>> <=> Len(e) = 0  BY <1>1, EmptySeq
    <3>3. \A i \in DOMAIN f: /\ f[i][1] = (IF i = 1 THEN "NONE" ELSE f[i - 1][2])
                             /\ f[i] \in ALLOWED_TRANSITIONS
      <4> SUFFICES ASSUME NEW i \in DOMAIN f
                   PROVE  /\ f[i][1] = (IF i = 1 THEN "NONE" ELSE f[i - 1][2])
                          /\ f[i] \in ALLOWED_TRANSITIONS
        OBVIOUS
      <4>1. CASE i \in 1 .. Len(e)
        <5>1. i # 1 => i - 1 \in 1 .. Len(e)  BY <1>3, <4>1
        <5> QED  BY <1>3, <3>1, <4>1, <5>1
      <4>2. CASE i = Len(e) + 1
        <5>1. f[i][1] = st /\ f[i] = <<st, to>>  BY <1>3, <4>2
        <5>2. i # 1 => f[i - 1] = e[Len(e)] /\ e # <<>>
          <6>1. i - 1 = Len(e) /\ Len(e) \in Nat  BY <1>3, <4>2
          <6>2. i # 1 => Len(e) \in 1 .. Len(e)  BY <1>3, <4>2
          <6>3. i # 1 => Len(e) # 0  BY <6>2
          <6> QED  BY <1>3, <3>2, <6>1, <6>2, <6>3
        <5>3. i = 1 => e = <<>>  BY <1>3, <3>2, <4>2
        <5>4. f[i] \in ALLOWED_TRANSITIONS  BY <5>1
        <5>5. f[i][1] = (IF i = 1 THEN "NONE" ELSE f[i - 1][2])
          BY <3>1, <5>1, <5>2, <5>3
        <5> QED  BY <5>4, <5>5
      <4> QED  BY <1>3, <4>1, <4>2
    <3>4. to = f[Len(f)][2]  BY <1>3
    <3>5. \A i, j \in {k \in DOMAIN f: f[k] = <<"PENDING", "RUNNING">>}: i = j
      BY <1>4, <1>6 DEF StartsOnce, Starts, Start
    <3>6. Cardinality({i \in DOMAIN f: f[i] = <<"PENDING", "RUNNING">>}) <= 1
      BY <3>5, AtMostOne
    <3> QED  BY <1>3, <1>4, <2>2, <3>3, <3>4, <3>6
  <2> QED  BY <2>1, <2>2
<1> QED  BY <1>4, <1>5, <1>6, <1>7 DEF EventsInv

-----------------------------------------------------------------------------
(* Each transaction keeps what the properties rest on. *)

\* LeasesFollowRuns of one run.
LeasesFollow(r) ==
  /\ \A i \in DOMAIN attempts[r]:
       attempts[r][i].lease = "ACTIVE" => /\ i = Len(attempts[r])
                                          /\ attempts[r][i].status \in {"CLAIMED", "STARTED"}
  /\ run[r].status \in {"PENDING", "CANCELLED"} =>
       \A i \in DOMAIN attempts[r]: attempts[r][i].status \in {"CLAIMED", "ABANDONED", "LEASE_LOST"}
  /\ run[r].status = "RUNNING" => /\ attempts[r] # <<>>
                                  /\ Latest(r).status = "STARTED"
                                  /\ Latest(r).lease = "ACTIVE"
  /\ run[r].status \in {"VERIFYING", "COMPLETED", "FAILED"} => ~Leased(r)
  /\ run[r].status \in {"VERIFYING", "COMPLETED"} => /\ attempts[r] # <<>>
                                                     /\ Latest(r).status = "OUTPUT_REPORTED"

LEMMA LeasesOfEach ==
  /\ LeasesFollowRuns <=> \A r \in Runs: LeasesFollow(r)
  /\ LeasesFollowRuns' <=> \A r \in Runs: LeasesFollow(r)'
BY DEF LeasesFollowRuns, LeasesFollow

LEMMA EventsAsBefore ==
  ASSUME EventsInv, run' = run
  PROVE  EventsInv'
<1>1. (\A r \in Runs: StartsOnce(r))'  BY DEF EventsInv, StartsOnce, Starts
<1>2. EventsTellTheRun'
  <2> SUFFICES ASSUME NEW q \in Runs
               PROVE  LET g == run'[q].events
                      IN  /\ run'[q].status = (IF g = <<>> THEN "NONE" ELSE g[Len(g)][2])
                          /\ \A i \in DOMAIN g:
                               /\ g[i][1] = (IF i = 1 THEN "NONE" ELSE g[i - 1][2])
                               /\ g[i] \in ALLOWED_TRANSITIONS
                          /\ Cardinality({i \in DOMAIN g: g[i] = <<"PENDING", "RUNNING">>}) <= 1
    BY DEF EventsTellTheRun
  <2> DEFINE g == run[q].events
  <2>1. /\ run[q].status = (IF g = <<>> THEN "NONE" ELSE g[Len(g)][2])
        /\ \A i \in DOMAIN g:
             /\ g[i][1] = (IF i = 1 THEN "NONE" ELSE g[i - 1][2])
             /\ g[i] \in ALLOWED_TRANSITIONS
        /\ Cardinality({i \in DOMAIN g: g[i] = <<"PENDING", "RUNNING">>}) <= 1
    BY DEF EventsInv, EventsTellTheRun
  <2>2. run'[q] = run[q]  OBVIOUS
  <2> QED  BY Zenon, <2>1, <2>2
<1> QED  BY <1>1, <1>2 DEF EventsInv

LEMMA QuietIsSound ==
  ASSUME RuntimeInv, NEW r \in Runs, Quiet(r), UNCHANGED <<run, created, issued, reports>>
  PROVE  Sound /\ NoVerdict
<1>1. PICK n \in 1 .. Len(attempts[r]), a \in Attempt:
        /\ Rewritten(r, n, a)
        /\ a.status = attempts[r][n].status /\ a.lease = attempts[r][n].lease
  BY DEF Quiet
<1>2. /\ \A q \in Runs: attempts[q] \in Seq(Attempt) /\ attempts'[q] \in Seq(Attempt)
      /\ \A q \in Runs: Len(attempts'[q]) = Len(attempts[q])
      /\ \A q \in Runs: \A i \in 1 .. Len(attempts[q]):
           /\ attempts'[q][i].status = attempts[q][i].status
           /\ attempts'[q][i].lease = attempts[q][i].lease
  BY <1>1 DEF Rewritten, RuntimeInv, RuntimeTypeOK
<1>3. RuntimeTypeOK'
  BY <1>1, <1>2 DEF Rewritten, RuntimeInv, RuntimeTypeOK
<1>4. \A q \in Runs: attempts'[q] = <<>> <=> attempts[q] = <<>>  BY <1>2, EmptySeq
<1>5. LeasesFollowRuns'
  <2> SUFFICES ASSUME NEW q \in Runs  PROVE LeasesFollow(q)'
    BY LeasesOfEach
  <2>1. LeasesFollow(q)  BY LeasesOfEach DEF RuntimeInv
  <2>2. /\ DOMAIN attempts[q] = 1 .. Len(attempts[q])
        /\ DOMAIN attempts'[q] = 1 .. Len(attempts[q]) /\ Len(attempts'[q]) = Len(attempts[q])
        /\ run'[q] = run[q]
    BY <1>2
  <2>3. attempts[q] # <<>> => Len(attempts[q]) \in 1 .. Len(attempts[q])
    BY <1>2, EmptySeq
  <2>4. \A i \in DOMAIN attempts'[q]:
          /\ i \in DOMAIN attempts[q]
          /\ attempts'[q][i].status = attempts[q][i].status
          /\ attempts'[q][i].lease = attempts[q][i].lease
    BY <1>2, <2>2
  <2>5. Leased(q)' => Leased(q)  BY <2>4 DEF Leased
  <2>6. attempts[q] # <<>> => /\ attempts'[q] # <<>>
                             /\ Latest(q)'.status = Latest(q).status
                             /\ Latest(q)'.lease = Latest(q).lease
    BY <1>2, <1>4, <2>2, <2>3 DEF Latest
  <2> QED  BY <2>1, <2>2, <2>4, <2>5, <2>6 DEF LeasesFollow
<1>6. EventsInv' /\ \A q \in Runs: Untouched(q)'
  BY <1>4, EventsAsBefore DEF RuntimeInv, Untouched
<1>7. AttemptsStay /\ ClosedStaysClosed /\ NoVerdict
  BY <1>2 DEF AttemptsStay, ClosedStaysClosed, NoVerdict
<1> QED  BY <1>3, <1>5, <1>6, <1>7 DEF RuntimeInv, Sound

\* A transition of a run that writes no attempt.
LEMMA DispatchIsSound ==
  ASSUME RuntimeInv, NEW r \in Runs, dispatch(r) \/ cancel(r)
  PROVE  Sound /\ NoVerdict
<1>1. PICK to \in {"PENDING", "CANCELLED"}:
        /\ Transition(r, to) /\ <<run[r].status, to>> \in ALLOWED_TRANSITIONS
        /\ to = "PENDING" => run[r].status = "NONE"
        /\ to = "CANCELLED" => run[r].status = "PENDING"
  BY DEF dispatch, cancel, ALLOWED_TRANSITIONS
<1>2. attempts' = attempts /\ issued' = issued /\ reports' = reports
  BY DEF dispatch, cancel
<1>3. created' \in Seq(Runs)
  <2>1. created \in Seq(Runs)  BY DEF RuntimeInv, RuntimeTypeOK
  <2> QED  BY <2>1, AppendProperties DEF dispatch, cancel
<1>4. to \in RunStatus  BY DEF RunStatus
<1>5. /\ run' \in [Runs -> [status: RunStatus, events: Seq(RunStatus \X RunStatus)]]
      /\ run'[r].status = to
      /\ \A q \in Runs \ {r}: run'[q] = run[q]
      /\ EventsInv'
  BY <1>1, <1>4, TransitionKeepsEvents DEF RuntimeInv
<1>6. RuntimeTypeOK'  BY <1>2, <1>3, <1>5 DEF RuntimeInv, RuntimeTypeOK
<1>7. attempts[r] \in Seq(Attempt)  BY DEF RuntimeInv, RuntimeTypeOK
<1>8. LeasesFollowRuns'
  BY <1>1, <1>2, <1>5, <1>7, EmptySeq
  DEF RuntimeInv, LeasesFollowRuns, Latest, Leased, Untouched
<1>9. /\ \A q \in Runs: Untouched(q)'
      /\ AttemptsStay /\ ClosedStaysClosed /\ NoVerdict
  <2>1. \A q \in Runs: Len(attempts[q]) \in Nat  BY DEF RuntimeInv, RuntimeTypeOK
  <2>2. \A q \in Runs: Untouched(q)'  BY <1>2, <1>5 DEF RuntimeInv, Untouched
  <2>3. AttemptsStay /\ ClosedStaysClosed
    BY <1>2, <2>1 DEF AttemptsStay, ClosedStaysClosed
  <2>4. NoVerdict  BY <1>1, <1>5 DEF NoVerdict
  <2> QED  BY <2>2, <2>3, <2>4
<1> QED  BY <1>5, <1>6, <1>8, <1>9 DEF RuntimeInv, Sound

LEMMA VerdictIsSound ==
  ASSUME RuntimeInv, NEW r \in Runs, completeVerification(r) \/ failVerification(r)
  PROVE  Sound
<1>1. PICK to \in {"COMPLETED", "FAILED"}:
        /\ Transition(r, to) /\ <<run[r].status, to>> \in ALLOWED_TRANSITIONS
        /\ run[r].status = "VERIFYING"
  BY DEF completeVerification, failVerification, ALLOWED_TRANSITIONS
<1>2. attempts' = attempts /\ created' = created /\ issued' = issued /\ reports' = reports
  BY DEF completeVerification, failVerification
<1>3. to \in RunStatus  BY DEF RunStatus
<1>4. /\ run' \in [Runs -> [status: RunStatus, events: Seq(RunStatus \X RunStatus)]]
      /\ run'[r].status = to
      /\ \A q \in Runs \ {r}: run'[q] = run[q]
      /\ EventsInv'
  BY <1>1, <1>3, TransitionKeepsEvents DEF RuntimeInv
<1>5. RuntimeTypeOK'  BY <1>2, <1>4 DEF RuntimeInv, RuntimeTypeOK
<1>6. LeasesFollowRuns'
  BY <1>1, <1>2, <1>4 DEF RuntimeInv, LeasesFollowRuns, Latest, Leased
<1>7. (\A q \in Runs: Untouched(q)') /\ AttemptsStay /\ ClosedStaysClosed
  <2>1. \A q \in Runs: Len(attempts[q]) \in Nat  BY DEF RuntimeInv, RuntimeTypeOK
  <2> QED
    BY <1>1, <1>2, <1>4, <2>1
    DEF RuntimeInv, Untouched, AttemptsStay, ClosedStaysClosed
<1> QED  BY <1>4, <1>5, <1>6, <1>7 DEF RuntimeInv, Sound

\* The latest attempt, whose lease is active, becomes one that fits what the run
\* becomes.
LEMMA RewritingLatestIsSound ==
  ASSUME RuntimeInv, NEW r \in Runs, attempts[r] # <<>>, Latest(r).lease = "ACTIVE",
         NEW a \in Attempt, Rewritten(r, Len(attempts[r]), a),
         run' \in [Runs -> [status: RunStatus, events: Seq(RunStatus \X RunStatus)]],
         \A q \in Runs \ {r}: run'[q] = run[q],
         EventsInv', created' = created, issued' = issued, reports' \subseteq Report,
         run'[r].status # "NONE",
         a.lease = "ACTIVE" => a.status \in {"CLAIMED", "STARTED"},
         run'[r].status \in {"PENDING", "CANCELLED"} =>
           /\ run[r].status \in {"PENDING", "CANCELLED"}
           /\ a.status \in {"CLAIMED", "ABANDONED", "LEASE_LOST"},
         run'[r].status = "RUNNING" => a.status = "STARTED" /\ a.lease = "ACTIVE",
         run'[r].status \in {"VERIFYING", "COMPLETED", "FAILED"} => a.lease # "ACTIVE",
         run'[r].status \in {"VERIFYING", "COMPLETED"} => a.status = "OUTPUT_REPORTED"
  PROVE  Sound
<1> DEFINE n == Len(attempts[r])
<1>1. /\ \A q \in Runs: attempts[q] \in Seq(Attempt) /\ attempts'[q] \in Seq(Attempt)
      /\ \A q \in Runs: Len(attempts'[q]) = Len(attempts[q])
      /\ \A q \in Runs: DOMAIN attempts'[q] = DOMAIN attempts[q]
      /\ \A q \in Runs: \A i \in DOMAIN attempts[q]:
           attempts'[q][i] = IF q = r /\ i = n THEN a ELSE attempts[q][i]
  <2>1. \A q \in Runs: attempts[q] \in Seq(Attempt) /\ attempts'[q] \in Seq(Attempt)
    BY DEF Rewritten, RuntimeInv, RuntimeTypeOK
  <2>2. \A q \in Runs: Len(attempts'[q]) = Len(attempts[q])  BY DEF Rewritten
  <2>3. \A q \in Runs: /\ DOMAIN attempts[q] = 1 .. Len(attempts[q])
                       /\ DOMAIN attempts'[q] = DOMAIN attempts[q]
    BY <2>1, <2>2
  <2> QED  BY <2>1, <2>2, <2>3 DEF Rewritten
<1>2. n \in DOMAIN attempts[r] /\ n = Len(attempts'[r])  BY <1>1, EmptySeq
<1>3. attempts'[r][n] = a /\ attempts'[r] # <<>> /\ attempts[r][n].lease = "ACTIVE"
  BY <1>1, <1>2 DEF Latest
<1>4. RuntimeTypeOK'  BY <1>1 DEF Rewritten, RuntimeInv, RuntimeTypeOK
<1>5. \A q \in Runs \ {r}: attempts'[q] = attempts[q]
  <2> SUFFICES ASSUME NEW q \in Runs \ {r}  PROVE attempts'[q] = attempts[q]
    OBVIOUS
  <2>1. \A i \in 1 .. Len(attempts[q]): attempts'[q][i] = attempts[q][i]  BY <1>1
  <2> QED  BY <1>1, <2>1, SeqEqual
<1>6. LeasesFollow(r)'
  <2>1. LeasesFollow(r)  BY LeasesOfEach DEF RuntimeInv
  <2>2. \A i \in DOMAIN attempts'[r]: i # n => attempts'[r][i] = attempts[r][i] /\ i \in DOMAIN attempts[r]
    BY <1>1
  <2>3. \A i \in DOMAIN attempts'[r]: attempts'[r][i].lease = "ACTIVE" =>
          i = Len(attempts'[r]) /\ attempts'[r][i].status \in {"CLAIMED", "STARTED"}
    BY <1>2, <1>3, <2>1, <2>2 DEF LeasesFollow
  <2>4. run'[r].status \in {"PENDING", "CANCELLED"} => \A i \in DOMAIN attempts'[r]:
          attempts'[r][i].status \in {"CLAIMED", "ABANDONED", "LEASE_LOST"}
    BY <1>3, <2>1, <2>2 DEF LeasesFollow
  <2>5. Latest(r)' = a  BY <1>2, <1>3 DEF Latest
  <2>6. a.lease # "ACTIVE" => ~Leased(r)'  BY <1>2, <1>3, <2>3 DEF Leased
  <2> QED  BY <1>3, <2>3, <2>4, <2>5, <2>6 DEF LeasesFollow
<1>7. \A q \in Runs \ {r}: LeasesFollow(q)' /\ Untouched(q)'
  <2>1. \A q \in Runs: LeasesFollow(q) /\ Untouched(q)  BY LeasesOfEach DEF RuntimeInv
  <2>2. \A q \in Runs \ {r}: run'[q] = run[q]  OBVIOUS
  <2>3. \A q \in Runs \ {r}: Latest(q)' = Latest(q) /\ (Leased(q)' <=> Leased(q))
    BY <1>5 DEF Latest, Leased
  <2>4. \A q \in Runs \ {r}: LeasesFollow(q)'  BY <1>5, <2>1, <2>2, <2>3 DEF LeasesFollow
  <2> QED  BY <1>5, <2>1, <2>2, <2>4 DEF Untouched
<1>8. LeasesFollowRuns' /\ \A q \in Runs: Untouched(q)'
  BY <1>6, <1>7, LeasesOfEach DEF Untouched
<1>9. AttemptsStay /\ ClosedStaysClosed
  <2>1. \A q \in Runs: Len(attempts[q]) \in Nat /\ Len(attempts'[q]) = Len(attempts[q])  BY <1>1
  <2>2. \A q \in Runs: \A i \in DOMAIN attempts[q]:
          attempts[q][i].lease # "ACTIVE" => attempts'[q][i] = attempts[q][i]
    BY <1>1, <1>3
  <2> QED  BY <2>1, <2>2 DEF AttemptsStay, ClosedStaysClosed
<1> QED  BY <1>4, <1>8, <1>9 DEF RuntimeInv, Sound

LEMMA ClaimIsSound ==
  ASSUME RuntimeInv, RuntimeAssumption, NEW w \in Workers, NEW r \in Runs, claim(w, r)
  PROVE  /\ Sound /\ NoVerdict
         /\ Len(attempts'[r]) = Len(attempts[r]) + 1
<1> DEFINE new == [worker |-> w, status |-> "CLAIMED", lease |-> "ACTIVE", generation |-> 1,
                   lapsed |-> FALSE, grantsLapsed |-> FALSE, read |-> FALSE]
           s == attempts[r]
           t == Append(s, new)
<1>1. new \in Attempt
  BY DEF Attempt, AttemptStatus, LeaseStatus, RuntimeAssumption
<1>2. /\ s \in Seq(Attempt) /\ attempts \in [Runs -> Seq(Attempt)]
      /\ attempts' = [attempts EXCEPT ![r] = t]
  BY DEF RuntimeInv, RuntimeTypeOK, claim
<1>3. /\ t \in Seq(Attempt) /\ t # <<>>
      /\ Len(s) \in Nat /\ DOMAIN s = 1 .. Len(s)
      /\ Len(t) = Len(s) + 1 /\ DOMAIN t = 1 .. Len(s) + 1
      /\ \A i \in 1 .. Len(s): t[i] = s[i]
      /\ t[Len(s) + 1] = new
  <2> HIDE DEF new, s
  <2> QED  BY <1>1, <1>2, AppendProperties, LenProperties
<1>4. attempts'[r] = t /\ \A q \in Runs \ {r}: attempts'[q] = attempts[q]  BY <1>2
<1>5. run[r].status = "PENDING" /\ ~Leased(r) /\ Len(s) < MaxAttempts[r]
  BY DEF claim, OldestClaimable, Claimable
<1>6. new.status = "CLAIMED" /\ new.lease = "ACTIVE"  OBVIOUS
<1> HIDE DEF t, new
<1>7. RuntimeTypeOK'
  <2>1. \A q \in Runs: Len(attempts'[q]) <= MaxAttempts[q]
    <3>1. \A q \in Runs \ {r}: Len(attempts'[q]) <= MaxAttempts[q]
      BY <1>4 DEF RuntimeInv, RuntimeTypeOK
    <3>2. MaxAttempts[r] \in Nat /\ Len(attempts'[r]) = Len(s) + 1
      BY <1>3, <1>4 DEF RuntimeAssumption
    <3>3. Len(attempts'[r]) <= MaxAttempts[r]  BY <1>3, <1>5, <3>2
    <3> QED  BY <3>1, <3>3
  <2>2. issued' \in Seq(Runs)
    <3>1. issued \in Seq(Runs)  BY DEF RuntimeInv, RuntimeTypeOK
    <3> QED  BY <3>1, AppendProperties DEF claim
  <2>3. attempts' \in [Runs -> Seq(Attempt)]  BY <1>2, <1>3
  <2> QED  BY <2>1, <2>2, <2>3 DEF RuntimeInv, RuntimeTypeOK, claim
<1>8. LeasesFollow(r)'
  <2>1. LeasesFollow(r) /\ run' = run  BY LeasesOfEach DEF RuntimeInv, claim
  <2>2. \A i \in DOMAIN t: i \in 1 .. Len(s) \/ i = Len(s) + 1  BY <1>3
  <2>3. \A i \in 1 .. Len(s): s[i].lease # "ACTIVE"  BY <1>3, <1>5 DEF Leased
  <2>4. \A i \in DOMAIN t: t[i].lease = "ACTIVE" =>
          i = Len(t) /\ t[i].status \in {"CLAIMED", "STARTED"}
    BY <1>3, <1>6, <2>2, <2>3
  <2>5. \A i \in DOMAIN t: t[i].status \in {"CLAIMED", "ABANDONED", "LEASE_LOST"}
    BY <1>3, <1>5, <1>6, <2>1, <2>2 DEF LeasesFollow
  <2> QED  BY <1>4, <1>5, <2>1, <2>4, <2>5 DEF LeasesFollow
<1>9. \A q \in Runs \ {r}: LeasesFollow(q)' /\ Untouched(q)'
  <2>1. (\A q \in Runs: LeasesFollow(q) /\ Untouched(q)) /\ run' = run
    BY LeasesOfEach DEF RuntimeInv, claim
  <2> QED  BY <1>4, <2>1 DEF LeasesFollow, Untouched, Latest, Leased
<1>10. LeasesFollowRuns' /\ \A q \in Runs: Untouched(q)'
  BY <1>5, <1>8, <1>9, LeasesOfEach DEF Untouched, claim
<1>11. EventsInv' /\ NoVerdict  BY EventsAsBefore DEF RuntimeInv, claim, NoVerdict
<1>12. AttemptsStay /\ ClosedStaysClosed
  <2>1. \A q \in Runs: Len(attempts[q]) \in Nat  BY DEF RuntimeInv, RuntimeTypeOK
  <2> QED  BY <1>3, <1>4, <2>1 DEF AttemptsStay, ClosedStaysClosed
<1> QED  BY <1>3, <1>4, <1>7, <1>10, <1>11, <1>12 DEF RuntimeInv, Sound

LEMMA ClosingBeforeStartIsSound ==
  ASSUME RuntimeInv, NEW r \in Runs, NEW status \in {"ABANDONED", "LEASE_LOST"},
         NEW lease \in {"RELEASED", "EXPIRED"}, closeBeforeStart(r, status, lease)
  PROVE  Sound /\ NoVerdict
<1>1. /\ RuntimeTypeOK /\ LeasesFollowRuns /\ EventsInv /\ Leased(r)
      /\ Latest(r).status = "CLAIMED" /\ Close(r, status, lease)
      /\ UNCHANGED <<run, created, issued, reports>>
  BY DEF RuntimeInv, closeBeforeStart
<1>2. attempts[r] # <<>> /\ Latest(r).lease = "ACTIVE"  BY <1>1, LeasedHasLatest
<1>3. status \in AttemptStatus /\ lease \in LeaseStatus  BY DEF AttemptStatus, LeaseStatus
<1>4. PICK a \in Attempt: /\ Rewritten(r, Len(attempts[r]), a)
                         /\ a.status = status /\ a.lease = lease
  BY <1>1, <1>2, <1>3, Closing
<1>5. /\ run' \in [Runs -> [status: RunStatus, events: Seq(RunStatus \X RunStatus)]]
      /\ reports' \subseteq Report
  BY <1>1 DEF RuntimeTypeOK
<1>6. EventsInv'  BY <1>1, EventsAsBefore
<1>7. run[r].status \in {"PENDING", "CANCELLED"}
  <2>1. LeasesFollow(r) /\ Untouched(r)  BY LeasesOfEach DEF RuntimeInv
  <2>2. run[r].status \in RunStatus  BY <1>1 DEF RuntimeTypeOK
  <2> QED  BY <1>1, <1>2, <2>1, <2>2 DEF LeasesFollow, Untouched, RunStatus
<1>8. Sound
  BY <1>1, <1>2, <1>4, <1>5, <1>6, <1>7, RewritingLatestIsSound
<1> QED  BY <1>1, <1>8 DEF NoVerdict

LEMMA ReconcilingIsSound ==
  ASSUME RuntimeInv, NEW r \in Runs, attempts[r] # <<>>, reconcileExpiredStartedLease(r)
  PROVE  Sound /\ NoVerdict
<1>1. /\ RuntimeTypeOK /\ EventsInv /\ Latest(r).lease = "ACTIVE"
      /\ run[r].status = "RUNNING"
      /\ Transition(r, "FAILED") /\ Close(r, "LEASE_LOST", "EXPIRED")
      /\ UNCHANGED <<created, issued, reports>>
  BY DEF RuntimeInv, reconcileExpiredStartedLease
<1>2. /\ "FAILED" \in RunStatus /\ "LEASE_LOST" \in AttemptStatus /\ "EXPIRED" \in LeaseStatus
      /\ <<"RUNNING", "FAILED">> \in ALLOWED_TRANSITIONS
  BY DEF RunStatus, AttemptStatus, LeaseStatus, ALLOWED_TRANSITIONS
<1>3. PICK a \in Attempt: /\ Rewritten(r, Len(attempts[r]), a)
                         /\ a.status = "LEASE_LOST" /\ a.lease = "EXPIRED"
  BY <1>1, <1>2, Closing
<1>4. /\ run' \in [Runs -> [status: RunStatus, events: Seq(RunStatus \X RunStatus)]]
      /\ run'[r].status = "FAILED"
      /\ \A q \in Runs \ {r}: run'[q] = run[q]
      /\ EventsInv'
  BY <1>1, <1>2, TransitionKeepsEvents
<1>5. reports' \subseteq Report  BY <1>1 DEF RuntimeTypeOK
<1>6. Sound
  BY <1>1, <1>3, <1>4, <1>5, RewritingLatestIsSound
<1> QED  BY <1>1, <1>4, <1>6 DEF NoVerdict

LEMMA ReportIsSound ==
  ASSUME RuntimeInv, NEW m \in Report, m.ordinal \in DOMAIN attempts[m.run], submitReport(m)
  PROVE  Sound /\ NoVerdict
<1> DEFINE r == m.run
           n == m.ordinal
<1>1. /\ RuntimeTypeOK /\ EventsInv /\ r \in Runs /\ m.kind \in ReportKind
      /\ attempts[r] \in Seq(Attempt)
  BY DEF RuntimeInv, RuntimeTypeOK, Report
<1>2. /\ run[r].status = expectedCurrentStatus(m.kind)
      /\ attempts[r][n].lease = "ACTIVE"
      /\ attempts[r][n].status = ExpectedAttempt(m.kind)
  BY DEF submitReport, authorizeReport
<1>3. /\ attempts[r] # <<>> /\ n = Len(attempts[r]) /\ n \in 1 .. Len(attempts[r])
      /\ Latest(r) = attempts[r][n]
  <2>1. LeasesFollow(r)  BY <1>1, LeasesOfEach DEF RuntimeInv
  <2>2. n = Len(attempts[r])  BY <1>2, <2>1 DEF LeasesFollow
  <2>3. DOMAIN attempts[r] = 1 .. Len(attempts[r])  BY <1>1
  <2> QED  BY <2>2, <2>3 DEF Latest
<1>4. created' = created /\ issued' = issued /\ reports' \subseteq Report
  BY <1>1 DEF submitReport, RuntimeTypeOK
<1>5. PICK to \in {"RUNNING", "VERIFYING", "FAILED"}, a \in Attempt:
        /\ Transition(r, to) /\ <<run[r].status, to>> \in ALLOWED_TRANSITIONS
        /\ Rewritten(r, n, a)
        /\ to = "RUNNING" => a.status = "STARTED" /\ a.lease = "ACTIVE"
        /\ to = "VERIFYING" => a.status = "OUTPUT_REPORTED" /\ a.lease = "RELEASED"
        /\ to = "FAILED" => a.status = "FAILED" /\ a.lease = "RELEASED"
  <2>1. /\ {"OUTPUT_REPORTED", "FAILED", "STARTED"} \subseteq AttemptStatus
        /\ {"RELEASED", "ACTIVE"} \subseteq LeaseStatus
    BY DEF AttemptStatus, LeaseStatus
  <2>2. CASE submitStarted(m)
    <3> DEFINE a == [attempts[r][n] EXCEPT !.status = "STARTED"]
    <3>1. attempts[r][n] \in Attempt  BY <1>1, <1>3, AttemptFields
    <3>2. a \in Attempt /\ a.status = "STARTED" /\ a.lease = "ACTIVE"
      BY <1>2, <2>1, <3>1 DEF Attempt
    <3>3. attempts' = [attempts EXCEPT ![r] = [attempts[r] EXCEPT ![n] = a]]
      BY <1>1, <2>2, <3>1 DEF submitStarted, RuntimeTypeOK
    <3>4. Rewritten(r, n, a)  BY <1>1, <1>3, <3>2, <3>3, Rewriting
    <3>5. Transition(r, "RUNNING") /\ <<run[r].status, "RUNNING">> \in ALLOWED_TRANSITIONS
      BY <1>2, <2>2 DEF submitStarted, expectedCurrentStatus, ALLOWED_TRANSITIONS
    <3> QED  BY <3>2, <3>4, <3>5
  <2>3. CASE submitProgress(m)
    <3>1. attempts[r][n] \in Attempt  BY <1>1, <1>3, AttemptFields
    <3>2. attempts' = attempts /\ attempts \in [Runs -> Seq(Attempt)]
      BY <1>1, <2>3 DEF submitProgress, RuntimeTypeOK
    <3>3. Rewritten(r, n, attempts[r][n])  BY <3>2 DEF Rewritten
    <3>4. attempts[r][n].status = "STARTED" /\ attempts[r][n].lease = "ACTIVE"
      BY <1>2, <2>3 DEF submitProgress, ExpectedAttempt
    <3>5. Transition(r, "RUNNING") /\ <<run[r].status, "RUNNING">> \in ALLOWED_TRANSITIONS
      BY <1>2, <2>3 DEF submitProgress, expectedCurrentStatus, ALLOWED_TRANSITIONS
    <3> QED  BY <3>1, <3>3, <3>4, <3>5
  <2>4. CASE submitOutputReady(m)
    <3>1. PICK a \in Attempt: /\ Rewritten(r, n, a)
                             /\ a.status = "OUTPUT_REPORTED" /\ a.lease = "RELEASED"
      BY <1>1, <1>3, <2>1, <2>4, Closing DEF submitOutputReady
    <3>2. Transition(r, "VERIFYING") /\ <<run[r].status, "VERIFYING">> \in ALLOWED_TRANSITIONS
      BY <1>2, <2>4 DEF submitOutputReady, expectedCurrentStatus, ALLOWED_TRANSITIONS
    <3> QED  BY <3>1, <3>2
  <2>5. CASE submitFailed(m)
    <3>1. PICK a \in Attempt: /\ Rewritten(r, n, a)
                             /\ a.status = "FAILED" /\ a.lease = "RELEASED"
      BY <1>1, <1>3, <2>1, <2>5, Closing DEF submitFailed
    <3>2. Transition(r, "FAILED") /\ <<run[r].status, "FAILED">> \in ALLOWED_TRANSITIONS
      BY <1>2, <2>5 DEF submitFailed, expectedCurrentStatus, ALLOWED_TRANSITIONS
    <3> QED  BY <3>1, <3>2
  <2> QED  BY <2>2, <2>3, <2>4, <2>5 DEF submitReport
<1>6. to \in RunStatus  BY DEF RunStatus
<1>7. /\ run' \in [Runs -> [status: RunStatus, events: Seq(RunStatus \X RunStatus)]]
      /\ run'[r].status = to
      /\ \A q \in Runs \ {r}: run'[q] = run[q]
      /\ EventsInv'
  BY <1>1, <1>5, <1>6, TransitionKeepsEvents
<1>8. Sound
  BY <1>1, <1>2, <1>3, <1>4, <1>5, <1>7, RewritingLatestIsSound
<1>9. NoVerdict
  BY <1>2, <1>5, <1>7 DEF NoVerdict, expectedCurrentStatus
<1> QED  BY <1>8, <1>9

LEMMA NothingIsSound ==
  ASSUME RuntimeInv, UNCHANGED runtimeVars
  PROVE  Sound /\ NoVerdict
<1>1. run' = run /\ attempts' = attempts /\ created' = created /\ issued' = issued /\ reports' = reports
  BY DEF runtimeVars
<1>2. RuntimeTypeOK'  BY <1>1 DEF RuntimeInv, RuntimeTypeOK
<1>3. LeasesFollowRuns'
  <2>1. \A r \in Runs: LeasesFollow(r)  BY LeasesOfEach DEF RuntimeInv
  <2>2. (\A r \in Runs: LeasesFollow(r))'  BY <1>1, <2>1 DEF LeasesFollow, Latest, Leased
  <2> QED  BY <2>2, LeasesOfEach
<1>4. EventsInv'  BY <1>1, EventsAsBefore DEF RuntimeInv
<1>5. (\A r \in Runs: Untouched(r))'  BY <1>1 DEF RuntimeInv, Untouched
<1>6. AttemptsStay
  <2>1. \A r \in Runs: Len(attempts[r]) \in Nat  BY DEF RuntimeInv, RuntimeTypeOK
  <2> QED  BY <1>1, <2>1 DEF AttemptsStay
<1>7. ClosedStaysClosed /\ NoVerdict  BY <1>1 DEF ClosedStaysClosed, NoVerdict
<1> QED  BY <1>2, <1>3, <1>4, <1>5, <1>6, <1>7 DEF RuntimeInv, Sound

-----------------------------------------------------------------------------
(* The handlers, the workers and the network. *)

\* What they know of the runs: an attempt that is named exists, and a lease that
\* the reconciler looks at belongs to a run with attempts.
WorkersInv ==
  /\ worker \in [Workers -> {Idle} \cup Busy]
  /\ \A w \in Workers: worker[w] # Idle => worker[w].ordinal \in DOMAIN attempts[worker[w].run]

NetInv == net \subseteq Report /\ \A m \in net: m.ordinal \in DOMAIN attempts[m.run]

\* A commit has done what the stages before its own do.
HandlerInv ==
  /\ handler \in {NoRequest} \cup ClaimRequest \cup CommitRequest
  /\ handler.stage = "CLAIM" => \A r \in handler.leases: attempts[r] # <<>>
  /\ handler.stage \notin {"NONE", "CLAIM"} => handler.ordinal \in DOMAIN attempts[handler.run]
  /\ handler.stage \in {"INDEX", "FEED"} => handler.run \in packaged
  /\ handler.stage = "FEED" => handler.run \in indexed

\* No two runs are indexed for one version.
VersionsIndexedOnce ==
  \A q, r \in indexed: Document[q] = Document[r] /\ Version[q] = Version[r] => q = r

PublicationTyped ==
  /\ doc \in [Runs -> DocStatus]
  /\ packaged \subseteq Runs
  /\ current \subseteq indexed
  /\ indexed \subseteq Runs
  /\ feed \in Seq([from: SUBSET Runs, to: Runs])

IndexInv == VersionsIndexedOnce /\ NewestIsCurrent /\ FeedInOrder

PipelineInv ==
  /\ RuntimeInv
  /\ WorkersInv /\ NetInv /\ HandlerInv /\ stops \in 0 .. MaxStops
  /\ PublicationTyped /\ PublishedOnlyVerified /\ IndexInv

LEMMA InvIsEnough ==
  ASSUME PipelineInv
  PROVE  ConversionIsExact
BY DEF PipelineInv, RuntimeInv, EventsInv, WorkersInv, NetInv, HandlerInv, PublicationTyped,
       IndexInv, TypeOK, ConversionIsExact

\* No attempt goes, so what named one still does.
LEMMA OrdinalsStay ==
  ASSUME RuntimeTypeOK, RuntimeTypeOK', AttemptsStay, NEW r \in Runs
  PROVE  /\ DOMAIN attempts[r] \subseteq DOMAIN attempts'[r]
         /\ attempts[r] # <<>> => attempts'[r] # <<>>
<1>1. attempts[r] \in Seq(Attempt) /\ attempts'[r] \in Seq(Attempt)  BY DEF RuntimeTypeOK
<1>2. Len(attempts[r]) <= Len(attempts'[r])  BY DEF AttemptsStay
<1>3. DOMAIN attempts[r] = 1 .. Len(attempts[r]) /\ DOMAIN attempts'[r] = 1 .. Len(attempts'[r])
  BY <1>1
<1>4. attempts[r] # <<>> => Len(attempts[r]) \in 1 .. Len(attempts[r])  BY <1>1, EmptySeq
<1> QED  BY <1>1, <1>2, <1>3, <1>4

LEMMA SoundTypes ==
  ASSUME RuntimeInv, Sound
  PROVE  RuntimeTypeOK /\ RuntimeTypeOK' /\ AttemptsStay /\ RuntimeInv'
BY DEF RuntimeInv, Sound

LEMMA WorkersAsBefore ==
  ASSUME RuntimeInv, Sound, WorkersInv, worker' = worker
  PROVE  WorkersInv'
<1>1. \A r \in Runs: DOMAIN attempts[r] \subseteq DOMAIN attempts'[r]  BY SoundTypes, OrdinalsStay
<1>2. \A w \in Workers: worker[w] # Idle => worker[w].run \in Runs  BY DEF WorkersInv, Busy
<1> QED  BY <1>1, <1>2 DEF WorkersInv

LEMMA NetAsBefore ==
  ASSUME RuntimeInv, Sound, NetInv, net' \subseteq net
  PROVE  NetInv'
<1>1. \A r \in Runs: DOMAIN attempts[r] \subseteq DOMAIN attempts'[r]  BY SoundTypes, OrdinalsStay
<1>2. \A m \in net: m.run \in Runs  BY DEF NetInv, Report
<1> QED  BY <1>1, <1>2 DEF NetInv

LEMMA HandlerCases ==
  ASSUME HandlerInv
  PROVE  /\ handler.stage = "NONE" <=> handler = NoRequest
         /\ handler.stage = "CLAIM" => handler \in ClaimRequest
         /\ handler.stage \notin {"NONE", "CLAIM"} => handler \in CommitRequest
BY DEF HandlerInv, NoRequest, ClaimRequest, CommitRequest

LEMMA HandlerAsBefore ==
  ASSUME RuntimeInv, Sound, HandlerInv, handler' = handler,
         packaged \subseteq packaged', indexed \subseteq indexed'
  PROVE  HandlerInv'
<1>1. \A r \in Runs: /\ DOMAIN attempts[r] \subseteq DOMAIN attempts'[r]
                     /\ attempts[r] # <<>> => attempts'[r] # <<>>
  BY SoundTypes, OrdinalsStay
<1>2. /\ handler.stage = "CLAIM" => handler.leases \subseteq Runs
      /\ handler.stage \notin {"NONE", "CLAIM"} => handler.run \in Runs
  BY HandlerCases DEF ClaimRequest, CommitRequest
<1> QED  BY <1>1, <1>2 DEF HandlerInv

LEMMA HandlerEnds ==
  ASSUME handler' = NoRequest
  PROVE  HandlerInv'
BY DEF HandlerInv, NoRequest

\* A commit that goes on, with what its next stage needs.
LEMMA HandlerContinues ==
  ASSUME RuntimeInv, Sound, HandlerInv, NEW r \in Runs, NEW from, NEW to,
         Committing(r, from), Continue(to),
         from \in {"INGEST", "VERIFY", "FINALIZE", "PACKAGE", "INDEX", "FEED"},
         to \in {"VERIFY", "FINALIZE", "PACKAGE", "INDEX", "FEED"},
         to \in {"INDEX", "FEED"} => r \in packaged',
         to = "FEED" => r \in indexed'
  PROVE  HandlerInv'
<1>1. handler \in CommitRequest /\ handler.run = r /\ handler.ordinal \in DOMAIN attempts[r]
  BY HandlerCases DEF Committing, HandlerInv
<1>2. /\ handler' \in CommitRequest /\ handler'.run = r /\ handler'.stage = to
      /\ handler'.ordinal = handler.ordinal
  BY <1>1 DEF Continue, CommitRequest
<1>3. DOMAIN attempts[r] \subseteq DOMAIN attempts'[r]  BY SoundTypes, OrdinalsStay
<1> QED  BY <1>1, <1>2, <1>3 DEF HandlerInv

LEMMA AnswerKeepsWorkers ==
  ASSUME RuntimeInv, Sound, WorkersInv, NEW heard \in BOOLEAN, Answer(heard)
  PROVE  WorkersInv' /\ HandlerInv'
<1>1. HandlerInv'  BY HandlerEnds DEF Answer
<1>2. CASE worker' = worker  BY <1>1, <1>2, WorkersAsBefore
<1>3. CASE worker' = [worker EXCEPT ![handler.worker] = Idle]
  <2>1. \A r \in Runs: DOMAIN attempts[r] \subseteq DOMAIN attempts'[r]
    BY SoundTypes, OrdinalsStay
  <2>2. \A w \in Workers: worker[w] # Idle => worker[w].run \in Runs  BY DEF WorkersInv, Busy
  <2>3. \A w \in Workers: worker'[w] = Idle \/ worker'[w] = worker[w]
    BY <1>3 DEF WorkersInv
  <2>4. worker' \in [Workers -> {Idle} \cup Busy]  BY <1>3 DEF WorkersInv
  <2> QED  BY <1>1, <2>1, <2>2, <2>3, <2>4 DEF WorkersInv
<1> QED  BY <1>2, <1>3 DEF Answer

LEMMA Entering ==
  ASSUME RuntimeInv, Sound, WorkersInv, NetInv, NEW w \in Workers, NEW task \in Busy,
         task.ordinal \in DOMAIN attempts'[task.run], NEW inGrant \in BOOLEAN,
         Enter(w, task, inGrant)
  PROVE  WorkersInv' /\ NetInv'
<1>1. \A r \in Runs: DOMAIN attempts[r] \subseteq DOMAIN attempts'[r]
  BY SoundTypes, OrdinalsStay
<1>2. WorkersInv'
  <2>1. worker' = [worker EXCEPT ![w] = task] /\ worker \in [Workers -> {Idle} \cup Busy]
    BY DEF Enter, WorkersInv
  <2>2. \A v \in Workers \ {w}: worker'[v] = worker[v]  BY <2>1
  <2>3. \A v \in Workers: worker[v] # Idle => worker[v].run \in Runs  BY DEF WorkersInv, Busy
  <2> QED  BY <1>1, <2>1, <2>2, <2>3 DEF WorkersInv
<1>3. NetInv'
  <2> DEFINE m == [run |-> task.run, ordinal |-> task.ordinal, worker |-> w, kind |-> task.pc,
                   generation |-> task.generation, inGrant |-> inGrant]
  <2>1. CASE task.pc \in ReportStep
    <3>1. net' = net \cup {m}  BY <2>1 DEF Enter
    <3>2. m \in Report  BY <2>1 DEF Busy, Report, ReportKind, ReportStep
    <3>3. m.ordinal \in DOMAIN attempts'[m.run]  OBVIOUS
    <3>4. \A n \in net: n.run \in Runs  BY DEF NetInv, Report
    <3> QED  BY <1>1, <3>1, <3>2, <3>3, <3>4 DEF NetInv
  <2>2. CASE task.pc \notin ReportStep  BY <2>2, NetAsBefore DEF Enter
  <2> QED  BY <2>1, <2>2
<1> QED  BY <1>2, <1>3

\* A worker that goes on keeps its run, attempt and lease.
LEMMA GoingOn ==
  ASSUME RuntimeInv, Sound, WorkersInv, NetInv, NEW w \in Workers,
         NEW pc \in ReportStep \cup {"READ", "UPLOAD"}, worker[w] # Idle, GoTo(w, pc)
  PROVE  WorkersInv' /\ NetInv'
<1> DEFINE task == [worker[w] EXCEPT !.pc = pc]
           inGrant == ~attempts[worker[w].run][worker[w].ordinal].grantsLapsed
<1>1. worker[w] \in Busy /\ worker[w].ordinal \in DOMAIN attempts[worker[w].run]
  BY DEF WorkersInv
<1>2. /\ task \in Busy /\ task.run = worker[w].run /\ task.ordinal = worker[w].ordinal
      /\ task.run \in Runs
  BY <1>1 DEF Busy
<1>3. task.ordinal \in DOMAIN attempts'[task.run]
  BY <1>1, <1>2, SoundTypes, OrdinalsStay
<1>4. Enter(w, task, inGrant) /\ inGrant \in BOOLEAN  BY DEF GoTo
<1> QED  BY <1>2, <1>3, <1>4, Entering

LEMMA PublicationAsBefore ==
  ASSUME RuntimeInv, PublicationTyped, PublishedOnlyVerified, IndexInv, NoVerdict,
         UNCHANGED publicationVars
  PROVE  PublicationTyped' /\ PublishedOnlyVerified' /\ IndexInv'
<1>1. doc' = doc /\ packaged' = packaged /\ indexed' = indexed /\ current' = current /\ feed' = feed
  BY DEF publicationVars
<1>2. PublicationTyped'  BY <1>1 DEF PublicationTyped
<1>3. PublishedOnlyVerified'
  BY <1>1 DEF PublishedOnlyVerified, NoVerdict, PublicationTyped, DocStatus
<1>4. \A r: Siblings(r)' = Siblings(r)  BY <1>1 DEF Siblings
<1>5. NewestIsCurrent'  BY <1>1, <1>4 DEF IndexInv, NewestIsCurrent
<1>6. VersionsIndexedOnce' /\ FeedInOrder'
  BY <1>1 DEF IndexInv, VersionsIndexedOnce, FeedInOrder
<1> QED  BY <1>2, <1>3, <1>5, <1>6 DEF IndexInv

-----------------------------------------------------------------------------
(* Each step keeps the invariant and leaves closed what is closed. *)

Kept == PipelineInv' /\ ClosedStaysClosed

LEMMA KeptInParts ==
  ASSUME Sound, WorkersInv', NetInv', HandlerInv', stops' \in 0 .. MaxStops,
         PublicationTyped', PublishedOnlyVerified', IndexInv'
  PROVE  Kept
BY DEF Sound, PipelineInv, Kept

\* A step that publishes nothing and leaves the request that is served alone.
LEMMA RuntimeStepIsKept ==
  ASSUME PipelineInv, Sound, NoVerdict, WorkersInv', NetInv',
         UNCHANGED <<handler, publicationVars, stops>>
  PROVE  Kept
<1>1. packaged' = packaged /\ indexed' = indexed  BY DEF publicationVars
<1>2. HandlerInv'  BY <1>1, HandlerAsBefore DEF PipelineInv
<1>3. PublicationTyped' /\ PublishedOnlyVerified' /\ IndexInv'
  BY PublicationAsBefore DEF PipelineInv
<1> QED  BY <1>2, <1>3, KeptInParts DEF PipelineInv

LEMMA OperatorsAreKept ==
  ASSUME PipelineInv, NEW r \in Runs, Dispatch(r) \/ Cancel(r) \/ Release(r) \/ TimePasses(r)
  PROVE  Kept
<1>1. RuntimeInv /\ WorkersInv /\ NetInv /\ RuntimeTypeOK /\ LeasesFollowRuns
  BY DEF PipelineInv, RuntimeInv
<1>2. Sound /\ NoVerdict
  <2>1. CASE Dispatch(r) \/ Cancel(r)
    BY <1>1, <2>1, DispatchIsSound DEF Dispatch, Cancel
  <2>2. CASE Release(r)
    BY <1>1, <2>2, ClosingBeforeStartIsSound DEF Release, releaseBeforeStart
  <2>3. CASE TimePasses(r)
    <3>1. LeaseLapses(r) \/ GrantsLapse(r)  BY <2>3 DEF TimePasses
    <3>2. Quiet(r)  BY <1>1, <3>1, TimeIsQuiet
    <3>3. UNCHANGED <<run, created, issued, reports>>  BY <3>1 DEF LeaseLapses, GrantsLapse
    <3> QED  BY <1>1, <3>2, <3>3, QuietIsSound
  <2> QED  BY <2>1, <2>2, <2>3
<1>3. UNCHANGED <<worker, net, handler, publicationVars, stops>>
  BY DEF Dispatch, Cancel, Release, TimePasses
<1>4. WorkersInv' /\ NetInv'  BY <1>1, <1>2, <1>3, WorkersAsBefore, NetAsBefore
<1> QED  BY <1>2, <1>3, <1>4, RuntimeStepIsKept

\* The control plane dies, or begins to serve a request.
LEMMA RequestsAreKept ==
  ASSUME PipelineInv, PipelineAssumption,
         ControlPlaneStops \/ NoCompatibleWork \/ \E w \in Workers: StartClaim(w) \/ StartCommit(w)
  PROVE  Kept
<1>1. UNCHANGED <<runtimeVars, worker, net, publicationVars>>
  BY DEF ControlPlaneStops, NoCompatibleWork, StartClaim, StartCommit
<1>2. Sound /\ NoVerdict  BY <1>1, NothingIsSound DEF PipelineInv
<1>3. WorkersInv' /\ NetInv'  BY <1>1, <1>2, WorkersAsBefore, NetAsBefore DEF PipelineInv
<1>4. PublicationTyped' /\ PublishedOnlyVerified' /\ IndexInv'
  BY <1>1, <1>2, PublicationAsBefore DEF PipelineInv
<1>5. stops' \in 0 .. MaxStops
  BY DEF ControlPlaneStops, NoCompatibleWork, StartClaim, StartCommit, PipelineInv,
         PipelineAssumption
<1>6. attempts' = attempts  BY <1>1 DEF runtimeVars
<1>7. HandlerInv'
  <2>1. CASE ControlPlaneStops \/ NoCompatibleWork
    BY <2>1, HandlerEnds DEF ControlPlaneStops, NoCompatibleWork
  <2>2. ASSUME NEW w \in Workers, StartClaim(w)  PROVE HandlerInv'
    <3>1. handler' = [stage |-> "CLAIM", worker |-> w,
                      leases |-> {r \in Runs: Listed(r) /\ Latest(r).lapsed}]
      BY <2>2 DEF StartClaim
    <3>2. \A r \in Runs: Listed(r) => attempts[r] # <<>>
      BY LeasedHasLatest DEF Listed, PipelineInv, RuntimeInv
    <3> QED  BY <1>6, <3>1, <3>2 DEF HandlerInv, ClaimRequest
  <2>3. ASSUME NEW w \in Workers, StartCommit(w)  PROVE HandlerInv'
    <3>1. worker[w] # Idle  BY <2>3 DEF StartCommit, At, Idle
    <3>2. worker[w] \in Busy /\ worker[w].ordinal \in DOMAIN attempts[worker[w].run]
      BY <3>1 DEF PipelineInv, WorkersInv
    <3>3. handler' = [stage |-> "INGEST", worker |-> w, run |-> worker[w].run,
                      ordinal |-> worker[w].ordinal]
      BY <2>3 DEF StartCommit
    <3> QED  BY <1>6, <3>2, <3>3 DEF HandlerInv, CommitRequest, Busy
  <2> QED  BY <2>1, <2>2, <2>3
<1> QED  BY <1>2, <1>3, <1>4, <1>5, <1>7, KeptInParts

LEMMA ReconciledLeaseIsKept ==
  ASSUME PipelineInv, NEW r \in Runs, ReconcileLease(r)
  PROVE  Kept
<1>1. handler.stage = "CLAIM" /\ handler \in ClaimRequest /\ r \in handler.leases
  BY HandlerCases DEF ReconcileLease, PipelineInv
<1>2. attempts[r] # <<>>  BY <1>1 DEF PipelineInv, HandlerInv
<1>3. Sound /\ NoVerdict
  <2>1. CASE expireBeforeStart(r)
    BY <2>1, ClosingBeforeStartIsSound DEF PipelineInv, expireBeforeStart
  <2>2. CASE reconcileExpiredStartedLease(r)
    BY <1>2, <2>2, ReconcilingIsSound DEF PipelineInv
  <2> QED  BY <2>1, <2>2 DEF ReconcileLease
<1>4. UNCHANGED <<worker, net, publicationVars, stops>>  BY DEF ReconcileLease
<1>5. WorkersInv' /\ NetInv'
  BY <1>3, <1>4, WorkersAsBefore, NetAsBefore DEF PipelineInv
<1>6. HandlerInv'
  <2>1. \A q \in Runs: attempts[q] # <<>> => attempts'[q] # <<>>
    BY <1>3, SoundTypes, OrdinalsStay DEF PipelineInv
  <2>2. /\ handler' = [handler EXCEPT !.leases = @ \ {r}]
        /\ handler' \in ClaimRequest /\ handler'.stage = "CLAIM"
        /\ handler'.leases \subseteq handler.leases /\ handler.leases \subseteq Runs
    BY <1>1 DEF ReconcileLease, ClaimRequest
  <2>3. \A q \in handler.leases: attempts[q] # <<>>  BY <1>1 DEF PipelineInv, HandlerInv
  <2> QED  BY <2>1, <2>2, <2>3 DEF HandlerInv
<1>7. PublicationTyped' /\ PublishedOnlyVerified' /\ IndexInv'
  BY <1>3, <1>4, PublicationAsBefore DEF PipelineInv
<1> QED  BY <1>3, <1>4, <1>5, <1>6, <1>7, KeptInParts DEF PipelineInv

LEMMA ClaimedRunIsKept ==
  ASSUME PipelineInv, PipelineAssumption, NEW r \in Runs, NEW heard \in BOOLEAN, ClaimRun(r, heard)
  PROVE  Kept
<1> DEFINE w == handler.worker
           task == [pc |-> "STARTED", run |-> r, ordinal |-> Len(attempts[r]) + 1, generation |-> 1]
<1>1. w \in Workers /\ claim(w, r) /\ RuntimeAssumption
  BY HandlerCases DEF ClaimRun, PipelineInv, ClaimRequest, PipelineAssumption
<1>2. Sound /\ NoVerdict /\ Len(attempts'[r]) = Len(attempts[r]) + 1
  BY <1>1, ClaimIsSound DEF PipelineInv
<1>3. WorkersInv' /\ NetInv'
  <2>1. CASE heard
    <3>1. Len(attempts[r]) \in Nat /\ DOMAIN attempts'[r] = 1 .. Len(attempts'[r])
      BY <1>2, SoundTypes DEF PipelineInv, RuntimeTypeOK
    <3>2. task \in Busy /\ task.run = r /\ task.ordinal \in DOMAIN attempts'[r]
      BY <1>1, <1>2, <3>1 DEF Busy, ReportStep, RuntimeAssumption
    <3>3. Enter(w, task, TRUE)  BY <2>1 DEF ClaimRun
    <3> HIDE DEF task, w
    <3> QED  BY <1>1, <1>2, <3>2, <3>3, Entering DEF PipelineInv
  <2>2. CASE ~heard
    <3>1. worker' = worker /\ net' = net  BY <2>2 DEF ClaimRun
    <3> QED  BY <1>2, <3>1, WorkersAsBefore, NetAsBefore DEF PipelineInv
  <2> QED  BY <2>1, <2>2
<1>4. HandlerInv'  BY HandlerEnds DEF ClaimRun
<1>5. UNCHANGED <<publicationVars, stops>>  BY DEF ClaimRun
<1>6. PublicationTyped' /\ PublishedOnlyVerified' /\ IndexInv'
  BY <1>2, <1>5, PublicationAsBefore DEF PipelineInv
<1> QED  BY <1>2, <1>3, <1>4, <1>5, <1>6, KeptInParts DEF PipelineInv

LEMMA DeliveryIsKept ==
  ASSUME PipelineInv, NEW m \in net, Deliver(m)
  PROVE  Kept
<1>1. m \in Report /\ m.ordinal \in DOMAIN attempts[m.run]  BY DEF PipelineInv, NetInv
<1>2. Sound /\ NoVerdict  BY <1>1, ReportIsSound DEF PipelineInv, Deliver
<1>3. net' \subseteq net /\ worker' = worker /\ UNCHANGED <<handler, publicationVars, stops>>
  BY DEF Deliver
<1>4. WorkersInv' /\ NetInv'
  BY <1>2, <1>3, WorkersAsBefore, NetAsBefore DEF PipelineInv
<1> QED  BY <1>2, <1>3, <1>4, RuntimeStepIsKept

LEMMA WorkersAreKept ==
  ASSUME PipelineInv, PipelineAssumption, NEW w \in Workers, WorkerStep(w) \/ RenewLease(w)
  PROVE  Kept
<1>1. RuntimeInv /\ WorkersInv /\ NetInv /\ RuntimeTypeOK /\ LeasesFollowRuns /\ RuntimeAssumption
  BY DEF PipelineInv, RuntimeInv, PipelineAssumption
<1>2. UNCHANGED <<handler, publicationVars, stops>>
  BY DEF WorkerStep, Hear, Read, Fail, WorkerStops, RenewLease
<1>3. worker[w] # Idle
  BY DEF WorkerStep, Hear, Read, Fail, WorkerStops, RenewLease, At, Idle, ReportStep
<1>4. /\ worker[w] \in Busy /\ worker[w].run \in Runs
      /\ worker[w].ordinal \in DOMAIN attempts[worker[w].run]
      /\ DOMAIN attempts[worker[w].run] = 1 .. Len(attempts[worker[w].run])
  BY <1>1, <1>3 DEF WorkersInv, Busy, RuntimeTypeOK
<1>5. CASE Hear(w) \/ Fail(w)
  <2>1. PICK pc \in ReportStep \cup {"READ", "UPLOAD"}: GoTo(w, pc)
    BY <1>5 DEF Hear, Fail, NextStep, ReportStep
  <2>2. Sound /\ NoVerdict  BY <1>1, <1>5, NothingIsSound DEF Hear, Fail
  <2>3. WorkersInv' /\ NetInv'  BY <1>1, <1>3, <2>1, <2>2, GoingOn
  <2> QED  BY <1>2, <2>2, <2>3, RuntimeStepIsKept
<1>6. CASE Read(w)
  <2>1. readInput(worker[w].run, worker[w].ordinal) /\ GoTo(w, "OUTPUT_PROGRESS")
    BY <1>6 DEF Read
  <2>2. Quiet(worker[w].run)  BY <1>1, <1>4, <2>1, ReadIsQuiet
  <2>3. UNCHANGED <<run, created, issued, reports>>  BY <2>1 DEF readInput
  <2>4. Sound /\ NoVerdict  BY <1>1, <1>4, <2>2, <2>3, QuietIsSound
  <2>5. WorkersInv' /\ NetInv'  BY <1>1, <1>3, <2>1, <2>4, GoingOn DEF ReportStep
  <2> QED  BY <1>2, <2>4, <2>5, RuntimeStepIsKept
<1>7. CASE RenewLease(w)
  <2>1. /\ renewLease(worker[w].run) /\ worker' = [worker EXCEPT ![w].generation = @ + 1]
        /\ net' = net
        /\ Latest(worker[w].run).generation = worker[w].generation
    BY <1>7 DEF RenewLease
  <2>2. Quiet(worker[w].run)  BY <1>1, <1>4, <2>1, RenewalIsQuiet
  <2>3. UNCHANGED <<run, created, issued, reports>>  BY <2>1 DEF renewLease
  <2>4. Sound /\ NoVerdict  BY <1>1, <1>4, <2>2, <2>3, QuietIsSound
  <2>5. worker[w].generation < MaxGeneration  BY <2>1 DEF renewLease
  <2> DEFINE task == [worker[w] EXCEPT !.generation = @ + 1]
  <2>6. /\ task \in Busy /\ task.run = worker[w].run /\ task.ordinal = worker[w].ordinal
    <3>1. worker[w].generation \in 1 .. MaxGeneration /\ MaxGeneration \in Nat
      BY <1>1, <1>4 DEF Busy, RuntimeAssumption
    <3>2. worker[w].generation + 1 \in 1 .. MaxGeneration  BY <2>5, <3>1
    <3> QED  BY <1>4, <3>2 DEF Busy
  <2>7. worker' = [worker EXCEPT ![w] = task]  BY <1>1, <2>1 DEF WorkersInv
  <2>8. \A r \in Runs: DOMAIN attempts[r] \subseteq DOMAIN attempts'[r]
    BY <1>1, <2>4, SoundTypes, OrdinalsStay
  <2>9. \A v \in Workers: worker[v] # Idle => worker[v].run \in Runs
    BY <1>1 DEF WorkersInv, Busy
  <2>10. WorkersInv'
    <3> HIDE DEF task
    <3> QED  BY <1>1, <1>4, <2>6, <2>7, <2>8, <2>9 DEF WorkersInv
  <2>11. NetInv'  BY <1>1, <2>1, <2>4, NetAsBefore
  <2> QED  BY <1>2, <2>4, <2>10, <2>11, RuntimeStepIsKept
<1>8. CASE WorkerStops(w)
  <2>1. /\ worker' = [worker EXCEPT ![w] = Idle] /\ net' = net /\ UNCHANGED runtimeVars
    BY <1>8 DEF WorkerStops
  <2>2. Sound /\ NoVerdict  BY <1>1, <2>1, NothingIsSound
  <2>3. WorkersInv'  BY <1>1, <2>1 DEF WorkersInv, runtimeVars
  <2>4. NetInv'  BY <1>1, <2>1, <2>2, NetAsBefore
  <2> QED  BY <1>2, <2>2, <2>3, <2>4, RuntimeStepIsKept
<1> QED  BY <1>5, <1>6, <1>7, <1>8 DEF WorkerStep

-----------------------------------------------------------------------------
(* The stages of a commit. *)

LEMMA RefusalIsKept ==
  ASSUME PipelineInv, NEW r \in Runs, CommitRefused(r) \/ IndexRefused(r)
  PROVE  Kept
<1>1. Answer(TRUE) /\ UNCHANGED <<runtimeVars, net, publicationVars, stops>>
  BY DEF CommitRefused, IndexRefused
<1>2. Sound /\ NoVerdict  BY <1>1, NothingIsSound DEF PipelineInv
<1>3. WorkersInv' /\ HandlerInv'  BY <1>1, <1>2, AnswerKeepsWorkers DEF PipelineInv
<1>4. NetInv'  BY <1>1, <1>2, NetAsBefore DEF PipelineInv
<1>5. PublicationTyped' /\ PublishedOnlyVerified' /\ IndexInv'
  BY <1>1, <1>2, PublicationAsBefore DEF PipelineInv
<1> QED  BY <1>1, <1>2, <1>3, <1>4, <1>5, KeptInParts DEF PipelineInv

\* What is indexed, current and announced stays as it is.
LEMMA IndexAsBefore ==
  ASSUME IndexInv, UNCHANGED <<indexed, current, feed>>
  PROVE  IndexInv'
<1>1. \A r: Siblings(r)' = Siblings(r)  BY DEF Siblings
<1>2. NewestIsCurrent'  BY <1>1 DEF IndexInv, NewestIsCurrent
<1> QED  BY <1>2 DEF IndexInv, VersionsIndexedOnce, FeedInOrder

LEMMA StagingIsKept ==
  ASSUME PipelineInv, NEW r \in Runs, ingestGenerated(r) \/ verifyGenerated(r)
  PROVE  Kept
<1>1. UNCHANGED <<runtimeVars, worker, net, packaged, indexed, current, feed, stops>>
  BY DEF ingestGenerated, verifyGenerated
<1>2. Sound  BY <1>1, NothingIsSound DEF PipelineInv
<1>3. WorkersInv' /\ NetInv'  BY <1>1, <1>2, WorkersAsBefore, NetAsBefore DEF PipelineInv
<1>4. HandlerInv'
  BY <1>2, HandlerContinues DEF ingestGenerated, verifyGenerated, PipelineInv
<1>5. \/ doc' = doc
      \/ /\ run[r].status = "VERIFYING" /\ doc[r] \in {"NONE", "GENERATED"}
         /\ \E d \in {"GENERATED", "READY", "BLOCKED"}: doc' = [doc EXCEPT ![r] = d]
  BY DEF ingestGenerated, verifyGenerated
<1>6. run' = run  BY <1>1 DEF runtimeVars
<1>7. PublicationTyped'
  BY <1>1, <1>5 DEF PipelineInv, PublicationTyped, DocStatus
<1>8. PublishedOnlyVerified'
  BY <1>1, <1>5, <1>6 DEF PipelineInv, PublicationTyped, PublishedOnlyVerified
<1>9. IndexInv'  BY <1>1, IndexAsBefore DEF PipelineInv
<1> QED  BY <1>1, <1>2, <1>3, <1>4, <1>7, <1>8, <1>9, KeptInParts DEF PipelineInv

LEMMA FinalizationIsKept ==
  ASSUME PipelineInv, NEW r \in Runs, NEW heard \in BOOLEAN, finalizeReady(r) \/ finalizeBlocked(r, heard)
  PROVE  Kept
<1>1. UNCHANGED <<net, publicationVars, stops>>  BY DEF finalizeReady, finalizeBlocked
<1>2. \/ UNCHANGED runtimeVars
      \/ completeVerification(r) /\ doc[r] = "READY"
      \/ failVerification(r) /\ doc[r] = "BLOCKED"
  BY DEF finalizeReady, finalizeBlocked
<1>3. Sound  BY <1>2, NothingIsSound, VerdictIsSound DEF PipelineInv
<1>4. NetInv'  BY <1>1, <1>3, NetAsBefore DEF PipelineInv
<1>5. WorkersInv' /\ HandlerInv'
  <2>1. CASE finalizeReady(r)
    <3>1. worker' = worker /\ Committing(r, "FINALIZE") /\ Continue("PACKAGE")
      BY <2>1 DEF finalizeReady
    <3>2. WorkersInv'  BY <1>3, <3>1, WorkersAsBefore DEF PipelineInv
    <3>3. HandlerInv'  BY <1>3, <3>1, HandlerContinues DEF PipelineInv
    <3> QED  BY <3>2, <3>3
  <2>2. CASE finalizeBlocked(r, heard)
    BY <1>3, <2>2, AnswerKeepsWorkers DEF finalizeBlocked, PipelineInv
  <2> QED  BY <2>1, <2>2
<1>6. PublicationTyped' /\ IndexInv'
  BY <1>1, IndexAsBefore DEF PipelineInv, PublicationTyped, publicationVars
<1>7. PublishedOnlyVerified'
  <2>1. doc' = doc /\ packaged' = packaged /\ indexed' = indexed  BY <1>1 DEF publicationVars
  <2>2. \A q \in Runs \ {r}: run'[q] = run[q]
    BY <1>2 DEF runtimeVars, completeVerification, failVerification, Transition, PipelineInv,
                RuntimeInv, RuntimeTypeOK
  <2>3. \/ run'[r].status = run[r].status
        \/ /\ run[r].status = "VERIFYING"
           /\ \/ run'[r].status = "COMPLETED" /\ doc[r] = "READY"
              \/ run'[r].status = "FAILED" /\ doc[r] = "BLOCKED"
    BY <1>2 DEF runtimeVars, completeVerification, failVerification, Transition, PipelineInv,
                RuntimeInv, RuntimeTypeOK
  <2>4. PublishedOnlyVerified  BY DEF PipelineInv
  <2> QED  BY <2>1, <2>2, <2>3, <2>4 DEF PublishedOnlyVerified
<1> QED  BY <1>1, <1>3, <1>4, <1>5, <1>6, <1>7, KeptInParts DEF PipelineInv

LEMMA PackageIsKept ==
  ASSUME PipelineInv, NEW r \in Runs, createVerified(r)
  PROVE  Kept
<1>1. /\ UNCHANGED <<runtimeVars, worker, net, doc, indexed, current, feed, stops>>
      /\ packaged' = packaged \cup {r} /\ run[r].status = "COMPLETED"
      /\ Committing(r, "PACKAGE") /\ Continue("INDEX")
  BY DEF createVerified
<1>2. Sound  BY <1>1, NothingIsSound DEF PipelineInv
<1>3. WorkersInv' /\ NetInv'  BY <1>1, <1>2, WorkersAsBefore, NetAsBefore DEF PipelineInv
<1>4. HandlerInv'  BY <1>1, <1>2, HandlerContinues DEF PipelineInv
<1>5. run' = run  BY <1>1 DEF runtimeVars
<1>6. PublicationTyped' /\ PublishedOnlyVerified'
  BY <1>1, <1>5 DEF PipelineInv, PublicationTyped, PublishedOnlyVerified
<1>7. IndexInv'  BY <1>1, IndexAsBefore DEF PipelineInv
<1> QED  BY <1>1, <1>2, <1>3, <1>4, <1>6, <1>7, KeptInParts DEF PipelineInv

\* Putting r into the index: r becomes current if it is the newest of its
\* document, and otherwise whatever was current stays it.
LEMMA IndexingKeepsNewest ==
  ASSUME PipelineInv, PipelineAssumption, NEW r \in Runs, r \notin indexed, ~VersionIndexed(r),
         indexed' = indexed \cup {r},
         current' = IF Newest(r) THEN (current \ Siblings(r)) \cup {r} ELSE current
  PROVE  VersionsIndexedOnce' /\ NewestIsCurrent'
<1>1. /\ indexed \subseteq Runs /\ current \subseteq indexed
      /\ \A q \in Runs: Version[q] \in Nat
      /\ VersionsIndexedOnce /\ NewestIsCurrent
  BY DEF PipelineInv, PublicationTyped, IndexInv, PipelineAssumption
<1>2. \A q \in indexed: Document[q] = Document[r] => Version[q] # Version[r]
  BY DEF VersionIndexed, Siblings
<1>3. VersionsIndexedOnce'  BY <1>1, <1>2 DEF VersionsIndexedOnce
<1>4. NewestIsCurrent'
  <2> SUFFICES ASSUME NEW q \in indexed'
               PROVE  /\ Cardinality(current' \cap Siblings(q)') = 1
                      /\ q \in current' <=> \A p \in Siblings(q)': Version[p] <= Version[q]
    BY DEF NewestIsCurrent
  <2>1. CASE Document[q] # Document[r]
    <3>1. q \in indexed /\ Siblings(q)' = Siblings(q)  BY <2>1 DEF Siblings
    <3>2. r \notin Siblings(q) /\ Siblings(q) \cap Siblings(r) = {}  BY <2>1 DEF Siblings
    <3>3. current' \cap Siblings(q) = current \cap Siblings(q)  BY <3>2
    <3>4. q \in current' <=> q \in current
      <4>1. q \in Siblings(q)  BY <3>1 DEF Siblings
      <4> QED  BY <3>2, <4>1
    <3> QED  BY <1>1, <3>1, <3>3, <3>4 DEF NewestIsCurrent
  <2>2. CASE Document[q] = Document[r]
    <3>1. /\ Siblings(q)' = Siblings(r) \cup {r} /\ r \notin Siblings(r)
          /\ Siblings(r) \subseteq indexed
          /\ \A p \in Siblings(r): Siblings(p) = Siblings(r)
          /\ q \in Siblings(r) \/ q = r
      BY <2>2 DEF Siblings
    <3>2. CASE Newest(r)
      <4>1. current' \cap Siblings(q)' = {r}  BY <3>1, <3>2
      <4>2. Cardinality(current' \cap Siblings(q)') = 1  BY <4>1, FS_Singleton
      <4>3. \A p \in Siblings(r): Version[p] < Version[r]  BY <3>2 DEF Newest
      <4>4. CASE q = r
        <5>1. r \in current'  BY <3>2
        <5>2. \A p \in Siblings(q)': Version[p] <= Version[r]
          BY <1>1, <3>1, <4>3
        <5> QED  BY <4>2, <4>4, <5>1, <5>2
      <4>5. CASE q \in Siblings(r)
        <5>1. q \notin current'  BY <3>1, <3>2, <4>5
        <5>2. r \in Siblings(q)' /\ Version[q] < Version[r]  BY <3>1, <4>3, <4>5
        <5>3. ~(Version[r] <= Version[q])  BY <1>1, <3>1, <4>5, <5>2
        <5> QED  BY <4>2, <5>1, <5>2, <5>3
      <4> QED  BY <3>1, <4>4, <4>5
    <3>3. CASE ~Newest(r)
      <4>1. PICK p \in Siblings(r): ~(Version[p] < Version[r])  BY <3>3 DEF Newest
      <4>2. current' = current /\ r \notin current  BY <1>1, <3>3
      <4>3. current' \cap Siblings(q)' = current \cap Siblings(p)  BY <3>1, <4>2
      <4>4. Cardinality(current' \cap Siblings(q)') = 1
        BY <1>1, <3>1, <4>3 DEF NewestIsCurrent
      <4>5. Version[r] < Version[p]
        <5>1. p \in indexed /\ Document[p] = Document[r]  BY DEF Siblings
        <5>2. Version[p] # Version[r] /\ Version[p] \in Nat /\ Version[r] \in Nat
          BY <1>1, <1>2, <5>1
        <5> QED  BY <4>1, <5>2
      <4>6. CASE q = r
        <5>1. p \in Siblings(q)' /\ ~(Version[p] <= Version[r])
          BY <1>1, <3>1, <4>5
        <5> QED  BY <4>2, <4>4, <4>6, <5>1
      <4>7. CASE q \in Siblings(r)
        <5>1. q \in current <=> \A o \in Siblings(r): Version[o] <= Version[q]
          BY <1>1, <3>1, <4>7 DEF NewestIsCurrent
        <5>2. (\A o \in Siblings(r): Version[o] <= Version[q]) => Version[r] <= Version[q]
          BY <1>1, <3>1, <4>5, <4>7
        <5> QED  BY <3>1, <4>2, <4>4, <5>1, <5>2
      <4> QED  BY <3>1, <4>6, <4>7
    <3> QED  BY <3>2, <3>3
  <2> QED  BY <2>1, <2>2
<1> QED  BY <1>3, <1>4

LEMMA IndexEntryIsKept ==
  ASSUME PipelineInv, PipelineAssumption, NEW r \in Runs, indexVerified(r)
  PROVE  Kept
<1>1. /\ UNCHANGED <<runtimeVars, worker, net, doc, packaged, feed, stops>>
      /\ Committing(r, "INDEX") /\ Continue("FEED")
  BY DEF indexVerified
<1>2. \/ r \in indexed /\ UNCHANGED <<indexed, current>>
      \/ /\ r \notin indexed /\ ~VersionIndexed(r)
         /\ indexed' = indexed \cup {r}
         /\ current' = IF Newest(r) THEN (current \ Siblings(r)) \cup {r} ELSE current
  BY DEF indexVerified
<1>3. Sound  BY <1>1, NothingIsSound DEF PipelineInv
<1>4. WorkersInv' /\ NetInv'  BY <1>1, <1>3, WorkersAsBefore, NetAsBefore DEF PipelineInv
<1>5. r \in packaged /\ packaged' = packaged /\ r \in indexed' /\ indexed \subseteq indexed'
  BY <1>1, <1>2 DEF PipelineInv, HandlerInv, Committing
<1>6. HandlerInv'  BY <1>1, <1>3, <1>5, HandlerContinues DEF PipelineInv
<1>7. PublicationTyped'
  BY <1>1, <1>2 DEF PipelineInv, PublicationTyped
<1>8. PublishedOnlyVerified'
  <2>1. run' = run /\ doc' = doc  BY <1>1 DEF runtimeVars
  <2> QED  BY <1>2, <1>5, <2>1 DEF PipelineInv, PublishedOnlyVerified
<1>9. VersionsIndexedOnce' /\ NewestIsCurrent'
  <2>1. CASE UNCHANGED <<indexed, current>>
    BY <1>1, <2>1, IndexAsBefore DEF PipelineInv, IndexInv
  <2> QED  BY <1>2, <2>1, IndexingKeepsNewest
<1>10. FeedInOrder'
  <2>1. feed' = feed  BY <1>1
  <2>2. FeedInOrder  BY DEF PipelineInv, IndexInv
  <2> QED  BY <1>5, <2>1, <2>2 DEF FeedInOrder
<1> QED
  BY <1>1, <1>3, <1>4, <1>6, <1>7, <1>8, <1>9, <1>10, KeptInParts DEF PipelineInv, IndexInv

\* An event is of the newest indexed version of its document, which no event has
\* been of, so that it is newer than whatever the feed tells of the document.
LEMMA AnnouncementIsKept ==
  ASSUME PipelineInv, PipelineAssumption, NEW r \in Runs, NEW heard \in BOOLEAN,
         recordIndexedVersion(r, heard)
  PROVE  Kept
<1>1. /\ UNCHANGED <<runtimeVars, net, doc, packaged, indexed, current, stops>>
      /\ Answer(heard)
  BY DEF recordIndexedVersion
<1>2. Sound  BY <1>1, NothingIsSound DEF PipelineInv
<1>3. WorkersInv' /\ HandlerInv'  BY <1>1, <1>2, AnswerKeepsWorkers DEF PipelineInv
<1>4. NetInv'  BY <1>1, <1>2, NetAsBefore DEF PipelineInv
<1>5. run' = run  BY <1>1 DEF runtimeVars
<1>6. PublishedOnlyVerified'  BY <1>1, <1>5 DEF PipelineInv, PublishedOnlyVerified
<1>7. VersionsIndexedOnce' /\ NewestIsCurrent'
  <2>1. \A q: Siblings(q)' = Siblings(q)  BY <1>1 DEF Siblings
  <2> QED  BY <1>1, <2>1 DEF PipelineInv, IndexInv, VersionsIndexedOnce, NewestIsCurrent
<1>8. PublicationTyped' /\ FeedInOrder'
  <2>1. CASE feed' = feed
    BY <1>1, <2>1 DEF PipelineInv, IndexInv, PublicationTyped, FeedInOrder
  <2>2. CASE feed' # feed
    <3> DEFINE new == [from |-> previousDocument(r), to |-> r]
               E == [from: SUBSET Runs, to: Runs]
    <3>1. r \in current /\ ~Announced(r) /\ feed' = Append(feed, new)
      BY <2>2 DEF recordIndexedVersion
    <3>2. /\ indexed \subseteq Runs /\ current \subseteq indexed /\ feed \in Seq(E)
          /\ \A q \in Runs: Version[q] \in Nat
          /\ VersionsIndexedOnce /\ NewestIsCurrent /\ FeedInOrder
      BY DEF PipelineInv, PublicationTyped, IndexInv, PipelineAssumption
    <3>3. \A q \in previousDocument(r): q \in indexed /\ Version[q] < Version[r]
      BY DEF previousDocument, Siblings
    <3>4. new \in E /\ new.to = r /\ new.from = previousDocument(r)  BY <3>2, <3>3
    <3> HIDE DEF new, E
    <3>5. /\ feed' \in Seq(E) /\ Len(feed) \in Nat
          /\ DOMAIN feed = 1 .. Len(feed) /\ DOMAIN feed' = 1 .. Len(feed) + 1
          /\ \A i \in 1 .. Len(feed): feed'[i] = feed[i]
          /\ feed'[Len(feed) + 1] = new
      BY <3>1, <3>2, <3>4, AppendProperties, LenProperties
    <3>6. \A i \in DOMAIN feed: Document[feed[i].to] = Document[r] => Version[feed[i].to] < Version[r]
      <4> SUFFICES ASSUME NEW i \in DOMAIN feed, Document[feed[i].to] = Document[r]
                   PROVE  Version[feed[i].to] < Version[r]
        OBVIOUS
      <4>1. feed[i].to \in indexed /\ feed[i].to # r
        BY <3>1, <3>2 DEF FeedInOrder, Announced
      <4>2. feed[i].to \in Siblings(r)  BY <4>1 DEF Siblings
      <4>3. Version[feed[i].to] <= Version[r]  BY <3>1, <3>2, <4>2 DEF NewestIsCurrent
      <4>4. Version[feed[i].to] # Version[r]  BY <3>1, <3>2, <4>1 DEF VersionsIndexedOnce
      <4> QED  BY <3>1, <3>2, <4>1, <4>3, <4>4
    <3>7. FeedInOrder'
      <4> SUFFICES ASSUME NEW i \in DOMAIN feed', NEW j \in DOMAIN feed'
                   PROVE  /\ feed'[i].to \in indexed
                          /\ \A q \in feed'[i].from: q \in indexed /\ Version[q] < Version[feed'[i].to]
                          /\ i < j /\ Document[feed'[i].to] = Document[feed'[j].to] =>
                               Version[feed'[i].to] < Version[feed'[j].to]
        BY <1>1 DEF FeedInOrder
      <4>1. CASE i \in DOMAIN feed /\ j \in DOMAIN feed
        BY <3>2, <3>5, <4>1 DEF FeedInOrder
      <4>2. CASE i \in DOMAIN feed /\ j = Len(feed) + 1
        BY <3>2, <3>4, <3>5, <3>6, <4>2 DEF FeedInOrder
      <4>3. CASE i = Len(feed) + 1
        <5>1. ~(i < j)  BY <3>5, <4>3
        <5>2. feed'[i] = new  BY <3>5, <4>3
        <5> QED  BY <3>1, <3>2, <3>3, <3>4, <5>1, <5>2
      <4> QED  BY <3>5, <4>1, <4>2, <4>3
    <3>8. PublicationTyped'
      BY <1>1, <3>5 DEF E, PipelineInv, PublicationTyped
    <3> QED  BY <3>7, <3>8
  <2> QED  BY <2>1, <2>2
<1> QED
  BY <1>1, <1>2, <1>3, <1>4, <1>6, <1>7, <1>8, KeptInParts DEF PipelineInv, IndexInv

-----------------------------------------------------------------------------

LEMMA InvInit == ASSUME PipelineAssumption, Init PROVE PipelineInv
<1>1. RuntimeInit /\ run = [r \in Runs |-> [status |-> "NONE", events |-> <<>>]]
      /\ attempts = [r \in Runs |-> <<>>]
  BY DEF Init, RuntimeInit
<1>2. RuntimeTypeOK
  <2>1. /\ <<>> \in Seq(RunStatus \X RunStatus) /\ <<>> \in Seq(Attempt) /\ <<>> \in Seq(Runs)
        /\ Len(<<>>) = 0 /\ "NONE" \in RunStatus
    BY EmptySeq DEF RunStatus
  <2> QED  BY <1>1, <2>1 DEF RuntimeInit, RuntimeTypeOK, PipelineAssumption, RuntimeAssumption
<1>3. LeasesFollowRuns  BY <1>1 DEF LeasesFollowRuns
<1>4. EventsInv
  <2>1. \A r \in Runs: StartsOnce(r)  BY <1>1 DEF StartsOnce, Starts
  <2>2. \A r \in Runs: {i \in DOMAIN run[r].events: run[r].events[i] = <<"PENDING", "RUNNING">>} = {}
    BY <1>1
  <2>3. \A r \in Runs:
          Cardinality({i \in DOMAIN run[r].events: run[r].events[i] = <<"PENDING", "RUNNING">>}) <= 1
    <3>1. Cardinality({}) = 0  BY FS_EmptySet
    <3> QED  BY <2>2, <3>1
  <2>4. \A r \in Runs: run[r].events = <<>> /\ run[r].status = "NONE"  BY <1>1
  <2>5. EventsTellTheRun  BY <2>3, <2>4 DEF EventsTellTheRun
  <2> QED  BY <2>1, <2>5 DEF EventsInv
<1>5. RuntimeInv  BY <1>1, <1>2, <1>3, <1>4 DEF RuntimeInv, Untouched
<1>6. WorkersInv /\ NetInv /\ HandlerInv
  BY DEF Init, WorkersInv, NetInv, HandlerInv, NoRequest
<1>7. PublicationTyped /\ PublishedOnlyVerified
  <2>1. feed \in Seq([from: SUBSET Runs, to: Runs])  BY EmptySeq DEF Init
  <2> QED  BY <1>1, <2>1 DEF Init, PublicationTyped, DocStatus, PublishedOnlyVerified
<1>8. IndexInv  BY DEF Init, IndexInv, VersionsIndexedOnce, NewestIsCurrent, FeedInOrder
<1>9. stops \in 0 .. MaxStops  BY DEF Init, PipelineAssumption
<1> QED  BY <1>5, <1>6, <1>7, <1>8, <1>9 DEF PipelineInv

LEMMA InvStep == ASSUME PipelineAssumption, PipelineInv, [Next]_vars PROVE Kept
<1>1. ASSUME NEW r \in Runs, Dispatch(r) \/ Cancel(r) \/ Release(r) \/ TimePasses(r)
      PROVE  Kept
  BY <1>1, OperatorsAreKept
<1>2. ASSUME NEW w \in Workers, StartClaim(w) \/ StartCommit(w) \/ RenewLease(w) \/ WorkerStep(w)
      PROVE  Kept
  BY <1>2, RequestsAreKept, WorkersAreKept
<1>3. ASSUME NEW m \in net, Deliver(m)  PROVE Kept
  BY <1>3, DeliveryIsKept
<1>4. CASE HandlerStep
  <2>1. CASE NoCompatibleWork  BY <2>1, RequestsAreKept
  <2>2. ASSUME NEW r \in Runs,
               \/ ReconcileLease(r)
               \/ CommitRefused(r) \/ ingestGenerated(r) \/ verifyGenerated(r) \/ finalizeReady(r)
               \/ createVerified(r) \/ indexVerified(r) \/ IndexRefused(r)
        PROVE  Kept
    <3>1. finalizeReady(r) => Kept  BY FinalizationIsKept
    <3> QED
      BY <2>2, <3>1, ReconciledLeaseIsKept, RefusalIsKept, StagingIsKept, PackageIsKept,
         IndexEntryIsKept
  <2>3. ASSUME NEW r \in Runs, NEW heard \in BOOLEAN,
               ClaimRun(r, heard) \/ finalizeBlocked(r, heard) \/ recordIndexedVersion(r, heard)
        PROVE  Kept
    BY <2>3, ClaimedRunIsKept, FinalizationIsKept, AnnouncementIsKept
  <2> QED  BY <1>4, <2>1, <2>2, <2>3 DEF HandlerStep
<1>5. CASE ControlPlaneStops  BY <1>5, RequestsAreKept
<1>6. CASE UNCHANGED vars
  <2>1. UNCHANGED runtimeVars /\ worker' = worker /\ net' = net
        /\ UNCHANGED <<handler, publicationVars, stops>>
    BY <1>6 DEF vars
  <2>2. Sound /\ NoVerdict  BY <2>1, NothingIsSound DEF PipelineInv
  <2>3. WorkersInv' /\ NetInv'  BY <2>1, <2>2, WorkersAsBefore, NetAsBefore DEF PipelineInv
  <2> QED  BY <2>1, <2>2, <2>3, RuntimeStepIsKept
<1> QED  BY <1>1, <1>2, <1>3, <1>4, <1>5, <1>6 DEF Next

\* Whatever dies, whatever is late and whoever races: leases and runs agree, the
\* events of a run tell the one way to its status, only what was verified is
\* packaged, indexed and announced, the newest of a document's indexed versions is
\* its current one and the change feed tells them in order
\* (conversion-runtime-transitions.ts persistTransition and
\* production-conversion-worker-service.ts commitProductionStagingWithDependencies).
THEOREM ConversionExact == ASSUME PipelineAssumption PROVE Spec => []ConversionIsExact
<1>1. Init => PipelineInv  BY InvInit
<1>2. PipelineInv /\ [Next]_vars => PipelineInv'  BY InvStep DEF Kept
<1>3. PipelineInv => ConversionIsExact  BY InvIsEnough
<1> QED  BY <1>1, <1>2, <1>3, PTL DEF Spec

\* No step, of a late report, a release, a renewal, the reconciler or a verifier,
\* reopens or rewrites an attempt whose lease has ended
\* (conversion-runtime-transitions.ts persistTransition, closeBeforeStart).
THEOREM ClosedStays == ASSUME PipelineAssumption PROVE Spec => NothingIsReopened
<1>1. Init => PipelineInv  BY InvInit
<1>2. PipelineInv /\ [Next]_vars => PipelineInv' /\ [ClosedStaysClosed]_vars
  BY InvStep DEF Kept
<1> QED  BY <1>1, <1>2, PTL DEF Spec, NothingIsReopened

-----------------------------------------------------------------------------
(* The automatic handoff. *)

\* An artifact has a profile from its authorization on, a handoff that authorized
\* its artifact has that profile, and so has an automatic run.
Authorized(a) == artifact[a].status \in {"READY_FOR_CONVERSION", "ARCHIVED"}
Head1(p) == process[p].todo[1]

HandoffsAgree ==
  \A p \in Processes :
    /\ process[p].pc # "IDLE" => process[p].todo # <<>>
    /\ process[p].pc \in {"CHOSEN", "AUTHORIZED"} => process[p].profile \in Profiles
    /\ process[p].pc = "AUTHORIZED" =>
         Authorized(Head1(p)) /\ artifact[Head1(p)].profile = process[p].profile

RunsAgree ==
  \A r \in conversions : r.trigger = "AUTO_PROFILE" =>
    Authorized(r.artifact) /\ artifact[r.artifact].profile = r.profile

AutomaticInv ==
  /\ Automatic!TypeOK
  /\ \A a \in Artifacts : ~Authorized(a) => artifact[a].profile = Automatic!Nobody
  /\ HandoffsAgree
  /\ RunsAgree

LEMMA AutomaticInvIsEnough ==
  ASSUME AutomaticInv PROVE Automatic!TypeOK /\ Automatic!OneAutomaticRun
<1>1. ASSUME NEW r \in conversions, NEW o \in conversions, r.trigger = "AUTO_PROFILE"
      PROVE  /\ r.profile = artifact[r.artifact].profile
             /\ o.trigger = "AUTO_PROFILE" /\ o.artifact = r.artifact => o = r
  BY <1>1
     DEF AutomaticInv, RunsAgree, Automatic!TypeOK, Automatic!Run
<1> QED  BY <1>1 DEF AutomaticInv, Automatic!OneAutomaticRun

LEMMA AutomaticInvInit ==
  ASSUME Automatic!AutomaticAssumption, Automatic!Init PROVE AutomaticInv
<1> USE DEF Automatic!Init
<1>1. artifact \in [Artifacts -> [status : Automatic!ArtifactStatus,
                                  profile : Profiles \cup {Automatic!Nobody}]]
  BY DEF Automatic!ArtifactStatus
<1>2. process \in [Processes -> Automatic!ProcessState] /\ profile \in [Profiles -> Automatic!ProfileStatus]
  BY DEF Automatic!Idle, Automatic!ProcessState, Automatic!ProfileStatus
<1>3. Automatic!TypeOK
  BY <1>1, <1>2 DEF Automatic!TypeOK, Automatic!AutomaticAssumption
<1>4. HandoffsAgree  BY DEF HandoffsAgree, Automatic!Idle
<1> QED  BY <1>3, <1>4 DEF AutomaticInv, RunsAgree, Authorized

\* A step that authorizes no artifact anew, and of one that is authorized changes
\* the status at most.
ArtifactsStay ==
  \A a \in Artifacts :
    /\ artifact[a].profile = artifact'[a].profile
    /\ Authorized(a) <=> artifact'[a].status \in {"READY_FOR_CONVERSION", "ARCHIVED"}

LEMMA StayingStep ==
  ASSUME AutomaticInv, ArtifactsStay, Automatic!TypeOK',
         UNCHANGED process,
         \A r \in conversions' : r.trigger = "AUTO_PROFILE" => r \in conversions
  PROVE  AutomaticInv' /\ Automatic!AuthorizationIsSticky
<1>1. \A p \in Processes : process[p].pc # "IDLE" => Head1(p) \in Artifacts
  BY DEF AutomaticInv, HandoffsAgree, Automatic!TypeOK, Automatic!ProcessState, Head1
<1>2. HandoffsAgree'
  BY <1>1 DEF AutomaticInv, HandoffsAgree, ArtifactsStay, Authorized, Head1
<1>3. RunsAgree'
  BY DEF AutomaticInv, RunsAgree, ArtifactsStay, Authorized, Automatic!TypeOK, Automatic!Run
<1>4. Automatic!AuthorizationIsSticky
  BY DEF AutomaticInv, ArtifactsStay, Authorized, Automatic!AuthorizationIsSticky
<1> QED  BY <1>2, <1>3, <1>4 DEF AutomaticInv, ArtifactsStay, Authorized

\* A handoff that goes on: how its process stands afterwards.
MovesTo(p, state) ==
  /\ process' = [process EXCEPT ![p] = state]
  /\ state \in Automatic!ProcessState
  /\ state.pc # "IDLE" => state.todo # <<>>
  /\ state.pc \in {"CHOSEN", "AUTHORIZED"} => state.profile \in Profiles

LEMMA LeavesTo ==
  ASSUME AutomaticInv, NEW p \in Processes, process[p].pc # "IDLE", Automatic!Leave(p)
  PROVE  \E state : MovesTo(p, state) /\ state.pc \in {"IDLE", "NEXT"}
<1>1. process[p].todo \in Seq(Artifacts)
  BY DEF AutomaticInv, Automatic!TypeOK, Automatic!ProcessState
<1>2. CASE Len(process[p].todo) > 1
  <2> DEFINE state == [pc |-> "NEXT", todo |-> Tail(process[p].todo), profile |-> Automatic!Nobody]
  <2>1. Tail(process[p].todo) \in Seq(Artifacts) /\ Tail(process[p].todo) # <<>>
    <3> DEFINE todo == process[p].todo
    <3>1. todo \in Seq(Artifacts) /\ Len(todo) > 1  BY <1>1, <1>2
    <3> HIDE DEF todo
    <3>2. todo # <<>>  BY <3>1
    <3>3. Tail(todo) \in Seq(Artifacts) /\ Len(Tail(todo)) = Len(todo) - 1
      BY <3>1, <3>2, HeadTailProperties
    <3>4. Tail(todo) # <<>>
      <4>1. Len(Tail(todo)) # 0  BY <3>1, <3>3
      <4>2. Len(<<>>) = 0  OBVIOUS
      <4> QED  BY <4>1, <4>2
    <3> QED  BY <3>3, <3>4 DEF todo
  <2>2. state \in Automatic!ProcessState  BY <2>1 DEF Automatic!ProcessState
  <2>3. process' = [process EXCEPT ![p] = state]  BY <1>2 DEF Automatic!Leave
  <2>4. state.pc = "NEXT" /\ state.todo # <<>>  BY <2>1
  <2> HIDE DEF state
  <2> QED  BY <2>2, <2>3, <2>4 DEF MovesTo
<1>3. CASE ~ (Len(process[p].todo) > 1)
  <2>1. process' = [process EXCEPT ![p] = Automatic!Idle]  BY <1>3 DEF Automatic!Leave
  <2>2. Automatic!Idle \in Automatic!ProcessState /\ Automatic!Idle.pc = "IDLE"
    BY DEF Automatic!Idle, Automatic!ProcessState
  <2> QED  BY <2>1, <2>2 DEF MovesTo
<1> QED  BY <1>2, <1>3

LEMMA MovesOn ==
  ASSUME AutomaticInv, NEW p \in Processes, process[p].pc # "IDLE",
         NEW pc \in {"CHOSEN", "AUTHORIZED"}, NEW q \in Profiles, Automatic!GoOn(p, pc, q)
  PROVE  \E state : /\ MovesTo(p, state) /\ state.pc = pc /\ state.profile = q
                    /\ state.todo = process[p].todo
<1>1. process[p] \in Automatic!ProcessState /\ process[p].todo # <<>>
  BY DEF AutomaticInv, HandoffsAgree, Automatic!TypeOK
<1> DEFINE state == [process[p] EXCEPT !.pc = pc, !.profile = q]
<1>2. /\ state \in Automatic!ProcessState
      /\ state.pc = pc /\ state.profile = q /\ state.todo = process[p].todo
  BY <1>1 DEF Automatic!ProcessState
<1>3. process' = [process EXCEPT ![p] = state]
  BY DEF Automatic!GoOn, AutomaticInv, Automatic!TypeOK
<1> QED  BY <1>1, <1>2, <1>3 DEF MovesTo

\* A step of one handoff that leaves the artifacts and the runs.
LEMMA MovingStep ==
  ASSUME AutomaticInv, NEW p \in Processes, NEW state, MovesTo(p, state),
         state.pc # "AUTHORIZED", ArtifactsStay,
         artifact' \in [Artifacts -> [status : Automatic!ArtifactStatus,
                                      profile : Profiles \cup {Automatic!Nobody}]],
         \A a \in Artifacts : artifact'[a].status = "READY_FOR_CONVERSION" => artifact'[a].profile \in Profiles,
         registered' \in Seq(Artifacts),
         UNCHANGED <<profile, archived, conversions, edits>>, ends' \in 0 .. MaxEnds
  PROVE  AutomaticInv' /\ Automatic!AuthorizationIsSticky
<1>1. process' \in [Processes -> Automatic!ProcessState]
  BY DEF AutomaticInv, Automatic!TypeOK, MovesTo
<1>2. Automatic!TypeOK'  BY <1>1 DEF AutomaticInv, Automatic!TypeOK
<1>3. \A o \in Processes : process[o].pc # "IDLE" => Head1(o) \in Artifacts
  BY DEF AutomaticInv, HandoffsAgree, Automatic!TypeOK, Automatic!ProcessState, Head1
<1>4. process'[p] = state /\ \A o \in Processes : o # p => process'[o] = process[o]
  BY DEF AutomaticInv, Automatic!TypeOK, MovesTo
<1>5. HandoffsAgree'
  BY <1>3, <1>4 DEF AutomaticInv, HandoffsAgree, ArtifactsStay, Authorized, Head1, MovesTo
<1>6. RunsAgree'
  BY DEF AutomaticInv, RunsAgree, ArtifactsStay, Authorized, Automatic!TypeOK, Automatic!Run
<1>7. Automatic!AuthorizationIsSticky
  BY DEF AutomaticInv, ArtifactsStay, Authorized, Automatic!AuthorizationIsSticky
<1> QED  BY <1>2, <1>5, <1>6, <1>7 DEF AutomaticInv, ArtifactsStay, Authorized

\* The state of a process that authorizes its artifact.
LEMMA AuthorizeStep ==
  ASSUME Automatic!AutomaticAssumption, AutomaticInv, NEW p \in Processes,
         Automatic!authorizeRawArtifactForConversion(p)
  PROVE  AutomaticInv' /\ Automatic!AuthorizationIsSticky
<1> DEFINE a == process[p].todo[1]
           q == process[p].profile
<1>1. /\ process[p].pc = "CHOSEN"
      /\ UNCHANGED <<registered, profile, archived, conversions, edits, ends>>
  BY DEF Automatic!authorizeRawArtifactForConversion, Automatic!At
<1>2. a \in Artifacts /\ q \in Profiles
  BY <1>1 DEF AutomaticInv, HandoffsAgree, Automatic!TypeOK, Automatic!ProcessState
<1>3. CASE /\ \/ artifact[a] = [status |-> "READY_FOR_CONVERSION", profile |-> q]
              \/ artifact[a].status = "REGISTERED"
           /\ artifact' = [artifact EXCEPT ![a] = [status |-> "READY_FOR_CONVERSION", profile |-> q]]
           /\ Automatic!GoOn(p, "AUTHORIZED", q)
  <2>1. PICK state : /\ MovesTo(p, state) /\ state.pc = "AUTHORIZED" /\ state.profile = q
                     /\ state.todo = process[p].todo
    BY <1>1, <1>2, <1>3, MovesOn
  <2> HIDE DEF q
  <2>2. process' \in [Processes -> Automatic!ProcessState]
    BY <2>1 DEF AutomaticInv, Automatic!TypeOK, MovesTo
  <2>3. /\ artifact' \in [Artifacts -> [status : Automatic!ArtifactStatus,
                                        profile : Profiles \cup {Automatic!Nobody}]]
        /\ artifact'[a] = [status |-> "READY_FOR_CONVERSION", profile |-> q]
        /\ \A b \in Artifacts : b # a => artifact'[b] = artifact[b]
    BY <1>2, <1>3 DEF AutomaticInv, Automatic!TypeOK, Automatic!ArtifactStatus
  <2>4. Automatic!TypeOK'  BY <1>1, <1>2, <2>2, <2>3 DEF AutomaticInv, Automatic!TypeOK
  <2>5. \A b \in Artifacts : Authorized(b) =>
          Authorized(b)' /\ artifact'[b].profile = artifact[b].profile
    BY <1>3, <2>3 DEF Authorized
  <2>6. \A b \in Artifacts : ~(Authorized(b)') => artifact'[b].profile = Automatic!Nobody
    BY <2>3 DEF AutomaticInv, Authorized
  <2>7. \A o \in Processes : process[o].pc # "IDLE" => Head1(o) \in Artifacts
    BY DEF AutomaticInv, HandoffsAgree, Automatic!TypeOK, Automatic!ProcessState, Head1
  <2>8. process'[p] = state /\ \A o \in Processes : o # p => process'[o] = process[o]
    BY <2>1 DEF AutomaticInv, Automatic!TypeOK, MovesTo
  <2>9. HandoffsAgree'
    <3>1. \A o \in Processes : o # p =>
            /\ process'[o].pc # "IDLE" => process'[o].todo # <<>>
            /\ process'[o].pc \in {"CHOSEN", "AUTHORIZED"} => process'[o].profile \in Profiles
            /\ process'[o].pc = "AUTHORIZED" =>
                 Authorized(Head1(o))' /\ artifact'[process'[o].todo[1]].profile = process'[o].profile
      BY <2>5, <2>7, <2>8 DEF AutomaticInv, HandoffsAgree, Head1, Authorized
    <3>2. Authorized(Head1(p))' /\ artifact'[process'[p].todo[1]].profile = process'[p].profile
      BY <2>1, <2>3, <2>8 DEF Head1, Authorized
    <3> QED  BY <2>1, <2>8, <3>1, <3>2 DEF HandoffsAgree, Head1, MovesTo
  <2>10. RunsAgree'
    BY <1>1, <2>5 DEF AutomaticInv, RunsAgree, Automatic!TypeOK, Automatic!Run
  <2>11. Automatic!AuthorizationIsSticky
    BY <2>3, <2>5 DEF AutomaticInv, Authorized, Automatic!AuthorizationIsSticky
  <2> QED  BY <2>4, <2>6, <2>9, <2>10, <2>11 DEF AutomaticInv
<1>4. CASE UNCHANGED artifact /\ Automatic!Leave(p)
  <2>1. PICK state : MovesTo(p, state) /\ state.pc \in {"IDLE", "NEXT"}
    BY <1>1, <1>4, LeavesTo
  <2>2. ArtifactsStay  BY <1>4 DEF ArtifactsStay, Authorized
  <2> QED  BY <1>1, <1>4, <2>1, <2>2, MovingStep DEF AutomaticInv, Automatic!TypeOK
<1> QED  BY <1>3, <1>4 DEF Automatic!authorizeRawArtifactForConversion

LEMMA DispatchStep ==
  ASSUME AutomaticInv, NEW p \in Processes, Automatic!dispatchAutomatic(p)
  PROVE  AutomaticInv' /\ Automatic!AuthorizationIsSticky
<1> DEFINE a == process[p].todo[1]
           q == process[p].profile
           new == [artifact |-> a, profile |-> q, trigger |-> "AUTO_PROFILE"]
<1>1. /\ process[p].pc = "AUTHORIZED" /\ conversions' \subseteq conversions \cup {new}
      /\ Automatic!Leave(p)
      /\ UNCHANGED <<artifact, registered, profile, archived, edits, ends>>
  BY DEF Automatic!dispatchAutomatic, Automatic!At
<1>2. /\ a \in Artifacts /\ q \in Profiles
      /\ Authorized(a) /\ artifact[a].profile = q
  BY <1>1 DEF AutomaticInv, HandoffsAgree, Automatic!TypeOK, Automatic!ProcessState, Head1
<1>3. new \in Automatic!Run  BY <1>2 DEF Automatic!Run, Automatic!Trigger
<1>4. new.artifact = a /\ new.profile = q  OBVIOUS
<1>5. PICK state : MovesTo(p, state) /\ state.pc \in {"IDLE", "NEXT"}
  BY <1>1, LeavesTo
<1> HIDE DEF new, a, q
<1>6. process' \in [Processes -> Automatic!ProcessState]
  BY <1>5 DEF AutomaticInv, Automatic!TypeOK, MovesTo
<1>7. Automatic!TypeOK'
  BY <1>1, <1>3, <1>6 DEF AutomaticInv, Automatic!TypeOK
<1>8. process'[p] = state /\ \A o \in Processes : o # p => process'[o] = process[o]
  BY <1>5 DEF AutomaticInv, Automatic!TypeOK, MovesTo
<1>9. HandoffsAgree'
  BY <1>1, <1>5, <1>8 DEF AutomaticInv, HandoffsAgree, Authorized, Head1, MovesTo
<1>10. RunsAgree'
  BY <1>1, <1>2, <1>4 DEF AutomaticInv, RunsAgree, Authorized
<1>11. Automatic!AuthorizationIsSticky
  BY <1>1 DEF AutomaticInv, Authorized, Automatic!AuthorizationIsSticky
<1> QED  BY <1>1, <1>7, <1>9, <1>10, <1>11 DEF AutomaticInv, Authorized

LEMMA AutomaticInvStep ==
  ASSUME Automatic!AutomaticAssumption, AutomaticInv, [Automatic!Next]_(Automatic!vars)
  PROVE  AutomaticInv' /\ [Automatic!AuthorizationIsSticky]_(Automatic!vars)
<1> DEFINE Goal == AutomaticInv' /\ Automatic!AuthorizationIsSticky
<1>0. AutomaticInv /\ Automatic!TypeOK  BY DEF AutomaticInv
<1>1. ASSUME NEW p \in Processes, NEW a \in Artifacts, Automatic!RegisterArtifact(p, a)
      PROVE  Goal
  <2> DEFINE state == [pc |-> "NEXT", todo |-> <<a>>, profile |-> Automatic!Nobody]
  <2>1. /\ artifact[a].status = "NONE"
        /\ artifact' = [artifact EXCEPT ![a].status = "REGISTERED"]
        /\ registered' = Append(registered, a)
        /\ process' = [process EXCEPT ![p] = state]
        /\ UNCHANGED <<profile, archived, conversions, edits, ends>>
    BY <1>1 DEF Automatic!RegisterArtifact
  <2>2. state \in Automatic!ProcessState /\ state.todo # <<>> /\ state.pc = "NEXT"
    BY DEF Automatic!ProcessState
  <2> HIDE DEF state
  <2>3. MovesTo(p, state) /\ state.pc # "AUTHORIZED"  BY <2>1, <2>2 DEF MovesTo
  <2>4. ArtifactsStay  BY <1>0, <2>1 DEF ArtifactsStay, Authorized, Automatic!TypeOK
  <2>5. /\ artifact' \in [Artifacts -> [status : Automatic!ArtifactStatus,
                                        profile : Profiles \cup {Automatic!Nobody}]]
        /\ \A b \in Artifacts : artifact'[b].status = "READY_FOR_CONVERSION" =>
             artifact'[b].profile \in Profiles
    BY <1>0, <2>1 DEF Automatic!TypeOK, Automatic!ArtifactStatus
  <2>6. registered' \in Seq(Artifacts) /\ ends' \in 0 .. MaxEnds
    BY <1>0, <2>1 DEF Automatic!TypeOK
  <2> QED  BY <2>1, <2>3, <2>4, <2>5, <2>6, MovingStep
<1>2. ASSUME NEW p \in Processes, Automatic!reconcileAutomaticConversions(p) PROVE Goal
  <2>1. PICK ids \in Automatic!automaticConversionRecoveryCandidateIds :
          process' = [process EXCEPT ![p] = [pc |-> "NEXT", todo |-> ids, profile |-> Automatic!Nobody]]
    BY <1>2 DEF Automatic!reconcileAutomaticConversions
  <2>2. UNCHANGED <<artifact, registered, profile, archived, conversions, edits, ends>>
    BY <1>2 DEF Automatic!reconcileAutomaticConversions
  <2> DEFINE state == [pc |-> "NEXT", todo |-> ids, profile |-> Automatic!Nobody]
  <2>3. PICK n \in 1 .. Limit : ids \in [1 .. n -> Artifacts]
    BY <2>1 DEF Automatic!automaticConversionRecoveryCandidateIds
  <2>4. ids \in Seq(Artifacts) /\ ids # <<>>
    <3>1. n \in Nat /\ n # 0  BY <2>3 DEF Automatic!AutomaticAssumption
    <3>2. ids \in Seq(Artifacts) /\ Len(ids) = n  BY <2>3, <3>1
    <3> QED  BY <3>1, <3>2
  <2>5. state \in Automatic!ProcessState /\ state.todo # <<>> /\ state.pc = "NEXT"
    BY <2>4 DEF Automatic!ProcessState
  <2>6. process' = [process EXCEPT ![p] = state]  BY <2>1
  <2> HIDE DEF state
  <2>7. MovesTo(p, state) /\ state.pc # "AUTHORIZED"  BY <2>5, <2>6 DEF MovesTo
  <2>8. ArtifactsStay  BY <2>2 DEF ArtifactsStay, Authorized
  <2> QED  BY <1>0, <2>2, <2>7, <2>8, MovingStep DEF Automatic!TypeOK
<1>3. ASSUME NEW p \in Processes, Automatic!Choose(p) PROVE Goal
  <2>1. /\ process[p].pc = "NEXT"
        /\ UNCHANGED <<artifact, registered, profile, archived, conversions, edits, ends>>
    BY <1>3 DEF Automatic!Choose, Automatic!At
  <2>2. ArtifactsStay  BY <2>1 DEF ArtifactsStay, Authorized
  <2>3. CASE Automatic!Leave(p)
    <3>1. PICK state : MovesTo(p, state) /\ state.pc \in {"IDLE", "NEXT"}
      BY <1>0, <2>1, <2>3, LeavesTo
    <3> QED  BY <1>0, <2>1, <2>2, <3>1, MovingStep DEF Automatic!TypeOK
  <2>4. ASSUME NEW q \in Automatic!Chosen(process[p].todo[1]), Automatic!GoOn(p, "CHOSEN", q)
        PROVE  Goal
    <3>1. q \in Profiles
      BY DEF Automatic!Chosen, Automatic!compatibleAutomaticProfile, Automatic!First
    <3>2. PICK state : /\ MovesTo(p, state) /\ state.pc = "CHOSEN" /\ state.profile = q
                       /\ state.todo = process[p].todo
      BY <1>0, <2>1, <2>4, <3>1, MovesOn
    <3> QED  BY <1>0, <2>1, <2>2, <3>2, MovingStep DEF Automatic!TypeOK
  <2> QED  BY <1>3, <2>3, <2>4 DEF Automatic!Choose
<1>4. ASSUME NEW p \in Processes, Automatic!authorizeRawArtifactForConversion(p) PROVE Goal
  BY <1>0, <1>4, AuthorizeStep
<1>5. ASSUME NEW p \in Processes, Automatic!dispatchAutomatic(p) PROVE Goal
  BY <1>0, <1>5, DispatchStep
<1>6. ASSUME NEW p \in Processes, Automatic!Stop(p) PROVE Goal
  <2>1. /\ ends < MaxEnds /\ ends' = ends + 1
        /\ process' = [process EXCEPT ![p] = Automatic!Idle]
        /\ UNCHANGED <<artifact, registered, profile, archived, conversions, edits>>
    BY <1>6 DEF Automatic!Stop
  <2>2. MovesTo(p, Automatic!Idle) /\ Automatic!Idle.pc = "IDLE"
    BY <2>1 DEF MovesTo, Automatic!Idle, Automatic!ProcessState
  <2>3. ArtifactsStay  BY <2>1 DEF ArtifactsStay, Authorized
  <2>4. ends' \in 0 .. MaxEnds
    BY <1>0, <2>1 DEF Automatic!TypeOK, Automatic!AutomaticAssumption
  <2> QED  BY <1>0, <2>1, <2>2, <2>3, <2>4, MovingStep DEF Automatic!TypeOK
<1>7. ASSUME NEW q \in Profiles, NEW status \in Automatic!ProfileStatus,
             Automatic!updateProfile(q, status)
      PROVE  Goal
  <2>1. /\ profile' = [profile EXCEPT ![q] = status] /\ Automatic!Edit
        /\ UNCHANGED <<artifact, registered, archived, conversions, process, ends>>
    BY <1>7 DEF Automatic!updateProfile
  <2>2. edits' \in 0 .. MaxEdits
    BY <1>0, <2>1 DEF Automatic!Edit, Automatic!TypeOK, Automatic!AutomaticAssumption
  <2>3. ArtifactsStay  BY <2>1 DEF ArtifactsStay, Authorized
  <2>4. Automatic!TypeOK'  BY <1>0, <2>1, <2>2 DEF Automatic!TypeOK
  <2> QED  BY <1>0, <2>1, <2>3, <2>4, StayingStep
<1>8. ASSUME NEW s \in Sources, Automatic!archiveSource(s) PROVE Goal
  <2>1. /\ archived' = archived \cup {s} /\ Automatic!Edit
        /\ UNCHANGED <<artifact, registered, profile, conversions, process, ends>>
    BY <1>8 DEF Automatic!archiveSource
  <2>2. edits' \in 0 .. MaxEdits
    BY <1>0, <2>1 DEF Automatic!Edit, Automatic!TypeOK, Automatic!AutomaticAssumption
  <2>3. ArtifactsStay  BY <2>1 DEF ArtifactsStay, Authorized
  <2>4. Automatic!TypeOK'  BY <1>0, <2>1, <2>2 DEF Automatic!TypeOK
  <2> QED  BY <1>0, <2>1, <2>3, <2>4, StayingStep
<1>9. ASSUME NEW a \in Artifacts, Automatic!archiveRawArtifact(a) PROVE Goal
  \* A registered artifact that is archived keeps its place without a profile.
  <2>1. /\ artifact[a].status \in {"REGISTERED", "READY_FOR_CONVERSION"}
        /\ artifact' = [artifact EXCEPT ![a].status = "ARCHIVED"] /\ Automatic!Edit
        /\ UNCHANGED <<registered, profile, archived, conversions, process, ends>>
    BY <1>9 DEF Automatic!archiveRawArtifact
  <2>2. edits' \in 0 .. MaxEdits
    BY <1>0, <2>1 DEF Automatic!Edit, Automatic!TypeOK, Automatic!AutomaticAssumption
  <2>3. /\ artifact' \in [Artifacts -> [status : Automatic!ArtifactStatus,
                                        profile : Profiles \cup {Automatic!Nobody}]]
        /\ \A b \in Artifacts : /\ artifact'[b].profile = artifact[b].profile
                                /\ artifact'[b].status \in {artifact[b].status, "ARCHIVED"}
    BY <1>0, <2>1 DEF Automatic!TypeOK, Automatic!ArtifactStatus
  <2>4. Automatic!TypeOK'  BY <1>0, <2>1, <2>2, <2>3 DEF Automatic!TypeOK
  <2>5. \A b \in Artifacts : Authorized(b) => Authorized(b)'
    BY <2>3 DEF Authorized
  <2>6. \A p \in Processes : process[p].pc # "IDLE" => Head1(p) \in Artifacts
    BY <1>0 DEF AutomaticInv, HandoffsAgree, Automatic!TypeOK, Automatic!ProcessState, Head1
  <2>7. HandoffsAgree'
    BY <1>0, <2>1, <2>3, <2>5, <2>6 DEF AutomaticInv, HandoffsAgree, Authorized, Head1
  <2>8. RunsAgree'
    BY <1>0, <2>1, <2>3, <2>5 DEF AutomaticInv, RunsAgree, Automatic!TypeOK, Automatic!Run
  <2>9. \A b \in Artifacts : ~(Authorized(b)') => artifact'[b].profile = Automatic!Nobody
    BY <1>0, <2>3, <2>5 DEF AutomaticInv, Authorized
  <2>10. Automatic!AuthorizationIsSticky
    BY <1>0, <2>3 DEF AutomaticInv, Authorized, Automatic!AuthorizationIsSticky
  <2> QED  BY <2>4, <2>7, <2>8, <2>9, <2>10 DEF AutomaticInv
<1>10. ASSUME NEW a \in Artifacts, NEW q \in Profiles, Automatic!authorizeByHand(a, q) PROVE Goal
  <2>1. /\ artifact[a].status = "REGISTERED"
        /\ artifact' = [artifact EXCEPT ![a] = [status |-> "READY_FOR_CONVERSION", profile |-> q]]
        /\ Automatic!Edit
        /\ UNCHANGED <<registered, profile, archived, conversions, process, ends>>
    BY <1>10 DEF Automatic!authorizeByHand
  <2>2. edits' \in 0 .. MaxEdits
    BY <1>0, <2>1 DEF Automatic!Edit, Automatic!TypeOK, Automatic!AutomaticAssumption
  <2>3. /\ artifact' \in [Artifacts -> [status : Automatic!ArtifactStatus,
                                        profile : Profiles \cup {Automatic!Nobody}]]
        /\ artifact'[a] = [status |-> "READY_FOR_CONVERSION", profile |-> q]
        /\ \A b \in Artifacts : b # a => artifact'[b] = artifact[b]
    BY <1>0, <2>1 DEF Automatic!TypeOK, Automatic!ArtifactStatus
  <2>4. Automatic!TypeOK'  BY <1>0, <2>1, <2>2, <2>3 DEF Automatic!TypeOK
  <2>5. \A b \in Artifacts : Authorized(b) =>
          Authorized(b)' /\ artifact'[b].profile = artifact[b].profile
    BY <2>1, <2>3 DEF Authorized
  <2>6. \A p \in Processes : process[p].pc # "IDLE" => Head1(p) \in Artifacts
    BY <1>0 DEF AutomaticInv, HandoffsAgree, Automatic!TypeOK, Automatic!ProcessState, Head1
  <2>7. HandoffsAgree'
    BY <1>0, <2>1, <2>5, <2>6 DEF AutomaticInv, HandoffsAgree, Authorized, Head1
  <2>8. RunsAgree'
    BY <1>0, <2>1, <2>5 DEF AutomaticInv, RunsAgree, Automatic!TypeOK, Automatic!Run
  <2>9. \A b \in Artifacts : ~(Authorized(b)') => artifact'[b].profile = Automatic!Nobody
    BY <1>0, <2>3 DEF AutomaticInv, Authorized
  <2>10. Automatic!AuthorizationIsSticky
    BY <1>0, <2>3, <2>5 DEF AutomaticInv, Authorized, Automatic!AuthorizationIsSticky
  <2> QED  BY <2>4, <2>7, <2>8, <2>9, <2>10 DEF AutomaticInv
<1>11. ASSUME NEW a \in Artifacts, NEW q \in Profiles, Automatic!dispatchByHand(a, q) PROVE Goal
  <2> DEFINE new == [artifact |-> a, profile |-> q, trigger |-> "MANUAL"]
  <2>1. /\ conversions' = conversions \cup {new} /\ Automatic!Edit
        /\ UNCHANGED <<artifact, registered, profile, archived, process, ends>>
    BY <1>11 DEF Automatic!dispatchByHand
  <2>2. edits' \in 0 .. MaxEdits
    BY <1>0, <2>1 DEF Automatic!Edit, Automatic!TypeOK, Automatic!AutomaticAssumption
  <2>3. new \in Automatic!Run /\ new.trigger # "AUTO_PROFILE"
    BY DEF Automatic!Run, Automatic!Trigger
  <2> HIDE DEF new
  <2>4. ArtifactsStay  BY <2>1 DEF ArtifactsStay, Authorized
  <2>5. Automatic!TypeOK'  BY <1>0, <2>1, <2>2, <2>3 DEF Automatic!TypeOK
  <2>6. \A r \in conversions' : r.trigger = "AUTO_PROFILE" => r \in conversions
    BY <2>1, <2>3
  <2> QED  BY <1>0, <2>1, <2>4, <2>5, <2>6, StayingStep
<1>12. ASSUME UNCHANGED Automatic!vars PROVE Goal
  <2>1. UNCHANGED <<artifact, registered, profile, archived, conversions, process, edits, ends>>
    BY <1>12 DEF Automatic!vars
  <2>2. ArtifactsStay  BY <2>1 DEF ArtifactsStay, Authorized
  <2>3. Automatic!TypeOK'  BY <1>0, <2>1 DEF Automatic!TypeOK
  <2> QED  BY <1>0, <2>1, <2>2, <2>3, StayingStep
<1> HIDE DEF Goal
<1>13. ASSUME Automatic!Next PROVE Goal
  <2>1. ASSUME NEW p \in Processes, Automatic!Handoff(p) PROVE Goal
    BY <1>3, <1>4, <1>5, <2>1 DEF Automatic!Handoff
  <2> QED
    BY <1>1, <1>2, <1>6, <1>7, <1>8, <1>9, <1>10, <1>11, <1>13, <2>1 DEF Automatic!Next
<1>14. Goal  BY <1>12, <1>13
<1> QED  BY <1>14 DEF Goal

\* An artifact has one automatic run at most and it is the one the artifact was
\* authorized for, while processes that share the database discover it together, die
\* between their steps, and operators change the profiles
\* (raw-artifact-auto-conversion.ts automaticIdempotencyKey).
THEOREM AutomaticRunsOnce ==
  ASSUME Automatic!AutomaticAssumption
  PROVE  Automatic!Spec => [](Automatic!TypeOK /\ Automatic!OneAutomaticRun)
<1>1. Automatic!Init => AutomaticInv  BY AutomaticInvInit
<1>2. AutomaticInv /\ [Automatic!Next]_(Automatic!vars) => AutomaticInv'  BY AutomaticInvStep
<1>3. AutomaticInv => Automatic!TypeOK /\ Automatic!OneAutomaticRun  BY AutomaticInvIsEnough
<1> QED  BY <1>1, <1>2, <1>3, PTL DEF Automatic!Spec

\* The profile that authorized an artifact stays, whoever authorizes or converts it
\* later (raw-artifact-conversion-authorization.ts).
THEOREM AuthorizationStays ==
  ASSUME Automatic!AutomaticAssumption
  PROVE  Automatic!Spec => [][Automatic!AuthorizationIsSticky]_handoffVars
<1>1. Automatic!Init => AutomaticInv  BY AutomaticInvInit
<1>2. AutomaticInv /\ [Automatic!Next]_(Automatic!vars) =>
        AutomaticInv' /\ [Automatic!AuthorizationIsSticky]_(Automatic!vars)
  BY AutomaticInvStep
<1>3. [Automatic!AuthorizationIsSticky]_(Automatic!vars) => [Automatic!AuthorizationIsSticky]_handoffVars
  BY DEF handoffVars, Automatic!vars
<1> QED  BY <1>1, <1>2, <1>3, PTL DEF Automatic!Spec

\* What the two parts of the conversion promise holds of them together.
THEOREM DocumentsExact ==
  ASSUME PipelineAssumption, Automatic!AutomaticAssumption
  PROVE  Spec /\ Automatic!Spec => []DocumentsAreExact
<1>1. Spec => []ConversionIsExact  BY ConversionExact
<1>2. Automatic!Spec => [](Automatic!TypeOK /\ Automatic!OneAutomaticRun)  BY AutomaticRunsOnce
<1>3. ConversionIsExact /\ Automatic!TypeOK /\ Automatic!OneAutomaticRun => DocumentsAreExact
  BY DEF DocumentsAreExact
<1> QED  BY <1>1, <1>2, <1>3, PTL

\* And what was decided stays so.
THEOREM NothingTakenBack ==
  ASSUME PipelineAssumption, Automatic!AutomaticAssumption
  PROVE  Spec /\ Automatic!Spec => NothingIsTakenBack
<1>1. Spec => NothingIsReopened  BY ClosedStays
<1>2. Automatic!Spec => [][Automatic!AuthorizationIsSticky]_handoffVars  BY AuthorizationStays
<1> QED  BY <1>1, <1>2 DEF NothingIsTakenBack
=============================================================================
