------------------------- MODULE SlackImportProofs --------------------------
(***************************************************************************)
(* Theorems about the Slack import, for any number of runs, workers, pages *)
(* and lost jobs: its rows are well typed; one run is worked on at a time; *)
(* leases and progress are not taken away; an undone run has left nothing  *)
(* and a completed one stands on the whole history.                        *)
(***************************************************************************)
EXTENDS SlackImport, NatOrder

USE SlackRunsAssumption, SlackErrorsAssumption, SlackRemovalsAssumption,
    SlackJobsAssumption, SlackNoneAssumption

-----------------------------------------------------------------------------
(* Types.                                                                  *)

Jobs == [Runs -> 0 .. MaxJobs]

LEMMA EmitType ==
    ASSUME NEW jobs \in Jobs, NEW S
    PROVE  Emit(jobs, S) \in Jobs
BY DEF Emit, Jobs

LEMMA TakenType ==
    ASSUME NEW jobs \in Jobs, NEW r \in Runs, jobs[r] > 0
    PROVE  Taken(jobs, r) \in Jobs
BY DEF Taken, Jobs

LEMMA KickType ==
    ASSUME NEW jobs \in Jobs, pending \in [Runs -> Ages], KickNextQueued(jobs)
    PROVE  pending' \in [Runs -> Ages] /\ steps' \in Jobs
<1> DEFINE kicked == NextQueued(status', stamp', pending)
<1>1. pending' = [r \in Runs |-> IF r \in kicked THEN "fresh" ELSE pending[r]]
  BY DEF KickNextQueued
<1>2. steps' = Emit(jobs, kicked)
  BY DEF KickNextQueued
<1>3. steps' \in Jobs
  BY <1>2, EmitType
<1> HIDE DEF kicked
<1>4. pending' \in [Runs -> Ages]
  BY <1>1 DEF Ages
<1> QED
  BY <1>3, <1>4

(* What the worker is doing, by the kind of step it is at. *)
LEMMA WorkType ==
    ASSUME TypeOK, NEW w \in Workers
    PROVE  /\ work[w].at = "step" =>
                 /\ work[w].undo \in BOOLEAN /\ work[w].run \in Runs
                 /\ work[w].base \in 0 .. Pages + 1 /\ work[w].page \in 0 .. Pages + 1
                 /\ work[w] = [at |-> "step", undo |-> work[w].undo, run |-> work[w].run,
                               base |-> work[w].base, page |-> work[w].page]
           /\ work[w].at \in {"release", "publish"} =>
                 /\ work[w].undo \in BOOLEAN /\ work[w].run \in Runs
                 /\ work[w].outcome \in Outcomes
                 /\ work[w] = [at |-> work[w].at, undo |-> work[w].undo,
                               run |-> work[w].run, outcome |-> work[w].outcome]
           /\ work[w] # Idle =>
                 /\ work[w].at \in {"step", "release", "publish"}
                 /\ work[w].undo \in BOOLEAN /\ work[w].run \in Runs
<1>1. work[w] \in Work \cup {Idle}
  BY DEF TypeOK
<1>2. CASE work[w] = Idle
  BY <1>2 DEF Idle
<1>3. CASE work[w] \in Work
  BY <1>3 DEF Work
<1> QED
  BY <1>1, <1>2, <1>3

(* A record that is changed in one field. *)
StepWork ==
    [at : {"step"}, undo : BOOLEAN, run : Runs, base : 0 .. Pages + 1,
     page : 0 .. Pages + 1]

EndWork == [at : {"release", "publish"}, undo : BOOLEAN, run : Runs, outcome : Outcomes]

LEMMA PageChanged ==
    ASSUME NEW x \in StepWork, NEW p \in 0 .. Pages + 1
    PROVE  /\ [x EXCEPT !.page = p] \in StepWork
           /\ [x EXCEPT !.page = p].run = x.run /\ [x EXCEPT !.page = p].undo = x.undo
           /\ [x EXCEPT !.page = p].page = p
BY DEF StepWork

LEMMA Published ==
    ASSUME NEW x \in EndWork
    PROVE  /\ [x EXCEPT !.at = "publish"] \in EndWork
           /\ [x EXCEPT !.at = "publish"].at = "publish"
BY DEF EndWork

(* What is under way is of one of the two kinds. *)
LEMMA WorkKinds ==
    ASSUME TypeOK, NEW w \in Workers
    PROVE  /\ Work = StepWork \cup EndWork
           /\ work[w].at = "step" => work[w] \in StepWork
           /\ work[w].at \in {"release", "publish"} => work[w] \in EndWork
           /\ work[w] = Idle <=> work[w].at = "idle"
BY WorkType DEF TypeOK, Work, StepWork, EndWork, Idle

LEMMA EndsType ==
    ASSUME TypeOK, NEW w \in Workers, work[w].at = "step",
           NEW o \in Outcomes, Ends(w, o)
    PROVE  work' \in [Workers -> Work \cup {Idle}]
BY WorkType DEF Ends, TypeOK, Work

(* Reading ends at the beginning, or at the newest page of another run. *)
LEMMA FirstInHistory ==
    ASSUME TypeOK, NEW r \in Runs
    PROVE  /\ FirstPage(r) \in History
           /\ \/ FirstPage(r) = 1
              \/ /\ \E f \in Runs \ (DryRuns \cup {r}) : status[f] = "completed" /\ page[f] > 0
                 /\ \E q \in Runs \ {r} : owner[FirstPage(r)] = q
<1> DEFINE others == UNION {Imported(q) : q \in Runs \ {r}}
           full ==
             {f \in Runs \ (DryRuns \cup {r}) :
                 /\ status[f] = "completed" /\ page[f] > 0
                 /\ ~\E u \in Runs \ DryRuns :
                       /\ status[u] = "undone" /\ page[u] > 0
                       /\ started[u] < finished[f] /\ finished[u] > finished[f]}
           newest == CHOOSE q \in others : \A o \in others : o <= q
<1>1. FirstPage(r) = IF full # {} /\ others # {} THEN newest ELSE 1
  BY DEF FirstPage
<1>2. others \subseteq History /\ \A p \in others : \E q \in Runs \ {r} : owner[p] = q
  BY DEF Imported
<1>3. full # {} => \E f \in Runs \ (DryRuns \cup {r}) : status[f] = "completed" /\ page[f] > 0
  OBVIOUS
<1> HIDE DEF full
<1>4. ASSUME others # {}  PROVE newest \in others
  <2>1. others \subseteq 0 .. Pages
    BY <1>2 DEF History
  <2> HIDE DEF others
  <2>2. \E q \in others : \A o \in others : o <= q
    BY <1>4, <2>1, GreatestNatural
  <2> QED
    BY <2>2
<1>5. CASE full # {} /\ others # {}
  <2>1. FirstPage(r) \in others
    BY <1>1, <1>4, <1>5
  <2> HIDE DEF others
  <2> QED
    BY <1>2, <1>3, <1>5, <2>1
<1>6. CASE ~(full # {} /\ others # {})
  BY <1>1, <1>6 DEF History
<1> QED
  BY <1>5, <1>6

(* The page a commit writes is one of the history's, whatever Slack has    *)
(* gained since the bounds.                                                *)
LEMMA PageInHistory ==
    ASSUME TypeOK, NEW r \in Runs, NEW n \in 0 .. Pages + 1, n > 0,
           ~(NextPage(top[r], n) < oldest[r]),
           NEW t \in IF n = 1 THEN top[r] .. posted ELSE {top[r]}
    PROVE  /\ NextPage(t, n) \in History
           /\ t \in 0 .. Pages /\ top[r] <= t /\ (n # 1 => t = top[r])
           /\ n + 1 \in 0 .. Pages + 1
<1>1. /\ top[r] \in Int /\ 0 <= top[r] /\ top[r] <= Pages
      /\ oldest[r] \in Int /\ 1 <= oldest[r]
      /\ posted \in Int /\ posted <= Pages
      /\ n \in Int /\ Pages \in Nat
  BY DEF TypeOK, History
<1>2. t \in Int /\ top[r] <= t /\ t <= Pages /\ (n # 1 => t = top[r])
  BY <1>1
<1>3. t + 1 - n >= 1 /\ t + 1 - n <= t
  BY <1>1, <1>2 DEF NextPage
<1> QED
  BY <1>1, <1>2, <1>3 DEF NextPage, History

(* A worker takes a step's job, and works on it. *)
LEMMA ClaimType ==
    ASSUME TypeOK, NEW w \in Workers, NEW r \in Runs, LeaseTaken(w, r)
    PROVE  /\ stamp' \in [Runs -> Ages]
           /\ token' \in [Runs -> Workers \cup {None}]
           /\ heart' \in [Runs -> Ages]
           /\ \A q \in Runs : stamp'[q] = "fresh" => token'[q] # None
BY DEF TypeOK, LeaseTaken, Ages

LEMMA LeaseGoneType ==
    ASSUME TypeOK, NEW r \in Runs, LeaseGone(r)
    PROVE  /\ stamp' \in [Runs -> Ages]
           /\ token' \in [Runs -> Workers \cup {None}]
           /\ \A q \in Runs : stamp'[q] = "fresh" => token'[q] # None
BY DEF TypeOK, LeaseGone, Ages

LEMMA RefreshType ==
    ASSUME TypeOK, NEW w \in Workers, NEW r \in Runs, Holds(w, r), LeaseRefreshed(r),
           UNCHANGED token
    PROVE  /\ stamp' \in [Runs -> Ages]
           /\ heart' \in [Runs -> Ages]
           /\ \A q \in Runs : stamp'[q] = "fresh" => token'[q] # None
BY DEF TypeOK, LeaseRefreshed, Holds, Ages

LEMMA TypeRequest ==
    ASSUME TypeOK, NEW r \in Runs, Request(r) \/ Lapses(r)
    PROVE  TypeOK'
<1> USE DEF TypeOK, Ages, conversation, reach, undoing, imported
<1>1. CASE Create(r)
  <2>1. steps' \in Jobs
    BY <1>1, EmitType DEF Create, Jobs
  <2> QED
    BY <1>1, <2>1 DEF Create, Jobs, Statuses
<1>2. CASE Cancel(r)
  <2>1. pending' \in [Runs -> Ages] /\ steps' \in Jobs
    BY <1>2, KickType DEF Cancel, Jobs
  <2> QED
    BY <1>2, <2>1 DEF Cancel, Jobs, Statuses
<1>3. CASE Undo(r)
  <2>1. undos' \in Jobs
    BY <1>3, EmitType DEF Undo, Jobs
  <2>2. cursor' \in [Runs -> 0 .. Pages + 1]
    BY <1>3 DEF Undo
  <2> QED
    BY <1>3, <2>1, <2>2, LeaseGoneType DEF Undo, Jobs, Statuses, reach, imported
<1>4. CASE Lapses(r)
  BY <1>4 DEF Lapses, LeaseLapses, HeartbeatLapses, PendingLapses
<1> QED
  BY <1>1, <1>2, <1>3, <1>4 DEF Request

LEMMA TypeTaken ==
    ASSUME TypeOK, NEW w \in Workers, NEW r \in Runs, StepTaken(w, r) \/ UndoTaken(w, r)
    PROVE  TypeOK'
<1> USE DEF conversation, reach, undoing, imported
<1>1. CASE StepSkipped(w, r)
  <2>1. steps' \in Jobs
    BY <1>1, TakenType DEF StepSkipped, TypeOK, Jobs
  <2> QED
    BY <1>1, <2>1 DEF StepSkipped, TypeOK, Jobs, Ages
<1>2. ASSUME StartedIfQueued(r)  PROVE started' \in [Runs -> Nat] /\ clock' \in Nat
  BY <1>2 DEF StartedIfQueued, TypeOK
<1>3. CASE StepUnconnected(w, r)
  <2>1. Taken(steps, r) \in Jobs
    BY <1>3, TakenType DEF StepUnconnected, TypeOK, Jobs
  <2>2. pending' \in [Runs -> Ages] /\ steps' \in Jobs
    BY <1>3, <2>1, KickType DEF StepUnconnected, TypeOK
  <2> QED
    BY <1>2, <1>3, <2>2 DEF StepUnconnected, TypeOK, Jobs, Ages, Statuses
<1>4. CASE StepClaimed(w, r)
  <2>1. steps' \in Jobs
    BY <1>4, TakenType DEF StepClaimed, TypeOK, Jobs
  <2>2. work' \in [Workers -> Work \cup {Idle}]
    BY <1>4 DEF StepClaimed, TypeOK, Work
  <2> QED
    BY <1>2, <1>4, <2>1, <2>2, ClaimType DEF StepClaimed, TypeOK, Jobs, Statuses
<1>5. CASE UndoSkipped(w, r)
  <2>1. undos' \in Jobs
    BY <1>5, TakenType DEF UndoSkipped, TypeOK, Jobs
  <2> QED
    BY <1>5, <2>1 DEF UndoSkipped, TypeOK, Jobs, row
<1>6. CASE UndoClaimed(w, r)
  <2>1. undos' \in Jobs
    BY <1>6, TakenType DEF UndoClaimed, TypeOK, Jobs
  <2>2. work' \in [Workers -> Work \cup {Idle}]
    BY <1>6 DEF UndoClaimed, TypeOK, Work
  <2> QED
    BY <1>6, <2>1, <2>2, ClaimType DEF UndoClaimed, TypeOK, Jobs
<1> QED
  BY <1>1, <1>3, <1>4, <1>5, <1>6 DEF StepTaken, UndoTaken

(* A commit's own writes: progress, and the lease of its holder. *)
LEMMA CommittedType ==
    ASSUME TypeOK, NEW w \in Workers, work[w].at = "step",
           CommitAllowed(w, work[w].run), Committed(w, work[w].run),
           work[w].page + 1 \in 0 .. Pages + 1
    PROVE  /\ page' \in [Runs -> 0 .. Pages + 1]
           /\ stamp' \in [Runs -> Ages] /\ heart' \in [Runs -> Ages]
           /\ \A q \in Runs : stamp'[q] = "fresh" => token'[q] # None
           /\ UNCHANGED <<status, token, pending, started, finished, cursor, kept,
                          unremoved, posted, clock, steps, undos>>
<1>1. work[w].run \in Runs
  BY WorkType
<1>2. Holds(w, work[w].run) /\ LeaseRefreshed(work[w].run) /\ UNCHANGED token
  BY DEF CommitAllowed, Committed
<1>3. page' \in [Runs -> 0 .. Pages + 1]
  BY <1>1 DEF Committed, TypeOK
<1> QED
  BY <1>1, <1>2, <1>3, RefreshType DEF Committed, undoing

(* The worker goes on with the progress it has committed. *)
LEMMA PagedType ==
    ASSUME TypeOK, NEW w \in Workers, work[w].at = "step", NEW p \in 0 .. Pages + 1,
           work' = [work EXCEPT ![w].page = p]
    PROVE  /\ work' \in [Workers -> Work \cup {Idle}]
           /\ \A v \in Workers \ {w} : work'[v] = work[v]
           /\ work'[w].page = p /\ work'[w].run = work[w].run
<1>1. [work[w] EXCEPT !.page = p] \in Work \cup {Idle}
  BY WorkKinds, PageChanged, Zenon
<1>2. work \in [Workers -> Work \cup {Idle}]
  BY DEF TypeOK
<1>3. /\ work' \in [Workers -> Work \cup {Idle}]
      /\ \A v \in Workers \ {w} : work'[v] = work[v]
      /\ work'[w] = [work[w] EXCEPT !.page = p]
  BY <1>1, <1>2, Zenon
<1>4. /\ [work[w] EXCEPT !.page = p].run = work[w].run
      /\ [work[w] EXCEPT !.page = p].page = p
  BY WorkKinds, PageChanged, Zenon
<1> QED
  BY <1>3, <1>4, Zenon

LEMMA TypeCommit ==
    ASSUME TypeOK, NEW w \in Workers,
           \/ CommitBounds(w) \/ CommitPage(w) \/ CommitFinish(w)
           \/ CommitRefused(w) \/ StepFails(w)
    PROVE  TypeOK'
<1> DEFINE r == work[w].run
           n == work[w].page
<1>1. work[w].at = "step" /\ r \in Runs /\ n \in 0 .. Pages + 1
  BY WorkType DEF CommitBounds, CommitPage, CommitFinish, CommitRefused, StepFails, Stepping
<1>2. ASSUME NEW o \in Outcomes, Ends(w, o)  PROVE work' \in [Workers -> Work \cup {Idle}]
  BY <1>1, <1>2, EndsType
<1>3. CASE CommitBounds(w)
  <2>1. n = 0 /\ CommitAllowed(w, r) /\ Committed(w, r) /\ 1 \in 0 .. Pages + 1
    BY <1>3 DEF CommitBounds
  <2>2. oldest' \in [Runs -> History] /\ top' \in [Runs -> 0 .. Pages]
    <3>1. /\ oldest' = [oldest EXCEPT ![r] = FirstPage(r)]
          /\ top' = [top EXCEPT ![r] = posted]
      BY <1>3 DEF CommitBounds
    <3>2. FirstPage(r) \in History /\ posted \in 0 .. Pages
      <4>1. FirstPage(r) \in History
        BY <1>1, FirstInHistory, Zenon
      <4>2. posted \in 0 .. Pages
        BY DEF TypeOK, History
      <4> QED
        BY <4>1, <4>2
    <3> QED
      BY <1>1, <3>1, <3>2 DEF TypeOK
  <2>3. work' = [work EXCEPT ![w].page = 1]
    BY <1>3 DEF CommitBounds
  <2>4. work' \in [Workers -> Work \cup {Idle}]
    BY <1>1, <2>1, <2>3, PagedType
  <2>5. UNCHANGED <<owner, content>>
    BY <1>3 DEF CommitBounds, imported
  <2> QED
    BY <1>1, <2>1, <2>2, <2>4, <2>5, CommittedType DEF TypeOK
<1>4. CASE CommitPage(w)
  <2>1. /\ n > 0 /\ ~(NextPage(top[r], n) < oldest[r])
        /\ CommitAllowed(w, r) /\ Committed(w, r) /\ UNCHANGED oldest
    BY <1>4 DEF CommitPage, HistoryDone
  <2>2. PICK t \in IF n = 1 THEN top[r] .. posted ELSE {top[r]} :
              /\ top' = [top EXCEPT ![r] = t]
              /\ IF owner[NextPage(t, n)] = None /\ r \notin DryRuns
                 THEN /\ owner' = [owner EXCEPT ![NextPage(t, n)] = r]
                      /\ content' = [content EXCEPT ![r] = @ \cup {NextPage(t, n)}]
                 ELSE UNCHANGED imported
              /\ work' = [work EXCEPT ![w].page = n + 1] \/ Ends(w, "continue")
    BY <1>4 DEF CommitPage
  <2>3. NextPage(t, n) \in History /\ t \in 0 .. Pages /\ n + 1 \in 0 .. Pages + 1
    BY <1>1, <2>1, PageInHistory
  <2>4. top' \in [Runs -> 0 .. Pages]
    BY <1>1, <2>2, <2>3 DEF TypeOK
  <2>5. owner' \in [History -> Runs \cup {None}] /\ content' \in [Runs -> SUBSET History]
    BY <1>1, <2>2, <2>3 DEF TypeOK, imported
  <2>6. work' \in [Workers -> Work \cup {Idle}]
    BY <1>1, <1>2, <2>2, <2>3, PagedType DEF Outcomes
  <2> QED
    BY <1>1, <2>1, <2>3, <2>4, <2>5, <2>6, CommittedType DEF TypeOK
<1>5. CASE CommitFinish(w)
  <2>1. work' \in [Workers -> Work \cup {Idle}]
    BY <1>2, <1>5 DEF CommitFinish, Outcomes
  <2>2. pending' \in [Runs -> Ages] /\ steps' \in Jobs
    BY <1>5, KickType DEF CommitFinish, TypeOK, Jobs
  <2>3. /\ stamp' \in [Runs -> Ages]
        /\ token' \in [Runs -> Workers \cup {None}]
        /\ \A q \in Runs : stamp'[q] = "fresh" => token'[q] # None
    BY <1>1, <1>5, LeaseGoneType DEF CommitFinish
  <2>4. /\ status' \in [Runs -> Statuses] /\ heart' \in [Runs -> Ages]
        /\ finished' \in [Runs -> Nat] /\ clock' \in Nat
    BY <1>1, <1>5 DEF CommitFinish, TypeOK, Statuses, Ages
  <2>5. UNCHANGED <<page, started, top, oldest, cursor, kept, unremoved, posted, owner,
                    content, undos>>
    BY <1>5 DEF CommitFinish, conversation, reach, undoing, imported
  <2> QED
    BY <2>1, <2>2, <2>3, <2>4, <2>5 DEF TypeOK, Jobs
<1>6. CASE CommitRefused(w) \/ StepFails(w)
  <2>1. work' \in [Workers -> Work \cup {Idle}]
    BY <1>2, <1>6 DEF CommitRefused, StepFails, Outcomes
  <2> QED
    BY <1>6, <2>1
    DEF CommitRefused, StepFails, TypeOK, row, conversation, reach, undoing, imported
<1> QED
  BY <1>3, <1>4, <1>5, <1>6

(* A step of the walk: its cursor, and the lease of its holder. *)
LEMMA WalkedType ==
    ASSUME TypeOK, NEW w \in Workers, NEW r \in Runs, UndoAllowed(w, r),
           NEW c \in 0 .. Pages + 1, Walked(r, c)
    PROVE  /\ cursor' \in [Runs -> 0 .. Pages + 1]
           /\ stamp' \in [Runs -> Ages] /\ heart' \in [Runs -> Ages]
           /\ \A q \in Runs : stamp'[q] = "fresh" => token'[q] # None
           /\ UNCHANGED <<status, token, pending, page, started, finished, top, oldest,
                          posted, owner, clock, steps, undos>>
<1>1. Holds(w, r) /\ LeaseRefreshed(r) /\ UNCHANGED token
  BY DEF UndoAllowed, Walked
<1>2. cursor' \in [Runs -> 0 .. Pages + 1]
  BY DEF Walked, TypeOK
<1> QED
  BY <1>1, <1>2, RefreshType DEF Walked, reach

LEMMA TypeUndo ==
    ASSUME TypeOK, NEW w \in Workers,
           \/ UndoBatch(w) \/ UndoWalked(w) \/ UndoFinish(w)
           \/ UndoRefused(w) \/ UndoFails(w)
    PROVE  TypeOK'
<1> DEFINE r == work[w].run
<1>1. work[w].at = "step" /\ r \in Runs
  BY WorkType DEF UndoBatch, UndoWalked, UndoFinish, UndoRefused, UndoFails, Stepping
<1>2. work' \in [Workers -> Work \cup {Idle}]
  BY <1>1, EndsType DEF UndoBatch, UndoWalked, UndoFinish, UndoRefused, UndoFails, Outcomes
<1>3. CASE UndoBatch(w)
  <2>1. PICK p \in Ahead(r) : Walked(r, p) /\ \E removal \in Removals : PageUndone(r, p, removal)
    BY <1>3 DEF UndoBatch
  <2>2. p \in History /\ p \in 0 .. Pages + 1
    BY DEF Ahead, Imported, History
  <2>3. /\ content' \in [Runs -> SUBSET History]
        /\ kept' \in [Runs -> SUBSET History] /\ unremoved' \in [Runs -> SUBSET History]
    BY <1>1, <2>1, <2>2 DEF PageUndone, TypeOK
  <2>4. UndoAllowed(w, r)
    BY <1>3 DEF UndoBatch
  <2> QED
    BY <1>1, <1>2, <2>1, <2>2, <2>3, <2>4, WalkedType DEF TypeOK
<1>4. CASE UndoWalked(w)
  <2>1. UndoAllowed(w, r) /\ Walked(r, 0) /\ UNCHANGED <<content, kept, unremoved>>
    BY <1>4 DEF UndoWalked
  <2>2. 0 \in 0 .. Pages + 1
    OBVIOUS
  <2> QED
    BY <1>1, <1>2, <2>1, <2>2, WalkedType DEF TypeOK
<1>5. CASE UndoFinish(w)
  <2>1. pending' \in [Runs -> Ages] /\ steps' \in Jobs
    BY <1>5, KickType DEF UndoFinish, TypeOK, Jobs
  <2>2. owner' \in [History -> Runs \cup {None}]
    BY <1>5 DEF UndoFinish, TypeOK
  <2>3. /\ stamp' \in [Runs -> Ages]
        /\ token' \in [Runs -> Workers \cup {None}]
        /\ \A q \in Runs : stamp'[q] = "fresh" => token'[q] # None
    BY <1>1, <1>5, LeaseGoneType DEF UndoFinish
  <2>4. /\ status' \in [Runs -> Statuses] /\ heart' \in [Runs -> Ages]
        /\ finished' \in [Runs -> Nat] /\ clock' \in Nat
    BY <1>1, <1>5 DEF UndoFinish, TypeOK, Statuses, Ages
  <2>5. UNCHANGED <<page, started, top, oldest, cursor, kept, unremoved, posted, content, undos>>
    BY <1>5 DEF UndoFinish, reach, undoing
  <2> QED
    BY <1>2, <2>1, <2>2, <2>3, <2>4, <2>5 DEF TypeOK, Jobs
<1>6. CASE UndoRefused(w) \/ UndoFails(w)
  BY <1>2, <1>6
  DEF UndoRefused, UndoFails, TypeOK, row, conversation, reach, undoing, imported
<1> QED
  BY <1>3, <1>4, <1>5, <1>6

Publishes(w) ==
    \/ PublishContinue(w) \/ PublishStopped(w) \/ PublishDone(w)
    \/ PublishTransient(w) \/ PublishRateLimited(w) \/ PublishFailed(w)

LEMMA TypeEnd ==
    ASSUME TypeOK, NEW w \in Workers, Release(w) \/ Publishes(w) \/ Crash(w)
    PROVE  TypeOK'
<1> USE DEF conversation, reach, undoing, imported
<1> DEFINE r == work[w].run
<1>1. CASE Release(w)
  <2>1. r \in Runs
    BY <1>1, WorkType DEF Release
  <2>2. work' \in [Workers -> Work \cup {Idle}]
    <3>1. work[w] \in EndWork
      BY <1>1, WorkKinds DEF Release
    <3>2. [work[w] EXCEPT !.at = "publish"] \in Work \cup {Idle}
      BY <3>1, WorkKinds, Published, Zenon
    <3>3. work \in [Workers -> Work \cup {Idle}]
      BY DEF TypeOK
    <3>4. work' = [work EXCEPT ![w].at = "publish"]
      BY <1>1 DEF Release
    <3> QED
      BY <3>2, <3>3, <3>4, Zenon
  <2>3. /\ stamp' \in [Runs -> Ages]
        /\ token' \in [Runs -> Workers \cup {None}]
        /\ \A q \in Runs : stamp'[q] = "fresh" => token'[q] # None
    <3>1. CASE Holds(w, r)
      BY <1>1, <2>1, <3>1, LeaseGoneType DEF Release
    <3>2. CASE ~Holds(w, r)
      BY <1>1, <3>2 DEF Release, TypeOK
    <3> QED
      BY <3>1, <3>2
  <2> QED
    BY <1>1, <2>2, <2>3 DEF Release, TypeOK
<1>2. ASSUME Publishes(w) \/ Crash(w)
      PROVE  /\ r \in Runs
             /\ work' \in [Workers -> Work \cup {Idle}]
  BY <1>2, WorkType
  DEF Publishes, PublishContinue, PublishStopped, PublishDone, PublishTransient,
      PublishRateLimited, PublishFailed, Publishing, Crash, TypeOK
<1>3. steps \in Jobs /\ undos \in Jobs
  BY DEF TypeOK, Jobs
<1>4. Emit(steps, {r}) \in Jobs /\ Emit(undos, {r}) \in Jobs
  BY <1>3, EmitType
<1>5. CASE PublishContinue(w) \/ PublishTransient(w) \/ Crash(w)
  <2>1. steps' \in Jobs /\ undos' \in Jobs
    BY <1>3, <1>4, <1>5 DEF PublishContinue, PublishTransient, Crash
  <2> QED
    BY <1>2, <1>5, <2>1
    DEF PublishContinue, PublishTransient, Crash, Publishes, TypeOK, Jobs, row
<1>6. CASE PublishStopped(w)
  <2>1. pending' \in [Runs -> Ages] /\ steps' \in Jobs
    BY <1>3, <1>6, KickType DEF PublishStopped, TypeOK
  <2> QED
    BY <1>2, <1>6, <2>1 DEF PublishStopped, Publishes, TypeOK, Jobs
<1>7. CASE PublishDone(w)
  BY <1>2, <1>7 DEF PublishDone, Publishes, TypeOK, row
<1>8. CASE PublishRateLimited(w)
  BY <1>2, <1>3, <1>4, <1>8 DEF PublishRateLimited, Publishes, TypeOK, Jobs, Ages
<1>9. CASE PublishFailed(w)
  <2>1. pending' \in [Runs -> Ages] /\ steps' \in Jobs
    BY <1>3, <1>9, KickType DEF PublishFailed, TypeOK
  <2> QED
    BY <1>2, <1>9, <2>1 DEF PublishFailed, Publishes, TypeOK, Jobs, Statuses
<1> QED
  BY <1>1, <1>5, <1>6, <1>7, <1>8, <1>9 DEF Publishes

LEMMA TypeStep == TypeOK /\ [Next]_vars => TypeOK'
<1> SUFFICES ASSUME TypeOK, [Next]_vars  PROVE TypeOK'
  OBVIOUS
<1>1. CASE \E r \in Runs : Request(r) \/ Lapses(r)
  BY <1>1, TypeRequest
<1>2. ASSUME NEW w \in Workers, Goes(w) \/ Fails(w)  PROVE TypeOK'
  BY <1>2, TypeCommit, TypeUndo, TypeEnd DEF Goes, Fails, Publishes
<1>3. ASSUME NEW w \in Workers, NEW r \in Runs, StepTaken(w, r) \/ UndoTaken(w, r)
      PROVE  TypeOK'
  BY <1>3, TypeTaken
<1>4. CASE Sweep
  <2>1. steps \in Jobs /\ undos \in Jobs
    BY DEF TypeOK, Jobs
  <2>2. Emit(steps, Stalled("running")) \in Jobs /\ undos' \in Jobs
    BY <1>4, <2>1, EmitType DEF Sweep
  <2>3. pending' \in [Runs -> Ages] /\ steps' \in Jobs
    BY <1>4, <2>2, KickType DEF Sweep, TypeOK
  <2> QED
    BY <1>4, <2>2, <2>3 DEF Sweep, TypeOK, Jobs, conversation, reach, undoing, imported
<1>5. CASE UNCHANGED vars
  BY <1>5 DEF vars, row, conversation, reach, undoing, imported, TypeOK
<1>6. CASE Post
  <2>1. posted' \in History
    BY <1>6 DEF Post, TypeOK, History
  <2> QED
    BY <1>6, <2>1 DEF Post, row, reach, undoing, imported, TypeOK
<1> QED
  BY <1>1, <1>2, <1>3, <1>4, <1>5, <1>6 DEF Next

LEMMA InitType == Init => TypeOK
BY DEF Init, TypeOK, Ages, Statuses, Idle, History

(* The rows of slack_imports, the jobs and the workers are well typed, and *)
(* a lease that is fresh has a holder that can release it.                 *)
THEOREM SlackTypeCorrect == Spec => []TypeOK
<1>1. Init => TypeOK
  BY InitType
<1> QED
  BY <1>1, TypeStep, PTL DEF Spec

-----------------------------------------------------------------------------
(* Progress and leases.                                                    *)

(* A worker that holds the lease of the run it steps has its progress. *)
OwnCopy ==
    \A w \in Workers :
        Stepping(w, FALSE) /\ Holds(w, work[w].run) => work[w].page = page[work[w].run]

(* The lease of r is taken by w when it is free, or let go by w. *)
TokenMoves(w, r) ==
    \/ token'[r] = token[r]
    \/ /\ stamp[r] # "fresh" /\ token'[r] = w
       /\ work[w] = Idle /\ work'[w].at = "step" /\ work'[w].run = r
    \/ /\ token[r] = w /\ token'[r] = None
       /\ work[w] # Idle /\ work[w].run = r /\ work'[w] # work[w]

(* What a worker's step does to leases and to other workers. *)
LeaseStep(w) ==
    /\ \A v \in Workers \ {w} : work'[v] = work[v]
    /\ \A r \in Runs : TokenMoves(w, r)

(* An execution of a worker's own ends, or goes from one write to the next. *)
LEMMA EndsMoves ==
    ASSUME TypeOK, NEW w \in Workers, NEW o, Ends(w, o)
    PROVE  /\ \A v \in Workers \ {w} : work'[v] = work[v]
           /\ work'[w].at = "release"
BY DEF TypeOK, Ends

LEMMA TakenMoves ==
    ASSUME TypeOK, NEW w \in Workers, NEW r \in Runs, StepTaken(w, r) \/ UndoTaken(w, r)
    PROVE  LeaseStep(w)
<1>1. CASE UNCHANGED <<token, work>>
  BY <1>1 DEF LeaseStep, TokenMoves
<1>2. CASE StepClaimed(w, r) \/ UndoClaimed(w, r)
  <2>1. \A q \in Runs : q # r => token'[q] = token[q]
    BY <1>2 DEF StepClaimed, UndoClaimed, LeaseTaken, TypeOK
  <2>2. stamp[r] # "fresh" /\ token'[r] = w /\ work[w] = Idle
    BY <1>2 DEF StepClaimed, UndoClaimed, LeaseTaken, Leasable, TypeOK
  <2>3. /\ work'[w].at = "step" /\ work'[w].run = r
        /\ \A v \in Workers \ {w} : work'[v] = work[v]
    BY <1>2 DEF StepClaimed, UndoClaimed, TypeOK
  <2> QED
    BY <2>1, <2>2, <2>3 DEF LeaseStep, TokenMoves
<1> QED
  BY <1>1, <1>2 DEF StepTaken, UndoTaken, StepSkipped, StepUnconnected, UndoSkipped, row

(* A commit moves its worker's copy of the progress, or ends its step. *)
LEMMA CommitMoves ==
    ASSUME TypeOK, NEW w \in Workers, CommitBounds(w) \/ CommitPage(w)
    PROVE  /\ work[w].at = "step" /\ work[w].run \in Runs
           /\ page' = [page EXCEPT ![work[w].run] = work[w].page + 1]
           /\ \A v \in Workers \ {w} : work'[v] = work[v]
           /\ \/ work'[w].at = "release"
              \/ work'[w].run = work[w].run /\ work'[w].page = work[w].page + 1
<1> DEFINE r == work[w].run
           n == work[w].page
<1>1. work[w].at = "step" /\ r \in Runs /\ n \in 0 .. Pages + 1
  BY WorkType DEF CommitBounds, CommitPage, Stepping
<1>2. page' = [page EXCEPT ![r] = n + 1]
  BY DEF CommitBounds, CommitPage, Committed
<1>3. ASSUME NEW p \in 0 .. Pages + 1, p = n + 1, work' = [work EXCEPT ![w].page = p]
      PROVE  /\ \A v \in Workers \ {w} : work'[v] = work[v]
             /\ work'[w].run = r /\ work'[w].page = n + 1
  BY <1>1, <1>3, PagedType
<1>4. CASE CommitBounds(w)
  <2>1. n = 0 /\ work' = [work EXCEPT ![w].page = 1]
    BY <1>4 DEF CommitBounds
  <2>2. 1 \in 0 .. Pages + 1 /\ 1 = n + 1
    BY <2>1
  <2>3. /\ \A v \in Workers \ {w} : work'[v] = work[v]
        /\ work'[w].run = r /\ work'[w].page = n + 1
    BY <1>3, <2>1, <2>2
  <2> QED
    BY <1>1, <1>2, <2>3
<1>5. CASE CommitPage(w)
  <2>1. n > 0 /\ ~(NextPage(top[r], n) < oldest[r])
    BY <1>5 DEF CommitPage, HistoryDone
  <2>2. PICK t \in IF n = 1 THEN top[r] .. posted ELSE {top[r]} :
              work' = [work EXCEPT ![w].page = n + 1] \/ Ends(w, "continue")
    BY <1>5 DEF CommitPage
  <2>3. n + 1 \in 0 .. Pages + 1
    BY <1>1, <2>1, PageInHistory
  <2> QED
    BY <1>1, <1>2, <1>3, <2>2, <2>3, EndsMoves
<1> QED
  BY <1>4, <1>5

LEMMA WorkerMoves ==
    ASSUME TypeOK, NEW w \in Workers, Goes(w) \/ Fails(w)
    PROVE  LeaseStep(w)
<1> DEFINE r == work[w].run
<1>1. CASE CommitBounds(w) \/ CommitPage(w)
  <2>1. UNCHANGED token
    BY <1>1 DEF CommitBounds, CommitPage, Committed
  <2>2. \A v \in Workers \ {w} : work'[v] = work[v]
    BY <1>1, CommitMoves
  <2> QED
    BY <2>1, <2>2 DEF LeaseStep, TokenMoves
<1>2. CASE CommitFinish(w) \/ UndoFinish(w)
  <2>1. work[w].at = "step" /\ token[r] = w
    BY <1>2 DEF CommitFinish, UndoFinish, CommitAllowed, UndoAllowed, Holds, Stepping
  <2>2. r \in Runs /\ work[w] # Idle
    BY <2>1, WorkType, WorkKinds
  <2>3. LeaseGone(r)
    BY <1>2 DEF CommitFinish, UndoFinish
  <2>4. token'[r] = None /\ \A q \in Runs : q # r => token'[q] = token[q]
    BY <2>2, <2>3 DEF LeaseGone, TypeOK
  <2>5. /\ \A v \in Workers \ {w} : work'[v] = work[v]
        /\ work'[w].at = "release"
    BY <1>2, EndsMoves DEF CommitFinish, UndoFinish
  <2> QED
    BY <2>1, <2>2, <2>4, <2>5 DEF LeaseStep, TokenMoves
<1>3. CASE CommitRefused(w) \/ UndoRefused(w) \/ UndoBatch(w) \/ UndoWalked(w)
         \/ StepFails(w) \/ UndoFails(w)
  <2>1. UNCHANGED token
    BY <1>3 DEF CommitRefused, UndoRefused, UndoBatch, UndoWalked, Walked, StepFails,
                UndoFails, row
  <2>2. \A v \in Workers \ {w} : work'[v] = work[v]
    BY <1>3, EndsMoves
    DEF CommitRefused, UndoRefused, UndoBatch, UndoWalked, StepFails, UndoFails
  <2> QED
    BY <2>1, <2>2 DEF LeaseStep, TokenMoves
<1>4. CASE Release(w)
  <2>1. work[w].at = "release" /\ r \in Runs /\ work[w] # Idle /\ work[w] \in EndWork
    BY <1>4, WorkType, WorkKinds DEF Release
  <2>2. /\ work' = [work EXCEPT ![w].at = "publish"]
        /\ work \in [Workers -> Work \cup {Idle}]
    BY <1>4 DEF Release, TypeOK
  <2>3. \A v \in Workers \ {w} : work'[v] = work[v]
    BY <2>2, Zenon
  <2>4. work'[w].at = "publish"
    <3>1. work'[w] = [work[w] EXCEPT !.at = "publish"]
      BY <2>2, Zenon
    <3> QED
      BY <2>1, <3>1, Published, Zenon
  <2>5. CASE Holds(w, r)
    <3>1. token'[r] = None /\ \A q \in Runs : q # r => token'[q] = token[q]
      BY <1>4, <2>1, <2>5 DEF Release, LeaseGone, TypeOK
    <3> QED
      BY <2>1, <2>3, <2>4, <2>5, <3>1 DEF LeaseStep, TokenMoves, Holds
  <2>6. CASE ~Holds(w, r)
    BY <1>4, <2>3, <2>6 DEF Release, LeaseStep, TokenMoves
  <2> QED
    BY <2>5, <2>6
<1>5. CASE Publishes(w) \/ Crash(w)
  <2>1. UNCHANGED token /\ work' = [work EXCEPT ![w] = Idle]
    BY <1>5
    DEF Publishes, PublishContinue, PublishStopped, PublishDone, PublishTransient,
        PublishRateLimited, PublishFailed, Publishing, Crash, row
  <2> QED
    BY <2>1 DEF LeaseStep, TokenMoves, TypeOK
<1> QED
  BY <1>1, <1>2, <1>3, <1>4, <1>5 DEF Goes, Fails, Publishes

(* The steps that are no worker's leave leases as they are, but for the    *)
(* undo of a run whose lease is not fresh.                                 *)
LEMMA RequestMoves ==
    ASSUME TypeOK, NEW r \in Runs, Request(r) \/ Lapses(r)
    PROVE  /\ UNCHANGED <<work, page>>
           /\ \A q \in Runs : \/ token'[q] = token[q]
                              \/ stamp[q] # "fresh" /\ token'[q] = None
<1>1. CASE Undo(r)
  BY <1>1 DEF Undo, UndoBlocked, LeaseGone, TypeOK
<1> QED
  BY <1>1 DEF Request, Create, Cancel, Lapses, LeaseLapses, HeartbeatLapses, PendingLapses

(* Only a commit moves the progress of a run.                     *)
LEMMA PageMoves ==
    ASSUME TypeOK, NEW w \in Workers, Goes(w) \/ Fails(w)
    PROVE  \/ UNCHANGED page
           \/ CommitBounds(w) \/ CommitPage(w)
BY DEF Goes, Fails, CommitFinish, CommitRefused, UndoBatch, UndoWalked, Walked,
       UndoFinish, UndoRefused,
       Release, PublishContinue, PublishStopped, PublishDone, PublishTransient,
       PublishRateLimited, PublishFailed, StepFails, UndoFails, Crash, row

LEMMA OwnCopyStep == TypeOK /\ OwnCopy /\ [Next]_vars => OwnCopy'
<1> SUFFICES ASSUME TypeOK, OwnCopy, [Next]_vars,
                    NEW w \in Workers, Stepping(w, FALSE)', Holds(w, work[w].run)'
             PROVE  work'[w].page = page'[work'[w].run]
  BY DEF OwnCopy
<1>0. /\ work'[w].at = "step" /\ work'[w].undo = FALSE
      /\ token'[work'[w].run] = w
  BY DEF Stepping, Holds
<1>1. ASSUME work'[w] = work[w], page'[work[w].run] = page[work[w].run],
             token[work[w].run] = w
      PROVE  work'[w].page = page'[work'[w].run]
  BY <1>0, <1>1 DEF OwnCopy, Stepping, Holds
<1>2. ASSUME work'[w] = work[w]  PROVE work[w].run \in Runs
  BY <1>0, <1>2, WorkType
<1>3. CASE \E r \in Runs : Request(r) \/ Lapses(r)
  <2>1. UNCHANGED <<work, page>>
    BY <1>3, RequestMoves
  <2>2. token[work[w].run] = w
    BY <1>0, <1>2, <1>3, <2>1, RequestMoves
  <2> QED
    BY <1>1, <2>1, <2>2
<1>4. CASE Sweep \/ Post \/ UNCHANGED vars
  BY <1>0, <1>1, <1>4 DEF Sweep, Post, vars, row
<1>5. ASSUME NEW v \in Workers, v # w, LeaseStep(v)
      PROVE  work'[w] = work[w] /\ token[work[w].run] = w
  <2>1. work'[w] = work[w] /\ work[w].run \in Runs
    BY <1>2, <1>5 DEF LeaseStep
  <2> QED
    BY <1>0, <1>5, <2>1 DEF LeaseStep, TokenMoves
<1>6. ASSUME NEW v \in Workers, Goes(v) \/ Fails(v)
      PROVE  work'[w].page = page'[work'[w].run]
  <2>1. CASE v # w
    <3>1. work'[w] = work[w] /\ token[work[w].run] = w /\ work[w].run \in Runs
      BY <1>2, <1>5, <1>6, <2>1, WorkerMoves
    <3>2. page'[work[w].run] = page[work[w].run]
      <4>1. CASE UNCHANGED page
        BY <4>1
      <4>2. CASE CommitBounds(v) \/ CommitPage(v)
        <5>1. token[work[v].run] = v
          BY <4>2 DEF CommitBounds, CommitPage, CommitAllowed, Holds
        <5>2. page' = [page EXCEPT ![work[v].run] = work[v].page + 1]
          BY <4>2, CommitMoves
        <5>3. work[v].run # work[w].run
          BY <2>1, <3>1, <5>1
        <5> QED
          BY <3>1, <5>2, <5>3 DEF TypeOK
      <4> QED
        BY <1>6, <4>1, <4>2, PageMoves
    <3> QED
      BY <1>1, <3>1, <3>2
  <2>2. CASE v = w
    <3>1. CASE CommitBounds(w) \/ CommitPage(w)
      <4>1. /\ work[w].run \in Runs
            /\ page' = [page EXCEPT ![work[w].run] = work[w].page + 1]
            /\ work'[w].run = work[w].run /\ work'[w].page = work[w].page + 1
        BY <1>0, <3>1, CommitMoves
      <4>2. page'[work[w].run] = work[w].page + 1
        BY <4>1 DEF TypeOK
      <4> QED
        BY <4>1, <4>2
    <3>2. ASSUME ~CommitBounds(w), ~CommitPage(w)  PROVE work'[w].at # "step"
      <4>1. CASE \E o : Ends(w, o)
        BY <4>1, EndsMoves
      <4>2. CASE Release(w)
        <5>1. work[w] \in EndWork /\ work' = [work EXCEPT ![w].at = "publish"]
          BY <4>2, WorkKinds DEF Release
        <5>2. work'[w] = [work[w] EXCEPT !.at = "publish"]
          <6>1. work \in [Workers -> Work \cup {Idle}]
            BY DEF TypeOK
          <6> QED
            BY <5>1, <6>1, Zenon
        <5>3. work'[w].at = "publish"
          BY <5>1, <5>2, Published, Zenon
        <5> QED
          BY <5>3
      <4>3. CASE Publishes(w) \/ Crash(w)
        <5>1. work' = [work EXCEPT ![w] = Idle]
          BY <4>3
          DEF Publishes, PublishContinue, PublishStopped, PublishDone, PublishTransient,
              PublishRateLimited, PublishFailed, Publishing, Crash
        <5> QED
          BY <5>1 DEF TypeOK, Idle
      <4> QED
        BY <1>6, <2>2, <3>2, <4>1, <4>2, <4>3
        DEF Goes, Fails, Publishes, CommitFinish, CommitRefused, UndoBatch, UndoWalked,
            UndoFinish, UndoRefused, StepFails, UndoFails
    <3> QED
      BY <1>0, <3>1, <3>2
  <2> QED
    BY <2>1, <2>2
<1>7. ASSUME NEW v \in Workers, NEW r \in Runs, StepTaken(v, r) \/ UndoTaken(v, r)
      PROVE  work'[w].page = page'[work'[w].run]
  <2>1. UNCHANGED page
    BY <1>7 DEF StepTaken, UndoTaken, StepSkipped, StepUnconnected, StepClaimed,
                UndoSkipped, UndoClaimed, row
  <2>2. CASE v # w
    BY <1>1, <1>5, <1>7, <2>1, <2>2, TakenMoves
  <2>3. CASE v = w
    <3>1. CASE StepClaimed(w, r)
      BY <2>1, <3>1 DEF StepClaimed, TypeOK
    <3>2. CASE UndoClaimed(w, r)
      BY <1>0, <3>2 DEF UndoClaimed, TypeOK
    <3>3. CASE work[w] = Idle /\ UNCHANGED work
      BY <1>0, <3>3 DEF Idle
    <3> QED
      BY <1>7, <2>3, <3>1, <3>2, <3>3
      DEF StepTaken, UndoTaken, StepSkipped, StepUnconnected, UndoSkipped, row
  <2> QED
    BY <2>2, <2>3
<1> QED
  BY <1>3, <1>4, <1>6, <1>7 DEF Next

-----------------------------------------------------------------------------
(* "a stale progress snapshot" never takes a run's progress back: whoever   *)
(* resumes a run, and however late the one before it commits, its pages     *)
(* only go forward (SqlStore::commit, store.rs).                            *)
THEOREM ProgressCorrect == Spec => ProgressKept
<1>1. Init => TypeOK /\ OwnCopy
  BY InitType DEF Init, Idle, OwnCopy, Stepping
<1>2. TypeOK /\ OwnCopy /\ [Next]_vars => (TypeOK /\ OwnCopy)'
  BY TypeStep, OwnCopyStep
<1>3. ASSUME TypeOK, OwnCopy, [Next]_vars, NEW r \in Runs  PROVE page'[r] >= page[r]
  <2>1. CASE UNCHANGED page
    BY <1>3, <2>1 DEF TypeOK
  <2>2. ASSUME NEW w \in Workers, CommitBounds(w) \/ CommitPage(w)
        PROVE  page'[r] >= page[r]
    <3> DEFINE q == work[w].run
    <3>1. q \in Runs /\ page' = [page EXCEPT ![q] = work[w].page + 1]
      BY <1>3, <2>2, CommitMoves
    <3>2. work[w].page = page[q]
      BY <1>3, <2>2 DEF CommitBounds, CommitPage, CommitAllowed, OwnCopy
    <3> QED
      BY <1>3, <3>1, <3>2 DEF TypeOK
  <2>3. UNCHANGED page \/ \E w \in Workers : CommitBounds(w) \/ CommitPage(w)
    <3>1. ASSUME NEW w \in Workers, NEW q \in Runs, StepTaken(w, q) \/ UndoTaken(w, q)
          PROVE  UNCHANGED page
      BY <3>1 DEF StepTaken, UndoTaken, StepSkipped, StepUnconnected, StepClaimed,
                  UndoSkipped, UndoClaimed, row
    <3> QED
      BY <1>3, <3>1, RequestMoves, PageMoves DEF Next, Sweep, Post, vars, row
  <2> QED
    BY <2>1, <2>2, <2>3
<1>4. TypeOK /\ OwnCopy /\ [Next]_vars => [\A r \in Runs : page'[r] >= page[r]]_vars
  BY <1>3
<1> QED
  BY <1>1, <1>2, <1>4, PTL DEF Spec, ProgressKept

(* "a job never extends or releases another's lease": a lease that has not *)
(* lapsed is only ever let go by the execution that took it, whatever      *)
(* requests, undos, late workers and sweeps there are (JsonLease,          *)
(* claims.rs; step_lease_fresh, slack_import.rs).                          *)
THEOREM LeaseCorrect == Spec => LeaseKept
<1> DEFINE Kept ==
      \A r \in Runs, w \in Workers :
          token[r] = w /\ stamp[r] = "fresh" /\ token'[r] # w =>
              work[w] # Idle /\ work[w].run = r /\ work'[w] # work[w]
<1>1. Init => TypeOK
  BY InitType
<1>2. ASSUME TypeOK, [Next]_vars  PROVE Kept
  <2> SUFFICES ASSUME NEW r \in Runs, NEW w \in Workers,
                      token[r] = w, stamp[r] = "fresh", token'[r] # w
               PROVE  work[w] # Idle /\ work[w].run = r /\ work'[w] # work[w]
    OBVIOUS
  <2>1. ASSUME NEW v \in Workers, LeaseStep(v)
        PROVE  work[w] # Idle /\ work[w].run = r /\ work'[w] # work[w]
    <3>1. /\ token[r] = v /\ token'[r] = None
          /\ work[v] # Idle /\ work[v].run = r /\ work'[v] # work[v]
      BY <2>1 DEF LeaseStep, TokenMoves
    <3>2. v = w
      BY <3>1
    <3> QED
      BY <3>1, <3>2
  <2>2. ~\E q \in Runs : Request(q) \/ Lapses(q)
    BY <1>2, RequestMoves
  <2>3. ~Sweep /\ ~Post /\ ~UNCHANGED vars
    BY DEF Sweep, Post, vars, row
  <2>4. \E v \in Workers : LeaseStep(v)
    BY <1>2, <2>2, <2>3, WorkerMoves, TakenMoves DEF Next
  <2> QED
    BY <2>1, <2>4
<1>3. TypeOK /\ [Next]_vars => [Kept]_vars
  BY <1>2
<1> QED
  BY <1>1, <1>3, TypeStep, PTL DEF Spec, LeaseKept

-----------------------------------------------------------------------------
(* Runs and what they imported.                                            *)

(* Runs start one after another, and the one that runs started last. *)
StartsOrdered ==
    /\ \A r \in Runs : started[r] <= clock
    /\ \A q, r \in Runs : started[q] = started[r] /\ started[q] # 0 => q = r
    /\ \A r \in Runs :
          /\ status[r] \in {"new", "queued"} => page[r] = 0
          /\ page[r] > 0 => started[r] # 0
          /\ status[r] = "running" =>
                started[r] # 0 /\ \A q \in Runs : started[q] <= started[r]

(* What a run owns it has read. *)
OwnersRead ==
    \A p \in History, q \in Runs :
        owner[p] = q => q \notin DryRuns /\ page[q] > 0 /\ p <= top[q]

(* Page p stands for run r, on a run that started no later, or may be      *)
(* missing for the one reason CompletedIsWhole names.                      *)
Stands(p, r) ==
    \/ \E q \in Runs : owner[p] = q /\ started[q] <= started[r]
    \/ Overshadowed(p, r)

(* What a run has read stands, and so does what is before its bound. *)
RunningHasRead ==
    \A r \in Runs \ DryRuns :
        status[r] = "running" /\ page[r] > 0 =>
            \A p \in 1 .. top[r] :
                p < oldest[r] \/ NextPage(top[r], page[r]) < p => Stands(p, r)

CompletedStands ==
    \A r \in Runs \ DryRuns :
        status[r] = "completed" => page[r] > 0 /\ \A p \in 1 .. top[r] : Stands(p, r)

(* No completed run that started later stands on one that is being undone. *)
UndoIsLast ==
    \A q \in Runs : status[q] = "undoing" /\ page[q] > 0 =>
        \A r \in Runs \ DryRuns : status[r] = "completed" => started[r] <= started[q]

(* The inductive invariant. *)
CoreInv ==
    /\ OneAtATime
    /\ StartsOrdered /\ OwnersRead /\ RunningHasRead
    /\ CompletedStands /\ UndoIsLast

(* What an undo has come to.  A run that is not undone owns what it has    *)
(* posted; its walk leaves, of the pages it has been through, only what is *)
(* kept or could not be removed.                                           *)
RemovalInv ==
    \A r \in Runs :
        /\ \A p \in kept[r] :
              /\ p \in content[r]
              /\ status[r] \in {"undoing", "undone"}
              /\ status[r] = "undoing" => cursor[r] <= p
        /\ \A p \in content[r] :
              /\ owner[p] = r \/ (status[r] = "undone" /\ p \in unremoved[r])
              /\ status[r] = "undoing" =>
                    p < cursor[r] \/ p \in kept[r] \/ p \in unremoved[r]
              /\ status[r] = "undone" => p \in kept[r] \/ p \in unremoved[r]
        /\ \A p \in Imported(r) :
              p \in content[r] \/ (status[r] = "undoing" /\ cursor[r] <= p)

SlackInv == TypeOK /\ OwnCopy /\ CoreInv /\ RemovalInv

Core == <<status, page, started, clock, owner, top, oldest>>
Removal == <<status, owner, cursor, kept, unremoved, content>>

(* What a page stands on stays: records are added, and what runs that are  *)
(* over have come to does not change.                                      *)
LEMMA StandsStays ==
    ASSUME UNCHANGED started,
           \A o \in History, q \in Runs : owner[o] = q => owner'[o] = q,
           \A q \in Runs :
              status[q] \in {"completed", "failed", "cancelled", "undone"} =>
                  status'[q] = status[q] /\ top'[q] = top[q],
           NEW p \in History, NEW r \in Runs, Stands(p, r)
    PROVE  Stands(p, r)'
<1>1. CASE \E q \in Runs : owner[p] = q /\ started[q] <= started[r]
  BY <1>1 DEF Stands
<1>2. CASE Overshadowed(p, r)
  <2>1. Overshadowed(p, r)'
    BY <1>2 DEF Overshadowed, Imported
  <2> QED
    BY <2>1 DEF Stands
<1> QED
  BY <1>1, <1>2 DEF Stands

(* What a page is missing for holds of every run that starts later. *)
LEMMA OvershadowedLater ==
    ASSUME TypeOK, NEW p \in History, NEW q \in Runs, NEW r \in Runs,
           started[q] <= started[r], Overshadowed(p, q)
    PROVE  Overshadowed(p, r)
<1>1. \A x \in Runs : started[x] < started[q] => started[x] < started[r]
  BY DEF TypeOK
<1> QED
  BY <1>1 DEF Overshadowed

LEMMA CoreStays ==
    ASSUME CoreInv, UNCHANGED Core
    PROVE  CoreInv'
<1> USE DEF Core
<1>1. OneAtATime' /\ StartsOrdered' /\ OwnersRead' /\ UndoIsLast'
  BY DEF CoreInv, OneAtATime, StartsOrdered, OwnersRead, UndoIsLast
<1>2. \A p, r : Overshadowed(p, r)' <=> Overshadowed(p, r)
  BY DEF Overshadowed, Imported
<1>3. \A p, r : Stands(p, r)' <=> Stands(p, r)
  BY <1>2 DEF Stands
<1>4. RunningHasRead' /\ CompletedStands'
  BY <1>3 DEF CoreInv, RunningHasRead, CompletedStands
<1> QED
  BY <1>1, <1>4 DEF CoreInv

(* Pages and starts are numbers; a run reads pages of the history. *)
LEMMA Numbers ==
    ASSUME TypeOK
    PROVE  /\ \A p \in History : p \in Int /\ 1 <= p
           /\ \A q \in Runs :
                 /\ top[q] \in Int /\ started[q] \in Int /\ page[q] \in Int
                 /\ \A p \in 1 .. top[q] : p \in History /\ p <= top[q]
                 /\ \A p \in History : p <= top[q] => p \in 1 .. top[q]
<1>1. \A q \in Runs : top[q] \in 0 .. Pages /\ started[q] \in Nat /\ page[q] \in 0 .. Pages + 1
  BY DEF TypeOK
<1> QED
  BY <1>1 DEF History

(* A run is created, stops, or fails. *)
LEMMA CoreStatus ==
    ASSUME TypeOK, CoreInv, NEW r \in Runs, NEW s,
           status' = [status EXCEPT ![r] = s],
           \/ status[r] = "new" /\ s = "queued"
           \/ status[r] \in {"queued", "running"} /\ s \in {"cancelled", "failed"},
           UNCHANGED <<page, started, clock, owner, top, oldest>>
    PROVE  CoreInv'
<1>1. OneAtATime' /\ StartsOrdered' /\ OwnersRead' /\ UndoIsLast'
  BY DEF TypeOK, CoreInv, OneAtATime, StartsOrdered, OwnersRead, UndoIsLast
<1>2. \A q \in Runs : q # r => status'[q] = status[q]
  BY DEF TypeOK
<1>3. \A q \in Runs : status'[q] \in {"running", "completed"} => status'[q] = status[q]
  BY DEF TypeOK
<1>4. ASSUME NEW p \in History, NEW q \in Runs, Stands(p, q)  PROVE Stands(p, q)'
  BY <1>2, <1>4, StandsStays
<1>5. \A q \in Runs : \A p \in 1 .. top[q] : p \in History
  BY Numbers
<1>6. RunningHasRead'
  BY <1>3, <1>4, <1>5 DEF CoreInv, RunningHasRead
<1>7. CompletedStands'
  BY <1>3, <1>4, <1>5 DEF CoreInv, CompletedStands
<1> QED
  BY <1>1, <1>6, <1>7 DEF CoreInv

(* A queued run starts while nothing is worked on: it runs, or fails. *)
LEMMA CoreStarts ==
    ASSUME TypeOK, CoreInv, NEW r \in Runs, Claimable(r), NEW s \in {"running", "failed"},
           status' = [status EXCEPT ![r] = s],
           started' = [started EXCEPT ![r] = clock + 1], clock' = clock + 1,
           UNCHANGED <<page, owner, top, oldest>>
    PROVE  CoreInv'
<1>1. /\ status[r] = "queued" /\ page[r] = 0
      /\ \A q \in Runs : status[q] \notin {"running", "undoing"}
  BY DEF Claimable, Blocking, CoreInv, StartsOrdered
<1>2. \A q \in Runs \ {r} : status'[q] = status[q] /\ started'[q] = started[q]
  BY DEF TypeOK
<1>3. OneAtATime'
  BY <1>1, <1>2 DEF OneAtATime
<1>4. StartsOrdered'
  BY <1>1 DEF TypeOK, CoreInv, StartsOrdered
<1>5. OwnersRead'
  BY DEF CoreInv, OwnersRead
<1>6. RunningHasRead'
  BY <1>1, <1>2 DEF TypeOK, RunningHasRead
<1>7. ASSUME NEW q \in Runs, q # r, NEW p \in History, Stands(p, q)
      PROVE  Stands(p, q)'
  <2>1. \A o \in History : owner[o] # r
    BY <1>1 DEF CoreInv, OwnersRead, TypeOK
  <2>2. CASE \E x \in Runs : owner[p] = x /\ started[x] <= started[q]
    BY <1>2, <1>7, <2>1, <2>2 DEF Stands
  <2>3. CASE Overshadowed(p, q)
    <3>1. PICK f \in Runs \ DryRuns :
              status[f] = "completed" /\ started[f] < started[q] /\ top[f] < p
      BY <2>3 DEF Overshadowed
    <3>2. PICK x \in Runs \ DryRuns :
              /\ status[x] \in {"failed", "cancelled", "undone"}
              /\ started[x] < started[q]
              /\ \E m \in Imported(x) : p < m
      BY <2>3 DEF Overshadowed
    <3>3. f # r /\ x # r
      BY <1>1, <3>1, <3>2
    <3>4. status'[f] = status[f] /\ started'[f] = started[f] /\ top'[f] = top[f]
          /\ status'[x] = status[x] /\ started'[x] = started[x]
          /\ started'[q] = started[q] /\ Imported(x)' = Imported(x)
      BY <1>2, <1>7, <3>3 DEF Imported
    <3>5. Overshadowed(p, q)'
      BY <3>1, <3>2, <3>4 DEF Overshadowed
    <3> QED
      BY <3>5 DEF Stands
  <2> QED
    BY <1>7, <2>2, <2>3 DEF Stands
<1>8. CompletedStands'
  <2> SUFFICES ASSUME NEW q \in Runs \ DryRuns, status'[q] = "completed"
               PROVE  page'[q] > 0 /\ \A p \in 1 .. top'[q] : Stands(p, q)'
    BY DEF CompletedStands
  <2>1. q # r /\ status[q] = "completed"
    BY <1>2 DEF TypeOK
  <2>2. \A p \in 1 .. top[q] : p \in History
    BY Numbers
  <2> QED
    BY <1>7, <2>1, <2>2 DEF CoreInv, CompletedStands
<1>9. UndoIsLast'
  BY <1>1, <1>2 DEF TypeOK, UndoIsLast
<1> QED
  BY <1>3, <1>4, <1>5, <1>6, <1>8, <1>9 DEF CoreInv

(* An undo begins: nothing else is worked on, nothing later stands on it,  *)
(* neither on its pages nor on what it read of the history.                *)
LEMMA CoreUndo ==
    ASSUME TypeOK, CoreInv, NEW r \in Runs, Undo(r)
    PROVE  CoreInv'
<1>1. /\ status[r] \in {"completed", "failed", "cancelled"}
      /\ \A q \in Runs \ {r} : status[q] \notin {"running", "undoing"}
      /\ ~LaterOverlap(r)
  BY DEF Undo, UndoEligible, UndoBlocked, Active
<1>2. /\ status' = [status EXCEPT ![r] = "undoing"]
      /\ UNCHANGED <<page, started, clock, owner, top, oldest>>
  BY DEF Undo, reach, imported
<1>3. \A q \in Runs \ {r} : status'[q] = status[q]
  BY <1>2 DEF TypeOK
<1>4. OneAtATime'
  BY <1>1, <1>2 DEF TypeOK, OneAtATime
<1>5. StartsOrdered' /\ OwnersRead'
  BY <1>1, <1>2 DEF TypeOK, CoreInv, StartsOrdered, OwnersRead
<1>6. RunningHasRead'
  BY <1>1, <1>2 DEF TypeOK, RunningHasRead
<1>7. ASSUME NEW q \in Runs \ DryRuns, q # r, status[q] = "completed", page[r] > 0
      PROVE  started[q] <= started[r]
  <2>1. page[q] > 0 /\ started[r] # 0
    BY <1>7 DEF CoreInv, CompletedStands, StartsOrdered
  <2>2. ~(started[q] > started[r])
    BY <1>1, <1>7, <2>1 DEF LaterOverlap
  <2> QED
    BY <2>2 DEF TypeOK
<1>8. CompletedStands'
  <2> SUFFICES ASSUME NEW q \in Runs \ DryRuns, q # r, status[q] = "completed",
                      NEW p \in History, p <= top[q]
               PROVE  Stands(p, q)'
    <3>1. \A q \in Runs \ DryRuns : status'[q] = "completed" =>
              q # r /\ status[q] = "completed" /\ page'[q] > 0 /\ top'[q] = top[q]
      BY <1>2 DEF TypeOK, CoreInv, CompletedStands
    <3>2. \A q \in Runs : \A p \in 1 .. top[q] : p \in History /\ p <= top[q]
      BY Numbers
    <3> QED
      BY <1>2, <3>1, <3>2 DEF CompletedStands
  <2>1. Stands(p, q)
    BY Numbers DEF CoreInv, CompletedStands
  <2>2. CASE \E x \in Runs : owner[p] = x /\ started[x] <= started[q]
    BY <1>2, <2>2 DEF Stands
  <2>3. CASE Overshadowed(p, q)
    <3>1. PICK f \in Runs \ DryRuns :
              status[f] = "completed" /\ started[f] < started[q] /\ top[f] < p
      BY <2>3 DEF Overshadowed
    <3>2. PICK x \in Runs \ DryRuns :
              /\ status[x] \in {"failed", "cancelled", "undone"}
              /\ started[x] < started[q]
              /\ \E m \in Imported(x) : p < m
      BY <2>3 DEF Overshadowed
    <3>3. page[f] > 0 /\ page[x] > 0
      BY <3>1, <3>2 DEF CoreInv, CompletedStands, OwnersRead, Imported
    <3>4. f # r /\ x # r
      BY <1>7, <3>1, <3>2, <3>3 DEF TypeOK
    <3>5. Overshadowed(p, q)'
      BY <1>2, <1>3, <3>1, <3>2, <3>4 DEF Overshadowed, Imported
    <3> QED
      BY <3>5 DEF Stands
  <2> QED
    BY <2>1, <2>2, <2>3 DEF Stands
<1>9. UndoIsLast'
  BY <1>1, <1>2, <1>3, <1>7 DEF TypeOK, UndoIsLast
<1> QED
  BY <1>4, <1>5, <1>6, <1>8, <1>9 DEF CoreInv

(* The bound of a run: what is before it stands.  A page before the newest *)
(* record that no one holds is missing for the completed run the bound is  *)
(* asked of, or was for the run that left that record; and if not, they    *)
(* are the two that make it so.                                            *)
LEMMA BoundStands ==
    ASSUME TypeOK, CoreInv, NEW r \in Runs, status[r] = "running", page[r] = 0,
           NEW p \in History, p < FirstPage(r)
    PROVE  Stands(p, r)
<1>1. CASE \E q \in Runs : owner[p] = q
  BY <1>1 DEF CoreInv, StartsOrdered, Stands
<1>2. CASE owner[p] = None
  <2>1. FirstPage(r) # 1 /\ FirstPage(r) \in History
    <3>1. FirstPage(r) \in History
      BY FirstInHistory, Zenon
    <3> QED
      BY <3>1 DEF History
  <2>2. /\ \E f \in Runs \ (DryRuns \cup {r}) : status[f] = "completed" /\ page[f] > 0
        /\ \E q \in Runs \ {r} : owner[FirstPage(r)] = q
    BY <2>1, FirstInHistory, Zenon
  <2>3. PICK f \in Runs \ (DryRuns \cup {r}) : status[f] = "completed" /\ page[f] > 0
    BY <2>2
  <2>4. PICK x \in Runs \ {r} : owner[FirstPage(r)] = x
    BY <2>2
  <2>5. x \notin DryRuns /\ page[x] > 0 /\ FirstPage(r) <= top[x]
    BY <2>1, <2>4 DEF CoreInv, OwnersRead
  <2>6. started[f] < started[r] /\ started[x] < started[r]
    <3>1. \A q \in Runs : started[q] <= started[r]
      BY DEF CoreInv, StartsOrdered
    <3>2. started[f] # started[r] /\ started[x] # started[r]
      BY DEF CoreInv, StartsOrdered
    <3> QED
      BY <3>1, <3>2, Numbers
  <2>7. ASSUME NEW q \in Runs \ DryRuns, status[q] = "completed", p <= top[q],
               started[q] < started[r]
        PROVE  Overshadowed(p, r)
    <3>1. Stands(p, q)
      BY <2>7, Numbers DEF CoreInv, CompletedStands
    <3>2. Overshadowed(p, q)
      BY <1>2, <3>1, SlackNoneAssumption DEF Stands
    <3>3. started[q] <= started[r]
      BY <2>7 DEF TypeOK
    <3> QED
      BY <3>2, <3>3, OvershadowedLater
  <2>8. CASE p <= top[f]
    BY <2>3, <2>6, <2>7, <2>8 DEF Stands
  <2>9. CASE status[x] = "completed"
    <3>1. p <= top[x]
      BY <2>1, <2>5, Numbers
    <3> QED
      BY <2>4, <2>5, <2>6, <2>7, <2>9, <3>1 DEF Stands
  <2>10. CASE ~(p <= top[f]) /\ status[x] # "completed"
    <3>1. status[x] \in {"failed", "cancelled", "undone"}
      <4>1. status[x] \notin {"new", "queued"}
        BY <2>4, <2>5 DEF CoreInv, StartsOrdered
      <4>2. status[x] \notin {"running", "undoing"}
        BY <2>4 DEF CoreInv, OneAtATime
      <4>3. status[x] \in Statuses
        BY <2>4 DEF TypeOK
      <4> QED
        BY <2>10, <4>1, <4>2, <4>3 DEF Statuses
    <3>2. top[f] < p
      BY <2>3, <2>10, Numbers
    <3>3. FirstPage(r) \in Imported(x)
      BY <2>1, <2>4 DEF Imported
    <3>4. Overshadowed(p, r)
      BY <2>3, <2>4, <2>5, <2>6, <3>1, <3>2, <3>3 DEF Overshadowed
    <3> QED
      BY <3>4 DEF Stands
  <2> QED
    BY <2>8, <2>9, <2>10
<1> QED
  BY <1>1, <1>2 DEF TypeOK

(* A run learns its room and its bound. *)
LEMMA CoreBounds ==
    ASSUME TypeOK, OwnCopy, CoreInv, NEW w \in Workers, CommitBounds(w)
    PROVE  CoreInv'
<1> DEFINE r == work[w].run
<1>1. /\ r \in Runs /\ status[r] = "running" /\ work[w].page = page[r] /\ page[r] = 0
  BY WorkType DEF CommitBounds, CommitAllowed, Stepping, OwnCopy
<1>2. /\ page' = [page EXCEPT ![r] = 1]
      /\ oldest' = [oldest EXCEPT ![r] = FirstPage(r)]
      /\ top' = [top EXCEPT ![r] = posted]
      /\ UNCHANGED <<status, started, clock, owner>>
  BY <1>1 DEF CommitBounds, Committed, imported
<1> HIDE DEF r
<1>3. /\ page'[r] = 1 /\ oldest'[r] = FirstPage(r) /\ top'[r] = posted
      /\ \A q \in Runs \ {r} : page'[q] = page[q] /\ top'[q] = top[q] /\ oldest'[q] = oldest[q]
  BY <1>1, <1>2 DEF TypeOK
<1>4. \A q \in Runs : status[q] = "running" => q = r
  BY <1>1 DEF CoreInv, OneAtATime
<1>5. \A q \in Runs : status[q] # "undoing"
  BY <1>1 DEF CoreInv, OneAtATime
<1>6. ASSUME NEW p \in History, NEW q \in Runs, Stands(p, q)  PROVE Stands(p, q)'
  <2>1. \A x \in Runs :
            status[x] \in {"completed", "failed", "cancelled", "undone"} =>
                status'[x] = status[x] /\ top'[x] = top[x]
    BY <1>1, <1>2, <1>3
  <2> QED
    BY <1>2, <1>6, <2>1, StandsStays
<1>7. OneAtATime' /\ StartsOrdered' /\ UndoIsLast'
  <2>1. started[r] # 0
    BY <1>1 DEF CoreInv, StartsOrdered
  <2>2. StartsOrdered'
    BY <1>1, <1>2, <1>3, <2>1 DEF CoreInv, StartsOrdered
  <2> QED
    BY <1>2, <1>5, <2>2 DEF CoreInv, OneAtATime, UndoIsLast
<1>8. OwnersRead'
  <2>1. \A p \in History : owner[p] # r
    BY <1>1 DEF CoreInv, OwnersRead
  <2> QED
    BY <1>2, <1>3, <2>1 DEF CoreInv, OwnersRead
<1>9. RunningHasRead'
  <2> SUFFICES ASSUME NEW q \in Runs \ DryRuns, status'[q] = "running",
                      NEW p \in 1 .. top'[q],
                      p < oldest'[q] \/ NextPage(top'[q], page'[q]) < p
               PROVE  Stands(p, q)'
    BY DEF RunningHasRead
  <2>0. /\ q = r /\ p \in 1 .. posted
        /\ p < FirstPage(r) \/ NextPage(posted, 1) < p
    BY <1>2, <1>3, <1>4
  <2>1. p \in History /\ p <= posted /\ posted \in Int
    BY <2>0 DEF TypeOK, History
  <2>2. p < FirstPage(r)
    BY <2>0, <2>1 DEF NextPage
  <2>3. Stands(p, q)
    BY <1>1, <2>0, <2>1, <2>2, BoundStands
  <2> QED
    BY <1>6, <2>1, <2>3
<1>10. CompletedStands'
  <2>1. \A q \in Runs : status[q] = "completed" => q # r /\ top'[q] = top[q] /\ page'[q] = page[q]
    BY <1>1, <1>3
  <2> QED
    BY <1>2, <1>6, <2>1, Numbers DEF CoreInv, CompletedStands
<1> QED
  BY <1>7, <1>8, <1>9, <1>10 DEF CoreInv

(* A page is imported, or was before. *)
LEMMA CorePage ==
    ASSUME TypeOK, OwnCopy, CoreInv, NEW w \in Workers, CommitPage(w)
    PROVE  CoreInv'
<1> DEFINE r == work[w].run
           n == work[w].page
<1>1. /\ r \in Runs /\ status[r] = "running" /\ n = page[r]
      /\ n \in 0 .. Pages + 1 /\ n > 0 /\ ~(NextPage(top[r], n) < oldest[r])
  BY WorkType DEF CommitPage, CommitAllowed, Stepping, OwnCopy, HistoryDone
<1>2. PICK t \in IF n = 1 THEN top[r] .. posted ELSE {top[r]} :
          /\ top' = [top EXCEPT ![r] = t]
          /\ IF owner[NextPage(t, n)] = None /\ r \notin DryRuns
             THEN owner' = [owner EXCEPT ![NextPage(t, n)] = r]
             ELSE owner' = owner
  BY DEF CommitPage, imported
<1>3. /\ page' = [page EXCEPT ![r] = n + 1]
      /\ UNCHANGED <<status, started, clock, oldest>>
  BY DEF CommitPage, Committed
<1> DEFINE p == NextPage(t, n)
<1>4. /\ p \in History /\ t \in 0 .. Pages /\ top[r] <= t /\ (n # 1 => t = top[r])
  BY <1>1, PageInHistory
<1> HIDE DEF r, n
<1>5. /\ page'[r] = n + 1 /\ top'[r] = t
      /\ \A q \in Runs \ {r} : page'[q] = page[q] /\ top'[q] = top[q]
  BY <1>1, <1>2, <1>3 DEF TypeOK
<1>6. p = t + 1 - n
  BY DEF NextPage
<1> HIDE DEF p
<1>7. /\ \A o \in History, q \in Runs : owner[o] = q => owner'[o] = q
      /\ \A o \in History, q \in Runs :
            owner'[o] = q => owner[o] = q \/ (o = p /\ q = r /\ r \notin DryRuns)
      /\ r \notin DryRuns => \E q \in Runs : owner'[p] = q
  <2>1. CASE owner[p] = None /\ r \notin DryRuns
    <3>1. owner' = [owner EXCEPT ![p] = r]
      BY <1>2, <2>1 DEF p
    <3>2. owner'[p] = r /\ \A o \in History : o # p => owner'[o] = owner[o]
      BY <1>4, <3>1 DEF TypeOK
    <3> QED
      BY <1>1, <2>1, <3>2, SlackNoneAssumption
  <2>2. CASE ~(owner[p] = None /\ r \notin DryRuns)
    <3>1. owner' = owner
      BY <1>2, <2>2 DEF p
    <3>2. owner[p] \in Runs \cup {None}
      BY <1>4 DEF TypeOK
    <3> QED
      BY <2>2, <3>1, <3>2
  <2> QED
    BY <2>1, <2>2
<1>8. \A q \in Runs : status[q] = "running" => q = r
  BY <1>1 DEF CoreInv, OneAtATime
<1>9. \A q \in Runs : status[q] # "undoing"
  BY <1>1 DEF CoreInv, OneAtATime
<1>10. ASSUME NEW o \in History, NEW q \in Runs, Stands(o, q)  PROVE Stands(o, q)'
  <2>1. \A x \in Runs :
            status[x] \in {"completed", "failed", "cancelled", "undone"} =>
                status'[x] = status[x] /\ top'[x] = top[x]
    BY <1>1, <1>3, <1>5
  <2> QED
    BY <1>3, <1>7, <1>10, <2>1, StandsStays
<1>11. OneAtATime' /\ StartsOrdered' /\ UndoIsLast'
  <2>1. started[r] # 0
    BY <1>1 DEF CoreInv, StartsOrdered
  <2>2. StartsOrdered'
    BY <1>1, <1>3, <1>5, <2>1 DEF CoreInv, StartsOrdered
  <2> QED
    BY <1>3, <1>9, <2>2 DEF CoreInv, OneAtATime, UndoIsLast
<1>12. OwnersRead'
  <2> SUFFICES ASSUME NEW o \in History, NEW q \in Runs, owner'[o] = q
               PROVE  q \notin DryRuns /\ page'[q] > 0 /\ o <= top'[q]
    BY DEF OwnersRead
  <2>1. CASE owner[o] = q
    <3>1. q \notin DryRuns /\ page[q] > 0 /\ o <= top[q]
      BY <2>1 DEF CoreInv, OwnersRead
    <3> QED
      BY <1>1, <1>4, <1>5, <3>1, Numbers
  <2>2. CASE o = p /\ q = r /\ r \notin DryRuns
    BY <1>1, <1>4, <1>5, <1>6, <2>2
  <2> QED
    BY <1>7, <2>1, <2>2
<1>13. RunningHasRead'
  <2> SUFFICES ASSUME NEW q \in Runs \ DryRuns, status'[q] = "running",
                      NEW o \in 1 .. top'[q],
                      o < oldest'[q] \/ NextPage(top'[q], page'[q]) < o
               PROVE  Stands(o, q)'
    BY DEF RunningHasRead
  <2>0. /\ q = r /\ o \in 1 .. t
        /\ o < oldest[r] \/ NextPage(t, n + 1) < o
    BY <1>3, <1>5, <1>8
  <2>1. o \in History
    BY <1>4, <2>0 DEF History
  <2>2. CASE o = p
    <3>1. PICK x \in Runs : owner'[o] = x
      BY <1>7, <2>0, <2>2
    <3>2. started'[x] <= started'[q]
      BY <1>1, <1>3, <2>0 DEF CoreInv, StartsOrdered
    <3> QED
      BY <3>1, <3>2 DEF Stands
  <2>3. CASE o # p
    <3>1. o \in 1 .. top[r] /\ (o < oldest[r] \/ NextPage(top[r], n) < o)
      <4>1. top[r] \in Int /\ oldest[r] \in Int /\ n \in Int /\ t \in Int
        BY <1>1, <1>4 DEF TypeOK, History
      <4> QED
        BY <1>1, <1>4, <1>6, <2>0, <2>3, <4>1 DEF NextPage
    <3>2. Stands(o, q)
      BY <1>1, <2>0, <3>1 DEF CoreInv, RunningHasRead
    <3> QED
      BY <1>10, <2>1, <3>2
  <2> QED
    BY <2>2, <2>3
<1>14. CompletedStands'
  <2>1. \A q \in Runs : status[q] = "completed" => q # r /\ top'[q] = top[q] /\ page'[q] = page[q]
    BY <1>1, <1>5
  <2> QED
    BY <1>3, <1>10, <2>1, Numbers DEF CoreInv, CompletedStands
<1> QED
  BY <1>11, <1>12, <1>13, <1>14 DEF CoreInv

LEMMA CoreCompletes ==
    ASSUME TypeOK, OwnCopy, CoreInv, NEW w \in Workers, CommitFinish(w)
    PROVE  CoreInv'
<1> DEFINE r == work[w].run
<1>1. /\ r \in Runs /\ status[r] = "running" /\ page[r] > 0
      /\ NextPage(top[r], page[r]) < oldest[r]
  BY WorkType DEF CommitFinish, CommitAllowed, Stepping, OwnCopy, HistoryDone
<1>2. /\ status' = [status EXCEPT ![r] = "completed"] /\ clock' = clock + 1
      /\ UNCHANGED <<page, started, owner, top, oldest>>
  BY DEF CommitFinish, conversation, reach, imported
<1> HIDE DEF r
<1>3. \A q \in Runs \ {r} : status[q] \notin {"running", "undoing"} /\ status'[q] = status[q]
  BY <1>1, <1>2 DEF TypeOK, CoreInv, OneAtATime
<1>4. status'[r] = "completed"
  BY <1>1, <1>2 DEF TypeOK
<1>5. OneAtATime' /\ OwnersRead' /\ RunningHasRead' /\ UndoIsLast'
  BY <1>2, <1>3, <1>4 DEF CoreInv, OneAtATime, OwnersRead, RunningHasRead, UndoIsLast
<1>6. StartsOrdered'
  BY <1>1, <1>2 DEF TypeOK, CoreInv, StartsOrdered
<1>7. ASSUME NEW p \in History, NEW q \in Runs, Stands(p, q)  PROVE Stands(p, q)'
  <2>1. \A x \in Runs :
            status[x] \in {"completed", "failed", "cancelled", "undone"} =>
                status'[x] = status[x] /\ top'[x] = top[x]
    BY <1>1, <1>2, <1>3
  <2> QED
    BY <1>2, <1>7, <2>1, StandsStays
<1>8. CompletedStands'
  <2> SUFFICES ASSUME NEW q \in Runs \ DryRuns, status'[q] = "completed"
               PROVE  page[q] > 0 /\ \A p \in 1 .. top[q] : Stands(p, q)'
    BY <1>2 DEF CompletedStands
  <2>1. CASE q = r
    <3>1. \A p \in 1 .. top[r] : p < oldest[r] \/ NextPage(top[r], page[r]) < p
      <4>1. top[r] \in Int /\ oldest[r] \in Int /\ page[r] \in Int
        BY <1>1 DEF TypeOK, History
      <4> QED
        BY <1>1, <4>1 DEF NextPage
    <3>2. \A p \in 1 .. top[r] : Stands(p, r)
      BY <1>1, <2>1, <3>1 DEF CoreInv, RunningHasRead
    <3> QED
      BY <1>1, <1>7, <2>1, <3>2, Numbers
  <2>2. CASE q # r
    BY <1>3, <1>7, <2>2, Numbers DEF CoreInv, CompletedStands
  <2> QED
    BY <2>1, <2>2
<1> QED
  BY <1>5, <1>6, <1>8 DEF CoreInv

(* The records of an undone run go: no completed run stands on them, for   *)
(* one that did would have started no later than it and no earlier.        *)
LEMMA CoreUndone ==
    ASSUME TypeOK, CoreInv, NEW w \in Workers, UndoFinish(w)
    PROVE  CoreInv'
<1> DEFINE r == work[w].run
<1>1. r \in Runs /\ status[r] = "undoing"
  BY WorkType DEF UndoFinish, UndoAllowed, Stepping
<1>2. /\ status' = [status EXCEPT ![r] = "undone"] /\ clock' = clock + 1
      /\ owner' = [p \in History |->
            IF owner[p] = r /\ p \notin kept[r] THEN None ELSE owner[p]]
      /\ UNCHANGED <<page, started, top, oldest>>
  BY DEF UndoFinish, reach
<1> HIDE DEF r
<1>3. /\ \A q \in Runs \ {r} : status'[q] = status[q] /\ status[q] \notin {"running", "undoing"}
      /\ status'[r] = "undone"
  BY <1>1, <1>2 DEF TypeOK, CoreInv, OneAtATime
<1>4. /\ \A p \in History, q \in Runs : owner'[p] = q => owner[p] = q
      /\ \A p \in History, q \in Runs \ {r} : owner[p] = q => owner'[p] = q
  BY <1>2, SlackNoneAssumption
<1>5. OneAtATime' /\ RunningHasRead' /\ UndoIsLast'
  BY <1>1, <1>2, <1>3 DEF OneAtATime, RunningHasRead, UndoIsLast
<1>6. StartsOrdered'
  BY <1>1, <1>2 DEF TypeOK, CoreInv, StartsOrdered
<1>7. OwnersRead'
  BY <1>2, <1>4 DEF CoreInv, OwnersRead
<1>8. CompletedStands'
  <2> SUFFICES ASSUME NEW q \in Runs \ DryRuns, q # r, status[q] = "completed",
                      NEW p \in History, p <= top[q]
               PROVE  Stands(p, q)'
    <3>1. \A q \in Runs \ DryRuns : status'[q] = "completed" =>
              q # r /\ status[q] = "completed" /\ page'[q] > 0 /\ top'[q] = top[q]
      BY <1>2, <1>3 DEF CoreInv, CompletedStands
    <3>2. \A q \in Runs : \A p \in 1 .. top[q] : p \in History /\ p <= top[q]
      BY Numbers
    <3> QED
      BY <3>1, <3>2 DEF CompletedStands
  <2>1. Stands(p, q)
    BY Numbers DEF CoreInv, CompletedStands
  <2>2. ASSUME NEW x \in Runs, owner[p] = x, started[x] <= started[q]
        PROVE  Stands(p, q)'
    <3>1. x # r
      <4> SUFFICES ASSUME x = r  PROVE FALSE
        OBVIOUS
      <4>1. page[r] > 0 /\ started[r] # 0
        BY <1>1, <2>2 DEF CoreInv, OwnersRead, StartsOrdered
      <4>2. started[q] <= started[r]
        BY <1>1, <4>1 DEF CoreInv, UndoIsLast
      <4>3. started[q] = started[r]
        BY <1>1, <2>2, <4>2, Numbers
      <4> QED
        BY <1>1, <4>1, <4>3 DEF CoreInv, StartsOrdered
    <3>2. owner'[p] = x
      BY <1>4, <2>2, <3>1
    <3> QED
      BY <1>2, <2>2, <3>2 DEF Stands
  <2>3. CASE Overshadowed(p, q)
    <3>1. PICK f \in Runs \ DryRuns :
              status[f] = "completed" /\ started[f] < started[q] /\ top[f] < p
      BY <2>3 DEF Overshadowed
    <3>2. PICK x \in Runs \ DryRuns :
              /\ status[x] \in {"failed", "cancelled", "undone"}
              /\ started[x] < started[q]
              /\ \E m \in Imported(x) : p < m
      BY <2>3 DEF Overshadowed
    <3>3. f # r /\ x # r
      BY <1>1, <3>1, <3>2
    <3>4. \A m \in Imported(x) : m \in Imported(x)'
      BY <1>4, <3>3 DEF Imported
    <3>5. Overshadowed(p, q)'
      BY <1>2, <1>3, <3>1, <3>2, <3>3, <3>4 DEF Overshadowed
    <3> QED
      BY <3>5 DEF Stands
  <2> QED
    BY <2>1, <2>2, <2>3 DEF Stands
<1> QED
  BY <1>5, <1>6, <1>7, <1>8 DEF CoreInv

LEMMA CoreStep == SlackInv /\ [Next]_vars => CoreInv'
<1> SUFFICES ASSUME TypeOK, OwnCopy, CoreInv, [Next]_vars  PROVE CoreInv'
  BY DEF SlackInv
<1> USE DEF conversation, reach, imported
<1>1. ASSUME NEW r \in Runs, Request(r) \/ Lapses(r)  PROVE CoreInv'
  <2>1. CASE Create(r) \/ Cancel(r)
    BY <2>1, CoreStatus DEF Create, Cancel
  <2>2. CASE Lapses(r)
    BY <2>2, CoreStays DEF Lapses, LeaseLapses, HeartbeatLapses, PendingLapses, Core
  <2> QED
    BY <1>1, <2>1, <2>2, CoreUndo DEF Request
<1>2. ASSUME NEW w \in Workers, NEW r \in Runs, StepTaken(w, r) \/ UndoTaken(w, r)
      PROVE  CoreInv'
  <2>1. CASE StepSkipped(w, r) \/ UndoSkipped(w, r) \/ UndoClaimed(w, r)
    BY <2>1, CoreStays DEF StepSkipped, UndoSkipped, UndoClaimed, Core, row
  <2>2. ASSUME StepUnconnected(w, r) \/ StepClaimed(w, r)
        PROVE  /\ Claimable(r) \/ status[r] = "running"
               /\ \/ StepUnconnected(w, r) /\ status' = [status EXCEPT ![r] = "failed"]
                  \/ StepClaimed(w, r) /\ status' = [status EXCEPT ![r] = "running"]
               /\ StartedIfQueued(r) /\ UNCHANGED <<page, owner, top, oldest>>
    BY <2>2 DEF StepUnconnected, StepClaimed
  <2>3. ASSUME StepUnconnected(w, r) \/ StepClaimed(w, r), Claimable(r)  PROVE CoreInv'
    <3>1. started' = [started EXCEPT ![r] = clock + 1] /\ clock' = clock + 1
      BY <2>2, <2>3 DEF StartedIfQueued, Claimable
    <3> QED
      BY <2>2, <2>3, <3>1, CoreStarts
  <2>4. ASSUME StepUnconnected(w, r) \/ StepClaimed(w, r), status[r] = "running"
        PROVE  CoreInv'
    <3>1. UNCHANGED <<started, clock>>
      BY <2>2, <2>4 DEF StartedIfQueued
    <3>2. CASE StepUnconnected(w, r)
      BY <2>2, <2>4, <3>1, <3>2, CoreStatus DEF StepUnconnected
    <3>3. CASE StepClaimed(w, r)
      <4>1. status' = status
        BY <2>4, <3>3 DEF StepClaimed, TypeOK
      <4> QED
        BY <2>2, <2>4, <3>1, <4>1, CoreStays DEF Core
    <3> QED
      BY <2>4, <3>2, <3>3
  <2> QED
    BY <1>2, <2>1, <2>2, <2>3, <2>4 DEF StepTaken, UndoTaken
<1>3. ASSUME NEW w \in Workers, Goes(w) \/ Fails(w)  PROVE CoreInv'
  <2>1. CASE PublishFailed(w)
    <3>1. work[w].run \in Runs
      BY <2>1, WorkType DEF PublishFailed, Publishing
    <3>2. CASE status[work[w].run] = "running"
      BY <2>1, <3>1, <3>2, CoreStatus DEF PublishFailed
    <3>3. CASE status[work[w].run] # "running"
      BY <2>1, <3>3, CoreStays DEF PublishFailed, Core
    <3> QED
      BY <3>2, <3>3
  <2>2. CASE UNCHANGED Core
    BY <2>2, CoreStays
  <2>3. \/ CommitBounds(w) \/ CommitPage(w) \/ CommitFinish(w) \/ UndoFinish(w)
        \/ PublishFailed(w) \/ UNCHANGED Core
    BY <1>3
    DEF Goes, Fails, CommitRefused, UndoBatch, UndoWalked, Walked, UndoRefused, Release,
        PublishContinue, PublishStopped, PublishDone, PublishTransient,
        PublishRateLimited, StepFails, UndoFails, Crash, row, Core
  <2> QED
    BY <2>1, <2>2, <2>3, CoreBounds, CorePage, CoreCompletes, CoreUndone
<1>4. CASE Sweep \/ Post \/ UNCHANGED vars
  BY <1>4, CoreStays DEF Sweep, Post, vars, row, Core
<1> QED
  BY <1>1, <1>2, <1>3, <1>4 DEF Next

-----------------------------------------------------------------------------
(* What an undo leaves.                                                    *)

LEMMA RemovalStays ==
    ASSUME RemovalInv, UNCHANGED Removal
    PROVE  RemovalInv'
BY DEF RemovalInv, Removal, Imported

(* A status that is not one of an undo comes for another such. *)
LEMMA RemovalStatus ==
    ASSUME TypeOK, RemovalInv, NEW r \in Runs, NEW s,
           status' = [status EXCEPT ![r] = s],
           status[r] \notin {"undoing", "undone"}, s \notin {"undoing", "undone"},
           UNCHANGED <<owner, cursor, kept, unremoved, content>>
    PROVE  RemovalInv'
<1>1. /\ status'[r] = s
      /\ \A q \in Runs \ {r} : status'[q] = status[q]
  BY DEF TypeOK
<1> QED
  BY <1>1 DEF RemovalInv, Imported

(* An undo begins before everything the run has posted. *)
LEMMA RemovalBegins ==
    ASSUME TypeOK, RemovalInv, NEW r \in Runs, Undo(r)
    PROVE  RemovalInv'
<1>1. /\ status[r] \in {"completed", "failed", "cancelled"}
      /\ status' = [status EXCEPT ![r] = "undoing"]
      /\ cursor' = [cursor EXCEPT ![r] = Pages + 1]
      /\ UNCHANGED <<owner, kept, unremoved, content>>
  BY DEF Undo, UndoEligible, imported
<1>2. /\ status'[r] = "undoing" /\ cursor'[r] = Pages + 1
      /\ \A q \in Runs \ {r} : status'[q] = status[q] /\ cursor'[q] = cursor[q]
  BY <1>1 DEF TypeOK
<1>3. kept[r] = {} /\ \A p \in content[r] : owner[p] = r /\ p < Pages + 1
  <2>1. \A p \in content[r] : p \in History
    BY DEF TypeOK
  <2> QED
    BY <1>1, <2>1 DEF RemovalInv, History
<1> QED
  BY <1>1, <1>2, <1>3 DEF RemovalInv, Imported

(* A page is posted, and recorded, by a run that is running. *)
LEMMA RemovalPage ==
    ASSUME TypeOK, OwnCopy, RemovalInv, NEW w \in Workers, CommitPage(w)
    PROVE  RemovalInv'
<1> DEFINE r == work[w].run
           n == work[w].page
<1>1. /\ r \in Runs /\ status[r] = "running" /\ n \in 0 .. Pages + 1 /\ n > 0
      /\ ~(NextPage(top[r], n) < oldest[r])
  BY WorkType DEF CommitPage, CommitAllowed, Stepping, HistoryDone
<1>2. PICK t \in IF n = 1 THEN top[r] .. posted ELSE {top[r]} :
          IF owner[NextPage(t, n)] = None /\ r \notin DryRuns
          THEN /\ owner' = [owner EXCEPT ![NextPage(t, n)] = r]
               /\ content' = [content EXCEPT ![r] = @ \cup {NextPage(t, n)}]
          ELSE UNCHANGED imported
  BY DEF CommitPage
<1> DEFINE p == NextPage(t, n)
<1>3. p \in History
  BY <1>1, PageInHistory
<1>4. UNCHANGED <<status, cursor, kept, unremoved>>
  BY DEF CommitPage, Committed, undoing
<1> HIDE DEF r, n, p
<1>5. CASE ~(owner[p] = None /\ r \notin DryRuns)
  <2>1. UNCHANGED <<owner, content>>
    BY <1>2, <1>5 DEF p, imported
  <2> QED
    BY <1>4, <2>1, RemovalStays DEF Removal
<1>6. CASE owner[p] = None /\ r \notin DryRuns
  <2>1. /\ owner' = [owner EXCEPT ![p] = r]
        /\ content' = [content EXCEPT ![r] = @ \cup {p}]
    BY <1>2, <1>6 DEF p
  <2>2. owner'[p] = r /\ \A o \in History \ {p} : owner'[o] = owner[o]
    BY <1>3, <2>1 DEF TypeOK
  <2>3. /\ content'[r] = content[r] \cup {p}
        /\ \A q \in Runs \ {r} : content'[q] = content[q]
    BY <1>1, <2>1 DEF TypeOK
  <2>4. \A q \in Runs : \A o \in content[q] : o \in History
    BY DEF TypeOK
  <2>5. \A q \in Runs, o \in History : owner[o] = q => o # p
    BY <1>6, SlackNoneAssumption
  <2>6. ASSUME NEW q \in Runs, NEW o \in kept'[q]
        PROVE  /\ o \in content'[q]
               /\ status'[q] \in {"undoing", "undone"}
               /\ status'[q] = "undoing" => cursor'[q] <= o
    BY <1>4, <2>3, <2>6 DEF RemovalInv
  <2>7. ASSUME NEW q \in Runs, NEW o \in content'[q]
        PROVE  /\ owner'[o] = q \/ (status'[q] = "undone" /\ o \in unremoved'[q])
               /\ status'[q] = "undoing" =>
                     o < cursor'[q] \/ o \in kept'[q] \/ o \in unremoved'[q]
               /\ status'[q] = "undone" => o \in kept'[q] \/ o \in unremoved'[q]
    <3>1. CASE o \in content[q]
      <4>1. /\ owner[o] = q \/ (status[q] = "undone" /\ o \in unremoved[q])
            /\ status[q] = "undoing" =>
                  o < cursor[q] \/ o \in kept[q] \/ o \in unremoved[q]
            /\ status[q] = "undone" => o \in kept[q] \/ o \in unremoved[q]
        BY <3>1 DEF RemovalInv
      <4>2. owner[o] = q => owner'[o] = q
        BY <2>2, <2>4, <2>5, <3>1
      <4> QED
        BY <1>4, <4>1, <4>2
    <3>2. CASE q = r /\ o = p
      BY <1>1, <1>4, <2>2, <3>2
    <3> QED
      BY <2>3, <2>7, <3>1, <3>2
  <2>8. ASSUME NEW q \in Runs, NEW o \in History, owner'[o] = q
        PROVE  o \in content'[q] \/ (status'[q] = "undoing" /\ cursor'[q] <= o)
    <3>1. CASE o = p
      BY <2>2, <2>3, <2>8, <3>1
    <3>2. CASE o # p
      <4>1. o \in content[q] \/ (status[q] = "undoing" /\ cursor[q] <= o)
        BY <2>2, <2>8, <3>2 DEF RemovalInv, Imported
      <4> QED
        BY <1>4, <2>3, <4>1
    <3> QED
      BY <3>1, <3>2
  <2> QED
    BY <2>6, <2>7, <2>8 DEF RemovalInv, Imported
<1> QED
  BY <1>5, <1>6

(* A batch takes the newest page the walk has not been through. *)
LEMMA RemovalBatch ==
    ASSUME TypeOK, RemovalInv, NEW w \in Workers, UndoBatch(w)
    PROVE  RemovalInv'
<1> DEFINE r == work[w].run
<1>1. r \in Runs /\ status[r] = "undoing"
  BY WorkType DEF UndoBatch, UndoAllowed, Stepping
<1>2. PICK p \in Ahead(r) :
          /\ \A q \in Ahead(r) : q <= p
          /\ Walked(r, p)
          /\ \E removal \in Removals : PageUndone(r, p, removal)
  BY DEF UndoBatch
<1>3. PICK removal \in Removals : PageUndone(r, p, removal)
  BY <1>2
<1> HIDE DEF r
<1>4. /\ p \in History /\ owner[p] = r /\ p < cursor[r]
      /\ \A q \in History : owner[q] = r /\ q < cursor[r] => q <= p
  BY <1>2 DEF Ahead, Imported
<1>5. /\ UNCHANGED <<status, owner>> /\ cursor'[r] = p
      /\ \A q \in Runs \ {r} : cursor'[q] = cursor[q]
  BY <1>1, <1>2 DEF Walked, TypeOK
<1>6. /\ content'[r] = IF removal = "removed" THEN content[r] \ {p} ELSE content[r]
      /\ kept'[r] = IF removal = "kept" THEN kept[r] \cup {p} ELSE kept[r]
      /\ unremoved'[r] = IF removal = "failed" THEN unremoved[r] \cup {p} ELSE unremoved[r]
      /\ \A q \in Runs \ {r} :
            content'[q] = content[q] /\ kept'[q] = kept[q] /\ unremoved'[q] = unremoved[q]
  BY <1>1, <1>3 DEF PageUndone, TypeOK
<1>7. removal \in {"removed", "kept", "failed"}
  BY <1>3, SlackRemovalsAssumption
<1>8. p \in content[r] /\ p \notin kept[r]
  <2>1. p \in Int /\ cursor[r] \in Int
    BY <1>1, <1>4 DEF TypeOK, History
  <2> QED
    BY <1>1, <1>4, <2>1 DEF RemovalInv, Imported
<1>9. ASSUME NEW o \in kept'[r]  PROVE o \in content'[r] /\ cursor'[r] <= o
  <2>1. CASE o \in kept[r]
    <3>1. o \in content[r] /\ cursor[r] <= o /\ o # p
      BY <1>1, <1>8, <2>1 DEF RemovalInv
    <3>2. o \in Int /\ p \in Int /\ cursor[r] \in Int
      BY <1>1, <1>4, <2>1 DEF TypeOK, History
    <3> QED
      BY <1>4, <1>5, <1>6, <3>1, <3>2
  <2>2. CASE o = p /\ removal = "kept"
    <3>1. p \in Int
      BY <1>4 DEF History
    <3> QED
      BY <1>5, <1>6, <1>8, <2>2, <3>1
  <2> QED
    BY <1>6, <1>9, <2>1, <2>2
<1>10. ASSUME NEW o \in content'[r]
       PROVE  /\ owner[o] = r
              /\ o < cursor'[r] \/ o \in kept'[r] \/ o \in unremoved'[r]
  <2>1. /\ o \in content[r] /\ owner[o] = r
        /\ o < cursor[r] \/ o \in kept[r] \/ o \in unremoved[r]
    BY <1>1, <1>6, <1>10 DEF RemovalInv
  <2>2. o \in History /\ o \in Int /\ p \in Int /\ cursor[r] \in Int
    BY <1>1, <1>4, <2>1 DEF TypeOK, History
  <2>3. o < cursor[r] => o <= p
    BY <1>4, <2>1, <2>2
  <2>4. o = p => o \in kept'[r] \/ o \in unremoved'[r]
    BY <1>6, <1>7, <1>10
  <2> QED
    BY <1>5, <1>6, <2>1, <2>2, <2>3, <2>4
<1>11. ASSUME NEW o \in History, owner'[o] = r
       PROVE  o \in content'[r] \/ cursor'[r] <= o
  <2>1. o \in Imported(r)
    BY <1>5, <1>11 DEF Imported
  <2>2. o \in content[r] \/ cursor[r] <= o
    BY <1>1, <2>1 DEF RemovalInv
  <2>3. o \in Int /\ p \in Int /\ cursor[r] \in Int
    BY <1>1, <1>4, <2>1 DEF TypeOK, History
  <2> QED
    BY <1>4, <1>5, <1>6, <2>2, <2>3
<1>12. ASSUME NEW q \in Runs, q # r
       PROVE  /\ \A o \in kept'[q] :
                    /\ o \in content'[q]
                    /\ status'[q] \in {"undoing", "undone"}
                    /\ status'[q] = "undoing" => cursor'[q] <= o
              /\ \A o \in content'[q] :
                    /\ owner'[o] = q \/ (status'[q] = "undone" /\ o \in unremoved'[q])
                    /\ status'[q] = "undoing" =>
                          o < cursor'[q] \/ o \in kept'[q] \/ o \in unremoved'[q]
                    /\ status'[q] = "undone" => o \in kept'[q] \/ o \in unremoved'[q]
              /\ \A o \in History : owner'[o] = q =>
                    o \in content'[q] \/ (status'[q] = "undoing" /\ cursor'[q] <= o)
  BY <1>5, <1>6, <1>12 DEF RemovalInv, Imported
<1> QED
  BY <1>1, <1>5, <1>9, <1>10, <1>11, <1>12 DEF RemovalInv, Imported

(* An empty batch: the walk has been through everything. *)
LEMMA RemovalWalked ==
    ASSUME TypeOK, RemovalInv, NEW w \in Workers, UndoWalked(w)
    PROVE  RemovalInv'
<1> DEFINE r == work[w].run
<1>1. r \in Runs /\ status[r] = "undoing"
  BY WorkType DEF UndoWalked, UndoAllowed, Stepping
<1>2. /\ \A p \in History : owner[p] = r => ~(p < cursor[r])
      /\ cursor' = [cursor EXCEPT ![r] = 0]
      /\ UNCHANGED <<status, owner, content, kept, unremoved>>
  BY DEF UndoWalked, Walked, Ahead, Imported
<1> HIDE DEF r
<1>3. cursor'[r] = 0 /\ \A q \in Runs \ {r} : cursor'[q] = cursor[q]
  BY <1>1, <1>2 DEF TypeOK
<1>4. /\ \A p \in History : 0 <= p
      /\ \A p \in kept[r] \cup content[r] : p \in History
  BY <1>1 DEF TypeOK, History
<1>5. \A p \in content[r] : p \in kept[r] \/ p \in unremoved[r]
  BY <1>1, <1>2, <1>4 DEF RemovalInv
<1> QED
  BY <1>1, <1>2, <1>3, <1>4, <1>5 DEF RemovalInv, Imported

(* The end of an undo: what is left is kept with its record, or noted. *)
LEMMA RemovalFinish ==
    ASSUME TypeOK, RemovalInv, NEW w \in Workers, UndoFinish(w)
    PROVE  RemovalInv'
<1> DEFINE r == work[w].run
<1>1. r \in Runs /\ status[r] = "undoing" /\ cursor[r] = 0
  BY WorkType DEF UndoFinish, UndoAllowed, Stepping
<1>2. /\ status' = [status EXCEPT ![r] = "undone"]
      /\ owner' = [p \in History |->
            IF owner[p] = r /\ p \notin kept[r] THEN None ELSE owner[p]]
      /\ UNCHANGED <<cursor, kept, unremoved, content>>
  BY DEF UndoFinish, undoing
<1> HIDE DEF r
<1>3. status'[r] = "undone" /\ \A q \in Runs \ {r} : status'[q] = status[q]
  BY <1>1, <1>2 DEF TypeOK
<1>4. \A q \in Runs : \A p \in content[q] : p \in History
  BY DEF TypeOK
<1>5. \A p \in content[r] : /\ owner[p] = r
                            /\ p \in kept[r] \/ p \in unremoved[r]
  <2>1. \A p \in History : ~(p < 0)
    BY DEF History
  <2> QED
    BY <1>1, <1>4, <2>1 DEF RemovalInv
<1>6. ASSUME NEW q \in Runs, NEW p \in History, owner'[p] = q
      PROVE  owner[p] = q /\ (q = r => p \in kept[r])
  BY <1>2, <1>6, SlackNoneAssumption
<1>7. ASSUME NEW q \in Runs \ {r}, NEW p \in History, owner[p] = q  PROVE owner'[p] = q
  BY <1>2, <1>7
<1>8. \A p \in History : p \in kept[r] => owner'[p] = owner[p]
  BY <1>2
<1>9. ASSUME NEW q \in Runs, q # r
      PROVE  /\ \A p \in kept'[q] :
                   /\ p \in content'[q]
                   /\ status'[q] \in {"undoing", "undone"}
                   /\ status'[q] = "undoing" => cursor'[q] <= p
             /\ \A p \in content'[q] :
                   /\ owner'[p] = q \/ (status'[q] = "undone" /\ p \in unremoved'[q])
                   /\ status'[q] = "undoing" =>
                         p < cursor'[q] \/ p \in kept'[q] \/ p \in unremoved'[q]
                   /\ status'[q] = "undone" => p \in kept'[q] \/ p \in unremoved'[q]
             /\ \A p \in History : owner'[p] = q =>
                   p \in content'[q] \/ (status'[q] = "undoing" /\ cursor'[q] <= p)
  BY <1>2, <1>3, <1>4, <1>6, <1>7, <1>9 DEF RemovalInv, Imported
<1>10. /\ \A p \in kept'[r] : p \in content'[r]
       /\ \A p \in content'[r] :
             /\ owner'[p] = r \/ p \in unremoved'[r]
             /\ p \in kept'[r] \/ p \in unremoved'[r]
       /\ \A p \in History : owner'[p] = r => p \in content'[r]
  <2>1. \A p \in kept[r] : p \in content[r]
    BY <1>1 DEF RemovalInv
  <2> QED
    BY <1>1, <1>2, <1>4, <1>5, <1>6, <1>8, <2>1
<1> QED
  BY <1>3, <1>9, <1>10 DEF RemovalInv, Imported

LEMMA RemovalStep == SlackInv /\ [Next]_vars => RemovalInv'
<1> SUFFICES ASSUME TypeOK, OwnCopy, RemovalInv, [Next]_vars  PROVE RemovalInv'
  BY DEF SlackInv
<1> USE DEF conversation, undoing, imported
<1>1. ASSUME NEW r \in Runs, Request(r) \/ Lapses(r)  PROVE RemovalInv'
  <2>1. CASE Create(r) \/ Cancel(r)
    BY <2>1, RemovalStatus DEF Create, Cancel
  <2>2. CASE Lapses(r)
    BY <2>2, RemovalStays DEF Lapses, LeaseLapses, HeartbeatLapses, PendingLapses, Removal
  <2> QED
    BY <1>1, <2>1, <2>2, RemovalBegins DEF Request
<1>2. ASSUME NEW w \in Workers, NEW r \in Runs, StepTaken(w, r) \/ UndoTaken(w, r)
      PROVE  RemovalInv'
  <2>1. CASE StepSkipped(w, r) \/ UndoSkipped(w, r) \/ UndoClaimed(w, r)
    BY <2>1, RemovalStays DEF StepSkipped, UndoSkipped, UndoClaimed, Removal, row
  <2>2. CASE StepUnconnected(w, r) \/ StepClaimed(w, r)
    BY <2>2, RemovalStatus DEF StepUnconnected, StepClaimed, Claimable
  <2> QED
    BY <1>2, <2>1, <2>2 DEF StepTaken, UndoTaken
<1>3. ASSUME NEW w \in Workers, Goes(w) \/ Fails(w)  PROVE RemovalInv'
  <2>1. CASE PublishFailed(w)
    <3>1. work[w].run \in Runs
      BY <2>1, WorkType DEF PublishFailed, Publishing
    <3>2. CASE status[work[w].run] = "running"
      BY <2>1, <3>1, <3>2, RemovalStatus DEF PublishFailed
    <3>3. CASE status[work[w].run] # "running"
      BY <2>1, <3>3, RemovalStays DEF PublishFailed, Removal
    <3> QED
      BY <3>2, <3>3
  <2>2. CASE CommitFinish(w)
    <3> DEFINE r == work[w].run
    <3>1. r \in Runs /\ status[r] = "running"
      BY <2>2, WorkType DEF CommitFinish, CommitAllowed, Stepping
    <3>2. /\ status' = [status EXCEPT ![r] = "completed"]
          /\ UNCHANGED <<owner, cursor, kept, unremoved, content>>
      BY <2>2 DEF CommitFinish
    <3> HIDE DEF r
    <3>3. status[r] \notin {"undoing", "undone"} /\ "completed" \notin {"undoing", "undone"}
      BY <3>1
    <3> QED
      BY <3>1, <3>2, <3>3, RemovalStatus
  <2>3. CASE UNCHANGED Removal
    BY <2>3, RemovalStays
  <2>4. \/ CommitPage(w) \/ CommitFinish(w)
        \/ UndoBatch(w) \/ UndoWalked(w) \/ UndoFinish(w)
        \/ PublishFailed(w) \/ UNCHANGED Removal
    BY <1>3
    DEF Goes, Fails, CommitBounds, Committed, CommitRefused, UndoRefused, Release,
        PublishContinue, PublishStopped, PublishDone, PublishTransient,
        PublishRateLimited, StepFails, UndoFails, Crash, row, Removal
  <2> QED
    BY <2>1, <2>2, <2>3, <2>4, RemovalPage, RemovalBatch, RemovalWalked, RemovalFinish
<1>4. CASE Sweep \/ Post \/ UNCHANGED vars
  BY <1>4, RemovalStays DEF Sweep, Post, vars, row, Removal
<1> QED
  BY <1>1, <1>2, <1>3, <1>4 DEF Next

-----------------------------------------------------------------------------
LEMMA SlackAlways == Spec => []SlackInv
<1>1. Init => SlackInv
  <2>1. Init => TypeOK /\ OwnCopy
    BY InitType DEF Init, Idle, OwnCopy, Stepping
  <2>2. Init => CoreInv
    BY SlackNoneAssumption
    DEF Init, CoreInv, OneAtATime, StartsOrdered, OwnersRead, RunningHasRead,
        CompletedStands, UndoIsLast
  <2>3. Init => RemovalInv
    BY SlackNoneAssumption DEF Init, RemovalInv, Imported
  <2> QED
    BY <2>1, <2>2, <2>3 DEF SlackInv
<1>2. SlackInv /\ [Next]_vars => SlackInv'
  BY TypeStep, OwnCopyStep, CoreStep, RemovalStep DEF SlackInv
<1> QED
  BY <1>1, <1>2, PTL DEF Spec

(* Imports and undos are single-flight: whatever is queued, cancelled,     *)
(* swept or late, at most one run is worked on (BLOCKING, slack_import.rs).*)
THEOREM OneAtATimeCorrect == Spec => []OneAtATime
<1>1. SlackInv => OneAtATime
  BY DEF SlackInv, CoreInv
<1> QED
  BY <1>1, SlackAlways, PTL

(* An undone import has left only what it kept, with its record, and what   *)
(* it could not remove, with an issue: the walk of the cursor misses no     *)
(* page, for no step that outlived its lease writes one behind it           *)
(* (SqlStore::commit, Undoer::batch, Undoer::finish).                       *)
THEOREM UndoneCorrect == Spec => []UndoneLeavesNothing
<1>1. SlackInv => UndoneLeavesNothing
  <2> SUFFICES ASSUME SlackInv, NEW r \in Runs, status[r] = "undone"
               PROVE  /\ \A p \in content[r] :
                            p \in unremoved[r] \/ (owner[p] = r /\ p \in kept[r])
                      /\ Imported(r) \subseteq content[r]
    BY DEF UndoneLeavesNothing
  <2> QED
    BY DEF SlackInv, RemovalInv
<1> QED
  BY <1>1, SlackAlways, PTL

(* A completed import stands on everything Slack had when it read, but for *)
(* pages that a run that stopped early, or was undone, left behind newer   *)
(* ones: what it skipped because others had imported it cannot be undone   *)
(* before it (later_overlapping_import, catchup_oldest).                   *)
THEOREM CompletedCorrect == Spec => []CompletedIsWhole
<1>1. SlackInv => CompletedIsWhole
  <2> SUFFICES ASSUME SlackInv, NEW r \in Runs \ DryRuns, status[r] = "completed",
                      NEW p \in 1 .. top[r]
               PROVE  owner[p] # None \/ Overshadowed(p, r)
    BY DEF CompletedIsWhole
  <2>1. Stands(p, r)
    BY DEF SlackInv, CoreInv, CompletedStands
  <2> QED
    BY <2>1, SlackNoneAssumption DEF Stands
<1> QED
  BY <1>1, SlackAlways, PTL
=============================================================================
