---------------------------- MODULE CanaryProofs ----------------------------
(* Proofs about Canary, for any revisions and any number of pushes, runs   *)
(* and evictions.                                                          *)
EXTENDS Canary, SequenceTheorems, TLAPS

(* What the cache holds once entry i is dropped. *)
LEMMA Dropped ==
  ASSUME NEW S, NEW s \in Seq(S), NEW i \in DOMAIN s
  PROVE  LET t == RemoveAt(s, i)
         IN  /\ t \in Seq(S) /\ Len(t) = Len(s) - 1
             /\ \A j \in DOMAIN t : t[j] = IF j < i THEN s[j] ELSE s[j + 1]
<1> DEFINE a == SubSeq(s, 1, i - 1)
           b == SubSeq(s, i + 1, Len(s))
<1>1. Len(s) \in Nat /\ i \in 1 .. Len(s)
  OBVIOUS
<1>2. a \in Seq(S) /\ Len(a) = i - 1 /\ \A j \in 1 .. i - 1 : a[j] = s[j]
  BY <1>1
<1>3. b \in Seq(S) /\ Len(b) = Len(s) - i /\ \A j \in 1 .. Len(s) - i : b[j] = s[j + i]
  BY <1>1
<1> HIDE DEF a, b
<1>4. /\ a \o b \in Seq(S) /\ Len(a \o b) = Len(a) + Len(b)
      /\ \A j \in 1 .. Len(a) + Len(b) :
            (a \o b)[j] = IF j <= Len(a) THEN a[j] ELSE b[j - Len(a)]
  BY <1>2, <1>3, ConcatProperties
<1>5. Len(a \o b) = Len(s) - 1 /\ DOMAIN (a \o b) = 1 .. Len(s) - 1
  BY <1>1, <1>2, <1>3, <1>4
<1>6. ASSUME NEW j \in 1 .. Len(s) - 1
      PROVE  (a \o b)[j] = IF j < i THEN s[j] ELSE s[j + 1]
  <2>1. CASE j < i
    BY <1>1, <1>2, <1>3, <1>4, <2>1
  <2>2. CASE ~(j < i)
    <3>1. (a \o b)[j] = b[j - Len(a)]
      <4>1. j \in 1 .. Len(a) + Len(b) /\ ~(j <= Len(a))
        BY <1>1, <1>2, <1>3, <2>2
      <4> QED
        BY <1>4, <4>1
    <3>2. j - Len(a) \in 1 .. Len(s) - i /\ (j - Len(a)) + i = j + 1
      BY <1>1, <1>2, <2>2
    <3>3. b[j - Len(a)] = s[(j - Len(a)) + i]
      BY <1>3, <3>2
    <3> QED
      BY <2>2, <3>1, <3>2, <3>3
  <2> QED
    BY <2>1, <2>2
<1>7. RemoveAt(s, i) = a \o b
  BY DEF RemoveAt, a, b
<1> QED
  BY <1>4, <1>5, <1>6, <1>7

-----------------------------------------------------------------------------
(* Runs.                                                                   *)
Waiting == [event : Events, self : Self] \union {None}
Spent   == [moves : 0 .. MaxMoves, dispatches : 0 .. MaxDispatches,
            evictions : 0 .. MaxEvictions]

(* The last two parts of IInv: a comment is due from the run in progress   *)
(* only, and without runs by hand no run is told to stop.                  *)
Due == \A k \in Fingerprints : fate[k] = "due" =>
            /\ run.step \in {"save", "drift"} /\ run.suite = "failure" /\ ~run.cancelled
            /\ k = Fingerprint(run.at)

Overtaken == \E k \in Fingerprints : fate[k] = "overtaken"

NightsOnly == spent.dispatches = 0 =>
                /\ run.event = "schedule" /\ ~run.cancelled
                /\ waiting = None
                /\ ~Overtaken

LEMMA IInvParts ==
    IInv <=> TypeOK /\ Keys \subseteq finished /\ RunConsistent /\ Due /\ NightsOnly
  BY DEF IInv, Due, NightsOnly, Overtaken

LEMMA BegunRun ==
  ASSUME NEW event \in Events, NEW self \in Self \union {None}
  PROVE  /\ Begun(event, self) \in Run
         /\ Begun(event, self).step = "fetch" /\ Begun(event, self).suite = "skipped"
         /\ Begun(event, self).event = event /\ Begun(event, self).at.self = self
         /\ ~Begun(event, self).cancelled /\ ~Begun(event, self).hit
  BY DEF Begun, Run

LEMMA EndedRun ==
  ASSUME NEW posted \in {"nothing", "drift", "report", "lost"}
  PROVE  /\ Ended(posted) \in Run
         /\ Ended(posted).step = "over" /\ Ended(posted).suite = "skipped"
         /\ Ended(posted).event = "schedule" /\ ~Ended(posted).cancelled
<1>1. Begun("schedule", None) \in Run
  BY BegunRun DEF Events
<1> QED
  BY <1>1, BegunRun DEF Ended, Run, Events

LEMMA RunFingerprint ==
  ASSUME run.at \in Heads
  PROVE  Fingerprint(run.at) \in Fingerprints
  BY DEF Fingerprints

(* A verdict once given stays, whatever becomes of it. *)
LEMMA VerdictsStay ==
  ASSUME TypeOK, NEW k, NEW what \in Fates \ {"none"}, fate' = [fate EXCEPT ![k] = what]
  PROVE  fate' \in [Fingerprints -> Fates] /\ finished \subseteq finished'
  BY DEF TypeOK, finished

(* A step that leaves the cache alone. *)
LEMMA Quiet ==
  ASSUME IInv, UNCHANGED saved, head' \in Heads, spent' \in Spent,
         run' \in Run, waiting' \in Waiting, RunConsistent',
         fate' \in [Fingerprints -> Fates], finished \subseteq finished',
         Due', NightsOnly'
  PROVE  IInv'
<1>1. TypeOK'
  BY DEF IInv, TypeOK, Entry, Waiting, Spent
<1>2. Keys' \subseteq finished'
  BY DEF IInv, Keys
<1> QED
  BY <1>1, <1>2 DEF IInv, Due, NightsOnly, Overtaken

(* A step of the run that ends it. *)
LEMMA EndIInv ==
  ASSUME IInv, NEW posted \in {"nothing", "drift", "report", "lost"}, EndRun(posted),
         UNCHANGED <<head, saved, spent>>,
         fate' \in [Fingerprints -> Fates], finished \subseteq finished',
         \A k \in Fingerprints : fate'[k] # "due",
         Overtaken' => Overtaken
  PROVE  IInv'
<1>0. /\ waiting \in Waiting /\ head' \in Heads /\ spent' \in Spent
      /\ NightsOnly
  BY IInvParts DEF TypeOK, Waiting, Spent
<1>1. Due'
  BY DEF Due
<1>2. CASE waiting = None
  <2>1. run' = Ended(posted) /\ waiting' = None
    BY <1>2 DEF EndRun
  <2>2. RunConsistent'
    BY <2>1, EndedRun DEF RunConsistent, Active
  <2>3. NightsOnly'
    BY <1>0, <2>1, EndedRun DEF NightsOnly
  <2> QED
    BY <1>0, <1>1, <2>1, <2>2, <2>3, EndedRun, Quiet DEF Waiting
<1>3. CASE waiting # None
  <2>1. run' = Begun(waiting.event, waiting.self) /\ waiting' = None
    BY <1>3 DEF EndRun
  <2>2. waiting.event \in Events /\ waiting.self \in Self
    BY <1>0, <1>3 DEF Waiting
  <2>3. /\ run' \in Run /\ run'.step = "fetch" /\ run'.suite = "skipped"
        /\ run'.at.self \in Self /\ ~run'.hit
    BY <2>1, <2>2, BegunRun
  <2>4. RunConsistent'
    BY <2>3 DEF RunConsistent, Active
  <2>5. NightsOnly'
    BY <1>0, <1>3 DEF NightsOnly
  <2> QED
    BY <1>0, <1>1, <2>1, <2>3, <2>4, <2>5, Quiet DEF Waiting
<1> QED
  BY <1>2, <1>3

(* A step of the run that moves on to another, before there is a verdict.  *)
LEMMA StepIInv ==
  ASSUME IInv, run' \in Run, run.step \notin {"save", "drift"}, RunConsistent',
         run'.event = run.event, run'.cancelled = run.cancelled,
         UNCHANGED <<head, saved, waiting, spent, fate>>
  PROVE  IInv'
<1>1. Due' /\ NightsOnly'
  BY IInvParts DEF Due, NightsOnly, Overtaken
<1>2. /\ head' \in Heads /\ waiting' \in Waiting /\ spent' \in Spent
      /\ fate' \in [Fingerprints -> Fates] /\ finished' = finished
  BY DEF IInv, TypeOK, Waiting, Spent, finished
<1> QED
  BY <1>1, <1>2, Quiet

(* A run is triggered.  By night alone, no run is in progress. *)
LEMMA TriggerIInv ==
  ASSUME IInv, NEW event \in Events, Trigger(event), UNCHANGED <<head, saved>>,
         spent' \in Spent,
         spent'.dispatches = 0 => spent.dispatches = 0 /\ event = "schedule" /\ ~Active
  PROVE  IInv'
<1>1. /\ run \in Run /\ waiting \in Waiting /\ head \in Heads /\ head.self \in Self
      /\ fate \in [Fingerprints -> Fates]
      /\ TypeOK /\ RunConsistent /\ Due /\ NightsOnly
  BY IInvParts DEF TypeOK, Heads, Waiting
<1>2. CASE Active
  <2>1. /\ run' = [run EXCEPT !.cancelled = TRUE]
        /\ waiting' = [event |-> event, self |-> head.self]
        /\ FailureIs("overtaken")
    BY <1>2 DEF Trigger
  <2>2. /\ run' \in Run /\ run'.step = run.step /\ run'.at = run.at
        /\ run'.suite = run.suite /\ run'.hit = run.hit
    BY <1>1, <2>1 DEF Run
  <2>3. waiting' \in Waiting
    BY <1>1, <2>1 DEF Waiting
  <2>4. fate' \in [Fingerprints -> Fates] /\ finished \subseteq finished'
    <3>1. CASE run.suite = "failure"
      BY <1>1, <2>1, <3>1, VerdictsStay DEF FailureIs, Fates
    <3>2. CASE run.suite # "failure"
      BY <1>1, <2>1, <3>2 DEF FailureIs, finished
    <3> QED
      BY <3>1, <3>2
  <2>5. RunConsistent'
    BY <1>1, <1>2, <2>2, <2>4 DEF RunConsistent, CheckedOut, Fingerprint, Active
  <2>6. Due'
    BY <1>1, <2>1 DEF Due, FailureIs
  <2>7. NightsOnly'
    BY <1>2 DEF NightsOnly
  <2> QED
    BY <1>1, <2>2, <2>3, <2>4, <2>5, <2>6, <2>7, Quiet
<1>3. CASE ~Active
  <2>1. run' = Begun(event, head.self) /\ UNCHANGED <<waiting, fate>>
    BY <1>3 DEF Trigger
  <2>2. /\ run' \in Run /\ run'.step = "fetch" /\ run'.suite = "skipped"
        /\ run'.event = event /\ ~run'.cancelled /\ ~run'.hit /\ run'.at.self \in Self
    BY <1>1, <2>1, BegunRun
  <2>3. RunConsistent'
    BY <2>2 DEF RunConsistent, Active
  <2>4. Due'
    BY <1>1, <1>3, <2>1 DEF Due, Active
  <2>5. NightsOnly'
    BY <1>1, <2>1, <2>2 DEF NightsOnly, Overtaken
  <2>6. finished' = finished
    BY <2>1 DEF finished
  <2> QED
    BY <1>1, <2>1, <2>2, <2>3, <2>4, <2>5, <2>6, Quiet
<1> QED
  BY <1>2, <1>3

-----------------------------------------------------------------------------
(* The inductive invariant, action by action.                              *)
LEMMA InitIInv == Init => IInv
<1> SUFFICES ASSUME Init PROVE IInv
  OBVIOUS
<1>1. head \in Heads /\ run = Ended("nothing")
  BY DEF Init
<1>2. run \in Run /\ run.step = "over" /\ run.suite = "skipped"
      /\ run.event = "schedule" /\ ~run.cancelled
  BY <1>1, EndedRun
<1>3. TypeOK
  BY <1>1, <1>2, CanaryAssumption DEF Init, TypeOK, Fates
<1>4. RunConsistent
  BY <1>2 DEF RunConsistent, Active
<1> QED
  BY <1>2, <1>3, <1>4 DEF Init, IInv, Keys

LEMMA MoveIInv ==
  ASSUME IInv, Move
  PROVE  IInv'
<1>1. /\ head' \in Heads /\ spent' = [spent EXCEPT !.moves = @ + 1] /\ spent.moves < MaxMoves
      /\ UNCHANGED <<saved, run, waiting, fate>>
  BY DEF Move
<1>2. spent \in Spent /\ waiting \in Waiting /\ run \in Run
      /\ fate \in [Fingerprints -> Fates]
  BY DEF IInv, TypeOK, Spent, Waiting
<1>3. spent' \in Spent /\ spent'.dispatches = spent.dispatches
  BY <1>1, <1>2, CanaryAssumption DEF Spent
<1>4. finished' = finished
  BY <1>1 DEF finished
<1>5. RunConsistent' /\ Due' /\ NightsOnly'
  BY <1>1, <1>3, <1>4, IInvParts
     DEF RunConsistent, CheckedOut, Active, Fingerprint, Due, NightsOnly, Overtaken
<1> QED
  BY <1>1, <1>2, <1>3, <1>4, <1>5, Quiet

LEMMA ScheduleIInv ==
  ASSUME IInv, Schedule
  PROVE  IInv'
<1>1. Trigger("schedule") /\ UNCHANGED <<head, saved, spent>> /\ "schedule" \in Events
  BY DEF Schedule, Events
<1>2. spent.dispatches = 0 => ~Active
  BY DEF Schedule, IInv
<1>3. spent' \in Spent
  BY <1>1 DEF IInv, TypeOK, Spent
<1> QED
  BY <1>1, <1>2, <1>3, TriggerIInv

LEMMA DispatchIInv ==
  ASSUME IInv, Dispatch
  PROVE  IInv'
<1>1. /\ Trigger("workflow_dispatch") /\ UNCHANGED <<head, saved>>
      /\ "workflow_dispatch" \in Events
      /\ spent.dispatches < MaxDispatches /\ spent' = [spent EXCEPT !.dispatches = @ + 1]
  BY DEF Dispatch, Events
<1>2. spent' \in Spent /\ spent'.dispatches # 0
  BY <1>1, CanaryAssumption DEF IInv, TypeOK, Spent
<1> QED
  BY <1>1, <1>2, TriggerIInv

LEMMA EvictIInv ==
  ASSUME IInv, Evict
  PROVE  IInv'
<1>1. /\ spent.evictions < MaxEvictions /\ spent' = [spent EXCEPT !.evictions = @ + 1]
      /\ UNCHANGED <<head, run, waiting, fate>>
  BY DEF Evict
<1>2. PICK i \in DOMAIN saved : saved' = RemoveAt(saved, i)
  BY DEF Evict
<1>3. saved \in Seq(Entry) /\ DOMAIN saved = 1 .. Len(saved) /\ Len(saved) \in Nat
  BY DEF IInv, TypeOK
<1>4. /\ saved' \in Seq(Entry) /\ Len(saved') = Len(saved) - 1
      /\ \A j \in DOMAIN saved' : saved'[j] = IF j < i THEN saved[j] ELSE saved[j + 1]
  BY <1>2, <1>3, Dropped
<1>5. DOMAIN saved' = 1 .. Len(saved) - 1
  BY <1>3, <1>4
<1> DEFINE old(j) == IF j < i THEN j ELSE j + 1
<1>6. ASSUME NEW j \in DOMAIN saved'
      PROVE  old(j) \in DOMAIN saved /\ saved'[j] = saved[old(j)]
  BY <1>2, <1>3, <1>4, <1>5
<1>7. \A j, k \in DOMAIN saved' : old(j) = old(k) => j = k
  BY <1>2, <1>3, <1>5
<1> HIDE DEF old
<1>8. \A j, k \in DOMAIN saved' : saved'[j].key = saved'[k].key => j = k
  BY <1>6, <1>7 DEF IInv, TypeOK
<1>9. Keys' \subseteq finished'
  BY <1>1, <1>6 DEF IInv, Keys, finished
<1>10. spent' \in Spent /\ spent'.dispatches = spent.dispatches
  BY <1>1, CanaryAssumption DEF IInv, TypeOK, Spent
<1>11. TypeOK'
  BY <1>1, <1>4, <1>8, <1>10 DEF IInv, TypeOK, Spent
<1>12. RunConsistent' /\ Due' /\ NightsOnly'
  BY <1>1, <1>10, IInvParts
     DEF RunConsistent, CheckedOut, Active, Fingerprint, finished, Due, NightsOnly, Overtaken
<1> QED
  BY <1>9, <1>11, <1>12 DEF IInv, Due, NightsOnly, Overtaken

LEMMA CancelledIInv ==
  ASSUME IInv, Cancelled
  PROVE  IInv'
<1>1. EndRun("nothing") /\ UNCHANGED <<head, saved, spent, fate>> /\ run.cancelled
  BY DEF Cancelled
<1>2. fate' \in [Fingerprints -> Fates] /\ finished' = finished /\ (Overtaken' <=> Overtaken)
  BY <1>1 DEF IInv, TypeOK, finished, Overtaken
<1>3. \A k \in Fingerprints : fate'[k] # "due"
  BY <1>1 DEF IInv
<1> QED
  BY <1>1, <1>2, <1>3, EndIInv

LEMMA FetchIInv ==
  ASSUME IInv, Fetch
  PROVE  IInv'
<1>1. /\ run.step = "fetch" /\ run \in Run /\ head \in Heads
      /\ UNCHANGED <<head, saved, waiting, spent, fate>>
  BY DEF Fetch, Continues, IInv, TypeOK
<1>2. CASE run' = [run EXCEPT !.step = "restore", !.at.goog = head.goog, !.at.isrg = head.isrg]
  <2>0. run.at.self \in Self
    BY <1>1 DEF IInv, RunConsistent, Active
  <2>1. /\ run' \in Run /\ run'.step = "restore" /\ run'.at \in Heads
        /\ run'.event = run.event /\ run'.cancelled = run.cancelled
        /\ run'.hit = run.hit
    BY <1>1, <1>2, <2>0 DEF Run, Heads
  <2>2. RunConsistent'
    BY <1>1, <2>1 DEF IInv, RunConsistent, CheckedOut, Active, Heads
  <2> QED
    BY <1>1, <2>1, <2>2, StepIInv
<1>3. CASE run' = [run EXCEPT !.step = "drift"]
  <2>1. /\ run' \in Run /\ run'.step = "drift" /\ run'.at = run.at /\ run'.suite = run.suite
        /\ run'.event = run.event /\ run'.cancelled = run.cancelled
    BY <1>1, <1>3 DEF Run
  <2>2. RunConsistent'
    BY <1>1, <2>1 DEF IInv, RunConsistent, CheckedOut, Active
  <2> QED
    BY <1>1, <2>1, <2>2, StepIInv
<1> QED
  BY <1>2, <1>3 DEF Fetch

LEMMA RestoreIInv ==
  ASSUME IInv, Restore
  PROVE  IInv'
<1> DEFINE prev == CASE Matching # {} -> saved[CHOOSE i \in Matching : TRUE].tested
                     [] Matching = {} /\ saved # <<>> -> Last(saved).tested
                     [] saved = <<>> -> None
<1>1. /\ run.step = "restore" /\ run \in Run /\ run.at \in Heads
      /\ \/ run' = [run EXCEPT !.step = "gate", !.hit = Matching # {}, !.prev = prev]
         \/ run' = [run EXCEPT !.step = "gate"]
      /\ UNCHANGED <<head, saved, waiting, spent, fate>>
      /\ saved \in Seq(Entry)
  BY DEF Restore, Continues, IInv, TypeOK, RunConsistent, CheckedOut
<1>2. ASSUME NEW i \in DOMAIN saved
      PROVE  saved[i].tested \in Tested
  <2>1. saved[i] \in Entry
    BY <1>1
  <2> QED
    BY <2>1 DEF Entry
<1>3. prev \in Tested \union {None}
  <2>1. CASE Matching # {}
    <3>1. (CHOOSE i \in Matching : TRUE) \in DOMAIN saved
      BY <2>1 DEF Matching
    <3>2. Matching = {} \/ saved[CHOOSE i \in Matching : TRUE].tested \in Tested
      BY <1>2, <3>1
    <3>3. saved # <<>>
      BY <3>1
    <3> QED
      BY <2>1, <3>2, <3>3
  <2>2. CASE Matching = {} /\ saved # <<>>
    <3>1. Len(saved) \in DOMAIN saved
      BY <1>1, <2>2
    <3>2. Last(saved).tested \in Tested
      BY <1>2, <3>1 DEF Last
    <3> QED
      BY <2>2, <3>2
  <2>3. CASE saved = <<>>
    <3>1. Matching = {}
      BY <2>3 DEF Matching
    <3> QED
      BY <2>3, <3>1
  <2> QED
    BY <2>1, <2>2, <2>3
<1> HIDE DEF prev
<1>4. /\ run' \in Run /\ run'.step = "gate" /\ run'.at = run.at /\ run'.suite = run.suite
      /\ run'.event = run.event /\ run'.cancelled = run.cancelled
      /\ run'.hit => Matching # {} \/ run.hit
  <2>1. (Matching # {}) \in BOOLEAN
    OBVIOUS
  <2>2. CASE run' = [run EXCEPT !.step = "gate", !.hit = Matching # {}, !.prev = prev]
    BY <1>1, <1>3, <2>1, <2>2 DEF Run
  <2>3. CASE run' = [run EXCEPT !.step = "gate"]
    BY <1>1, <2>3 DEF Run
  <2> QED
    BY <1>1, <2>2, <2>3
<1>5. run'.hit => Fingerprint(run.at) \in finished
  <2>1. ASSUME Matching # {}
        PROVE  Fingerprint(run.at) \in finished
    <3>1. PICK i \in DOMAIN saved : saved[i].key = Fingerprint(run.at)
      BY <2>1 DEF Matching
    <3> QED
      BY <3>1 DEF IInv, Keys
  <2>2. ~run.hit
    BY <1>1 DEF IInv, RunConsistent
  <2> QED
    BY <1>4, <2>1, <2>2
<1>6. finished' = finished /\ run.at.self \in Self
  BY <1>1 DEF finished, Heads
<1>7. RunConsistent'
  BY <1>1, <1>4, <1>5, <1>6 DEF RunConsistent, CheckedOut, Active, Fingerprint
<1> QED
  BY <1>1, <1>4, <1>7, StepIInv

LEMMA GateIInv ==
  ASSUME IInv, Gate
  PROVE  IInv'
<1>1. /\ run.step = "gate" /\ run \in Run /\ run.at \in Heads
      /\ run.hit => Fingerprint(run.at) \in finished
      /\ UNCHANGED <<head, saved, waiting, spent, fate>>
  BY DEF Gate, Continues, IInv, TypeOK, RunConsistent, CheckedOut
<1>2. /\ run' \in Run /\ run'.step \in {"build", "skip"} /\ (run'.step = "skip" => run.hit)
      /\ run'.at = run.at /\ run'.suite = run.suite /\ run'.hit = run.hit
      /\ run'.event = run.event /\ run'.cancelled = run.cancelled
  BY <1>1 DEF Gate, Run
<1>3. finished' = finished /\ run.at.self \in Self
  BY <1>1 DEF finished, Heads
<1>4. RunConsistent'
  BY <1>1, <1>2, <1>3 DEF RunConsistent, CheckedOut, Active, Fingerprint
<1> QED
  BY <1>1, <1>2, <1>4, StepIInv

LEMMA AlreadyTestedIInv ==
  ASSUME IInv, AlreadyTested
  PROVE  IInv'
<1>1. /\ EndRun("nothing") /\ UNCHANGED <<head, saved, spent, fate>>
      /\ run.step = "skip"
  BY DEF AlreadyTested, Continues
<1>2. fate' \in [Fingerprints -> Fates] /\ finished' = finished /\ (Overtaken' <=> Overtaken)
  BY <1>1 DEF IInv, TypeOK, finished, Overtaken
<1>3. \A k \in Fingerprints : fate'[k] # "due"
  BY <1>1 DEF IInv
<1> QED
  BY <1>1, <1>2, <1>3, EndIInv

LEMMA BuildIInv ==
  ASSUME IInv, Build
  PROVE  IInv'
<1>1. /\ run.step = "build" /\ run \in Run /\ run.at \in Heads
      /\ UNCHANGED <<head, saved, waiting, spent, fate>>
  BY DEF Build, Continues, IInv, TypeOK, RunConsistent, CheckedOut
<1>2. /\ run' \in Run /\ run'.step \in {"suite", "drift"} /\ run'.at = run.at
      /\ run'.event = run.event /\ run'.cancelled = run.cancelled
  BY <1>1 DEF Build, Run
<1>3. RunConsistent'
  BY <1>1, <1>2 DEF RunConsistent, CheckedOut, Active, Heads
<1> QED
  BY <1>1, <1>2, <1>3, StepIInv

LEMMA SuiteIInv ==
  ASSUME IInv, Suite
  PROVE  IInv'
<1> DEFINE k == Fingerprint(run.at)
<1>1. /\ run.step = "suite" /\ ~run.cancelled /\ run \in Run /\ run.at \in Heads
      /\ UNCHANGED <<head, saved, waiting, spent>>
      /\ TypeOK /\ NightsOnly
  BY IInvParts DEF Suite, Continues, TypeOK, RunConsistent, CheckedOut
<1>2. PICK verdict \in {"success", "failure"} :
        /\ run' = [run EXCEPT !.step = "save", !.suite = verdict]
        /\ fate' = [fate EXCEPT ![k] = IF verdict = "failure" THEN "due" ELSE "known"]
  BY DEF Suite
<1>3. /\ run' \in Run /\ run'.step = "save" /\ run'.suite = verdict /\ run'.at = run.at
      /\ run'.event = run.event /\ run'.cancelled = run.cancelled
  BY <1>1, <1>2 DEF Run
<1>4. k \in Fingerprints /\ Fingerprint(run'.at) = k /\ run.at.self \in Self
  BY <1>1, <1>3, RunFingerprint DEF Heads
<1> HIDE DEF k
<1>5. fate' \in [Fingerprints -> Fates] /\ finished \subseteq finished'
  BY <1>1, <1>2, VerdictsStay DEF Fates
<1>6. k \in finished'
  BY <1>1, <1>2, <1>4 DEF finished, TypeOK
<1>7. \A j \in Fingerprints : fate'[j] = "due" => verdict = "failure" /\ j = k
  BY <1>1, <1>2, <1>4 DEF IInv, TypeOK
<1>8. Due'
  BY <1>1, <1>3, <1>4, <1>7 DEF Due
<1>9. Overtaken' => Overtaken
  BY <1>1, <1>2, <1>4 DEF Overtaken, TypeOK
<1>10. NightsOnly'
  BY <1>1, <1>3, <1>9 DEF NightsOnly
<1>11. RunConsistent'
  BY <1>1, <1>3, <1>4, <1>6 DEF RunConsistent, CheckedOut, Active
<1>12. head' \in Heads /\ spent' \in Spent /\ waiting' \in Waiting
  BY <1>1 DEF TypeOK, Spent, Waiting
<1> QED
  BY <1>1, <1>3, <1>5, <1>8, <1>10, <1>11, <1>12, Quiet

LEMMA SaveIInv ==
  ASSUME IInv, Save
  PROVE  IInv'
<1>1. /\ run.step = "save" /\ run \in Run /\ run.at \in Heads /\ run.suite # "skipped"
      /\ Fingerprint(run.at) \in finished
      /\ UNCHANGED <<head, waiting, spent, fate>>
      /\ saved \in Seq(Entry) /\ DOMAIN saved = 1 .. Len(saved) /\ Len(saved) \in Nat
  BY DEF Save, IInv, TypeOK, RunConsistent, CheckedOut
<1>2. run' = [run EXCEPT !.step = NextReport]
  BY DEF Save
<1>3. /\ run' \in Run /\ run'.step = NextReport /\ run'.at = run.at /\ run'.suite = run.suite
      /\ run'.event = run.event /\ run'.cancelled = run.cancelled
  BY <1>1, <1>2 DEF Run, NextReport
<1>4. Due' /\ NightsOnly' /\ finished' = finished
  BY <1>1, <1>3, IInvParts
     DEF Due, NightsOnly, Overtaken, finished, NextReport, Fingerprint
<1>5. RunConsistent'
  BY <1>1, <1>3 DEF RunConsistent, CheckedOut, Active, NextReport, Heads
<1>6. NewEntry \in Entry /\ NewEntry.key = Fingerprint(run.at)
  BY <1>1 DEF NewEntry, Entry, Fingerprints, TestedAt, Tested, Heads
<1>7. /\ saved' \in Seq(Entry) /\ Keys' \subseteq finished'
      /\ \A i, j \in DOMAIN saved' : saved'[i].key = saved'[j].key => i = j
  <2>1. CASE saved' = saved
    BY <1>1, <1>4, <2>1 DEF IInv, TypeOK, Keys
  <2>2. CASE saved' = Append(saved, NewEntry) /\ NewEntry.key \notin Keys
    <3>1. /\ saved' \in Seq(Entry) /\ Len(saved') = Len(saved) + 1
          /\ DOMAIN saved' = 1 .. Len(saved) + 1
      BY <1>1, <1>6, <2>2
    <3>2. /\ saved'[Len(saved) + 1] = NewEntry
          /\ \A i \in 1 .. Len(saved) : saved'[i] = saved[i]
      BY <1>1, <1>6, <2>2
    <3>3. Keys' \subseteq finished'
      BY <1>1, <1>4, <1>6, <3>1, <3>2 DEF IInv, Keys
    <3>4. ASSUME NEW i \in DOMAIN saved', NEW j \in DOMAIN saved', saved'[i].key = saved'[j].key
          PROVE  i = j
      BY <1>1, <2>2, <3>1, <3>2, <3>4 DEF IInv, TypeOK, Keys
    <3> QED
      BY <3>1, <3>3, <3>4
  <2> QED
    BY <2>1, <2>2 DEF Save, Saved
<1>8. TypeOK'
  BY <1>1, <1>3, <1>7 DEF IInv, TypeOK
<1> QED
  BY <1>4, <1>5, <1>7, <1>8 DEF IInv, Due, NightsOnly, Overtaken

LEMMA PostIInv ==
  ASSUME IInv, Post
  PROVE  IInv'
<1>1. /\ run.step \in {"drift", "report"} /\ run \in Run /\ TypeOK
      /\ UNCHANGED <<head, saved, spent>>
  BY DEF Post, Continues, IInv, TypeOK
<1>2. PICK posted \in {run.step, "lost"} :
        /\ EndRun(posted)
        /\ IF run.step = "drift"
           THEN FailureIs(IF posted = "lost" THEN "lost" ELSE "known")
           ELSE UNCHANGED fate
  BY DEF Post
<1>3. \/ UNCHANGED fate /\ (run.step = "report" \/ run.suite # "failure")
      \/ /\ run.suite = "failure"
         /\ \E what \in {"lost", "known"} : fate' = [fate EXCEPT ![Fingerprint(run.at)] = what]
  BY <1>1, <1>2 DEF FailureIs
<1>4. CASE UNCHANGED fate /\ (run.step = "report" \/ run.suite # "failure")
  <2>1. fate' \in [Fingerprints -> Fates] /\ finished' = finished /\ (Overtaken' <=> Overtaken)
    BY <1>1, <1>4 DEF TypeOK, finished, Overtaken
  <2>2. \A k \in Fingerprints : fate'[k] # "due"
    BY <1>4 DEF IInv
  <2> QED
    BY <1>1, <1>2, <2>1, <2>2, EndIInv
<1>5. CASE run.suite = "failure"
           /\ \E what \in {"lost", "known"} : fate' = [fate EXCEPT ![Fingerprint(run.at)] = what]
  <2>1. PICK what \in {"lost", "known"} : fate' = [fate EXCEPT ![Fingerprint(run.at)] = what]
    BY <1>5
  <2>2. fate' \in [Fingerprints -> Fates] /\ finished \subseteq finished'
    BY <1>1, <2>1, VerdictsStay DEF Fates
  <2>3. \A k \in Fingerprints : fate'[k] # "due"
    BY <1>1, <2>1 DEF IInv, TypeOK
  <2>4. Overtaken' => Overtaken
    BY <1>1, <2>1 DEF Overtaken, TypeOK
  <2> QED
    BY <1>1, <1>2, <2>2, <2>3, <2>4, EndIInv
<1> QED
  BY <1>3, <1>4, <1>5

LEMMA NextIInv == IInv /\ [Next]_vars => IInv'
<1> SUFFICES ASSUME IInv, [Next]_vars PROVE IInv'
  OBVIOUS
<1>1. CASE UNCHANGED vars
  BY <1>1 DEF vars, IInv, TypeOK, Keys, finished, RunConsistent, CheckedOut, Active, Fingerprint
<1> QED
  BY <1>1, MoveIInv, ScheduleIInv, DispatchIInv, EvictIInv, CancelledIInv, FetchIInv,
     RestoreIInv, GateIInv, AlreadyTestedIInv, BuildIInv, SuiteIInv, SaveIInv, PostIInv
  DEF Next, Continue

(* What a run knows of the state it checked out, and the cache of those    *)
(* that have a verdict, however runs overlap and entries are dropped       *)
(* (canary.yml:63-149).                                                    *)
THEOREM Invariance == Spec => []IInv
  BY InitIInv, NextIInv, PTL DEF Spec

(* Every variable keeps its type, and the cache holds one entry for a key. *)
THEOREM TypeCorrect == Spec => []TypeOK
<1>1. IInv => TypeOK
  BY DEF IInv
<1> QED
  BY <1>1, Invariance, PTL

(* A night is skipped only for a state the suite has given a verdict on    *)
(* (SkipsOnlyTested).                                                      *)
THEOREM SkipsCorrect == Spec => []SkipsOnlyTested
<1>1. IInv => SkipsOnlyTested
  BY DEF IInv, RunConsistent, SkipsOnlyTested
<1> QED
  BY <1>1, Invariance, PTL

(* A skipped night passes over no failure whose report was never tried,    *)
(* unless there have been runs by hand, one of which overtook the run that *)
(* found it (SilencedFailuresAreReported).                                 *)
THEOREM ReportsCorrect == Spec => []SilencedFailuresAreReported
<1>1. IInv => SilencedFailuresAreReported
  <2> SUFFICES ASSUME IInv, run.step = "skip"
               PROVE  /\ fate[Fingerprint(run.at)] # "due"
                      /\ fate[Fingerprint(run.at)] = "overtaken" => spent.dispatches > 0
    BY DEF SilencedFailuresAreReported
  <2>1. Fingerprint(run.at) \in Fingerprints /\ spent.dispatches \in Nat
    BY RunFingerprint, CanaryAssumption DEF IInv, RunConsistent, CheckedOut, TypeOK
  <2> QED
    BY <2>1 DEF IInv
<1> QED
  BY <1>1, Invariance, PTL
=============================================================================
