------------------------------- MODULE Canary -------------------------------
(***************************************************************************)
(* The nightly canary (.github/workflows/canary.yml): it builds this       *)
(* repository against the heads of both upstreams, runs the suite, and     *)
(* remembers in the actions cache, under a fingerprint of the watched      *)
(* paths, that this state has been tested.  Runs are serialised by the     *)
(* concurrency group; a run that is triggered during another cancels it,   *)
(* and of a cancelled run only the always() steps are still taken.         *)
(*                                                                         *)
(* The scheduler, the cache and the issue tracker are external.            *)
(***************************************************************************)
EXTENDS Naturals, Sequences, SequencesExt, FiniteSets

CONSTANTS
    Goog, Isrg, Self,   \* revisions of the two upstreams and of this repository
    Watched,            \* Watched[r]: the contents of r's watched paths
    None,               \* no value
    MaxMoves,           \* bound on how often a head moves
    MaxDispatches,      \* bound on runs started by hand
    MaxEvictions        \* bound on entries the cache drops

ASSUME CanaryAssumption ==
    /\ None \notin Goog \union Isrg \union Self
    /\ DOMAIN Watched = Goog \union Isrg \union Self
    /\ {MaxMoves, MaxDispatches, MaxEvictions} \subseteq Nat

VARIABLES
    head,       \* the three branches' heads
    saved,      \* the cache's entries, oldest first
    run,        \* the run in progress, or what is left of the last one
    waiting,    \* the run that waits for `run` to be cancelled, or None
    spent,      \* how much of each bound is used up
    fate        \* auxiliary: fate[k]: what became of the latest verdict on k

vars == <<head, saved, run, waiting, spent, fate>>

Heads  == [goog : Goog, isrg : Isrg, self : Self]
Events == {"schedule", "workflow_dispatch"}

(* What canary-tested.txt keeps (its self line is never read back). *)
Tested == [goog : Goog, isrg : Isrg]

TestedAt(h) == [goog |-> h.goog, isrg |-> h.isrg]

Fingerprint(h) == <<Watched[h.goog], Watched[h.isrg], Watched[h.self]>>
Fingerprints   == {Fingerprint(h) : h \in Heads}

Entry == [key : Fingerprints, tested : Tested]
Keys  == {saved[i].key : i \in DOMAIN saved}

(* Of a fingerprint: no verdict yet; it passed, or its failure was posted; *)
(* it failed and a comment is due; that comment could not be posted; or    *)
(* the run that found the failure was told to stop before it posted.       *)
Fates == {"none", "known", "due", "lost", "overtaken"}

(* The fingerprints whose suite has ended in a verdict. *)
finished == {k \in Fingerprints : fate[k] # "none"}

(* A run: the step it is about to take; what it was started for; what it   *)
(* checked out; the previous tested state; how the suite ended; whether it *)
(* has been told to stop; and what became of its report.                   *)
Run == [step : {"over", "fetch", "restore", "gate", "skip", "build", "suite",
                "save", "drift", "report"},
        event : Events,
        at : [goog : Goog \union {None}, isrg : Isrg \union {None}, self : Self \union {None}],
        hit : BOOLEAN, prev : Tested \union {None},
        suite : {"skipped", "success", "failure"},
        cancelled : BOOLEAN, posted : {"nothing", "drift", "report", "lost"}]

TypeOK ==
    /\ head \in Heads
    /\ saved \in Seq(Entry)
    /\ \A i, j \in DOMAIN saved : saved[i].key = saved[j].key => i = j
    /\ run \in Run
    /\ waiting \in [event : Events, self : Self] \union {None}
    /\ spent \in [moves : 0 .. MaxMoves, dispatches : 0 .. MaxDispatches,
                  evictions : 0 .. MaxEvictions]
    /\ fate \in [Fingerprints -> Fates]

Begun(event, self) ==
    [step |-> "fetch", event |-> event,
     at |-> [goog |-> None, isrg |-> None, self |-> self],
     hit |-> FALSE, prev |-> None, suite |-> "skipped", cancelled |-> FALSE,
     posted |-> "nothing"]

(* Of a run that is over nothing is left but its comment. *)
Ended(posted) ==
    [Begun("schedule", None) EXCEPT !.step = "over", !.posted = posted]

Init ==
    /\ head \in Heads
    /\ saved = <<>>
    /\ run = Ended("nothing")
    /\ waiting = None
    /\ spent = [moves |-> 0, dispatches |-> 0, evictions |-> 0]
    /\ fate = [k \in Fingerprints |-> "none"]

Active == run.step # "over"

-----------------------------------------------------------------------------
(* Someone pushes to one of the three repositories; a revert goes back to  *)
(* an earlier revision.                                                    *)
Move ==
    /\ spent.moves < MaxMoves
    /\ head' \in Heads \ {head}
    /\ Cardinality({r \in DOMAIN head : head'[r] # head[r]}) = 1
    /\ spent' = [spent EXCEPT !.moves = @ + 1]
    /\ UNCHANGED <<saved, run, waiting, fate>>

(* What becomes of the failure that this run's suite found, if it did. *)
FailureIs(what) ==
    fate' = IF run.suite = "failure"
            THEN [fate EXCEPT ![Fingerprint(run.at)] = what]
            ELSE fate

(* The concurrency group with cancel-in-progress: at most one run, and at  *)
(* most one waiting for it to stop, which a later one replaces.            *)
Trigger(event) ==
    IF Active
    THEN /\ run' = [run EXCEPT !.cancelled = TRUE]
         /\ waiting' = [event |-> event, self |-> head.self]
         /\ FailureIs("overtaken")
    ELSE /\ run' = Begun(event, head.self)
         /\ UNCHANGED <<waiting, fate>>

(* Once a day, and a job is stopped long before it has run for a day.      *)
Schedule ==
    /\ Active => run.event # "schedule"
    /\ waiting # None => waiting.event # "schedule"
    /\ Trigger("schedule")
    /\ UNCHANGED <<head, saved, spent>>

Dispatch ==
    /\ spent.dispatches < MaxDispatches
    /\ Trigger("workflow_dispatch")
    /\ spent' = [spent EXCEPT !.dispatches = @ + 1]
    /\ UNCHANGED <<head, saved>>

(* The cache drops entries that are old or for want of space. *)
Evict ==
    /\ spent.evictions < MaxEvictions
    /\ \E i \in DOMAIN saved : saved' = RemoveAt(saved, i)
    /\ spent' = [spent EXCEPT !.evictions = @ + 1]
    /\ UNCHANGED <<head, run, waiting, fate>>

-----------------------------------------------------------------------------
(* The run ends, and a run that waited for it begins. *)
EndRun(posted) ==
    IF waiting = None
    THEN /\ run' = Ended(posted)
         /\ UNCHANGED waiting
    ELSE /\ run' = Begun(waiting.event, waiting.self)
         /\ waiting' = None

Continues(step) == run.step = step /\ ~run.cancelled

(* Of a cancelled run, the steps whose condition is not always() are       *)
(* skipped.                                                                *)
Cancelled ==
    /\ Active /\ run.cancelled /\ run.step # "save"
    /\ EndRun("nothing")
    /\ UNCHANGED <<head, saved, spent, fate>>

(* Check out this repository at the trigger's commit, both upstreams at    *)
(* the head they have by now.                                              *)
Fetch ==
    /\ Continues("fetch")
    /\ \/ run' = [run EXCEPT !.step = "restore",
                             !.at.goog = head.goog, !.at.isrg = head.isrg]
       \/ run' = [run EXCEPT !.step = "drift"]
    /\ UNCHANGED <<head, saved, waiting, spent, fate>>

(* The cache's answer: the entry of this very key, or else the newest      *)
(* entry of any state (restore-keys), which is no hit.  A cache that does  *)
(* not answer is a miss.                                                   *)
Matching == {i \in DOMAIN saved : saved[i].key = Fingerprint(run.at)}

(* Fault: keep the entry instead of the two revisions in it. *)
Restore_KeepsEntry ==
    /\ Continues("restore")
    /\ run' = [run EXCEPT
            !.step = "gate", !.hit = Matching # {},
            !.prev = IF saved = <<>> THEN None ELSE Last(saved)]
    /\ UNCHANGED <<head, saved, waiting, spent, fate>>

Restore ==
    /\ Continues("restore")
    /\ \/ run' = [run EXCEPT
            !.step = "gate", !.hit = Matching # {},
            !.prev = CASE Matching # {} -> saved[CHOOSE i \in Matching : TRUE].tested
                       [] Matching = {} /\ saved # <<>> -> Last(saved).tested
                       [] saved = <<>> -> None]
       \/ run' = [run EXCEPT !.step = "gate"]
    /\ UNCHANGED <<head, saved, waiting, spent, fate>>

(* Fault: take any restored file for a hit. *)
Gate_AnyFile ==
    /\ Continues("gate")
    /\ run' = [run EXCEPT !.step =
            IF run.event = "workflow_dispatch" \/ run.prev = None
            THEN "build" ELSE "skip"]
    /\ UNCHANGED <<head, saved, waiting, spent, fate>>

Gate ==
    /\ Continues("gate")
    /\ run' = [run EXCEPT !.step =
            IF run.event = "workflow_dispatch" \/ ~run.hit THEN "build" ELSE "skip"]
    /\ UNCHANGED <<head, saved, waiting, spent, fate>>

AlreadyTested ==
    /\ Continues("skip")
    /\ EndRun("nothing")
    /\ UNCHANGED <<head, saved, spent, fate>>

(* Fault: a failed build goes on to be recorded. *)
Build_Recorded ==
    /\ Continues("build")
    /\ \E step \in {"suite", "save"} : run' = [run EXCEPT !.step = step]
    /\ UNCHANGED <<head, saved, waiting, spent, fate>>

(* Dependencies, toolchains and both backends; every failure is alike.     *)
Build ==
    /\ Continues("build")
    /\ \E step \in {"suite", "drift"} : run' = [run EXCEPT !.step = step]
    /\ UNCHANGED <<head, saved, waiting, spent, fate>>

Suite ==
    /\ Continues("suite")
    /\ \E verdict \in {"success", "failure"} :
        /\ run' = [run EXCEPT !.step = "save", !.suite = verdict]
        /\ fate' = [fate EXCEPT ![Fingerprint(run.at)] =
                        IF verdict = "failure" THEN "due" ELSE "known"]
    /\ UNCHANGED <<head, saved, waiting, spent>>

(* Record and save the tested state, whatever the verdict and also when    *)
(* cancelled.  The cache keeps the entry it has for a key, and a save that *)
(* fails does not fail the run.                                            *)
NewEntry == [key |-> Fingerprint(run.at), tested |-> TestedAt(run.at)]

Saved == IF NewEntry.key \in Keys THEN saved ELSE Append(saved, NewEntry)

(* Fault: the suite's failure does not fail the job (continue-on-error). *)
NextReport_ContinueOnError == "report"

NextReport == IF run.suite = "failure" THEN "drift" ELSE "report"

Save ==
    /\ run.step = "save"
    /\ saved' \in {Saved, saved}
    /\ run' = [run EXCEPT !.step = NextReport]
    /\ UNCHANGED <<head, waiting, spent, fate>>

(* Report drift when a step has failed, Report run when none has. *)
Post ==
    /\ Continues("drift") \/ Continues("report")
    /\ \E posted \in {run.step, "lost"} :
        /\ EndRun(posted)
        /\ IF run.step = "drift"
           THEN FailureIs(IF posted = "lost" THEN "lost" ELSE "known")
           ELSE UNCHANGED fate
    /\ UNCHANGED <<head, saved, spent>>

Continue ==
    \/ Cancelled \/ Fetch \/ Restore \/ Gate \/ AlreadyTested
    \/ Build \/ Suite \/ Save \/ Post

Next == Move \/ Schedule \/ Dispatch \/ Evict \/ Continue

Spec == Init /\ [][Next]_vars

(* Nights come, and runners carry on with the run they have. *)
Fairness == WF_vars(Schedule) /\ WF_vars(Continue)

FairSpec == Spec /\ Fairness

-----------------------------------------------------------------------------
(* A night is skipped only for a state whose watched paths the suite has   *)
(* already given a verdict on - not for one whose build failed, that was   *)
(* cancelled, or that merely resembles one (canary.yml:63-69, 86-93,       *)
(* 134-149).                                                               *)
SkipsOnlyTested ==
    run.step = "skip" => Fingerprint(run.at) \in finished

(* A night that is skipped passes over no failure in silence: if the       *)
(* latest verdict on its state was a failure, a comment was posted or      *)
(* tried - unless a run started by hand overtook the run that found it,    *)
(* which then records the failure and never reports it.  Nights alone      *)
(* cannot: none begins before the last is over (canary.yml:3-6, 12-14,     *)
(* 134-152).                                                               *)
SilencedFailuresAreReported ==
    run.step = "skip" =>
        /\ fate[Fingerprint(run.at)] # "due"
        /\ fate[Fingerprint(run.at)] = "overtaken" => spent.dispatches > 0

(* Why: entries are of states that have a verdict, a run that hits one is  *)
(* about its state, a report is due only from the run that found the       *)
(* failure and has not been told to stop, and without runs by hand none    *)
(* ever is.  The inductive form of the two above.                          *)
CheckedOut == run.at \in Heads

RunConsistent ==
    /\ Active => run.at.self \in Self
    /\ run.step \in {"restore", "gate", "skip", "build", "suite", "save"} => CheckedOut
    /\ run.suite # "skipped" => CheckedOut
    /\ run.step \in {"fetch", "restore"} => ~run.hit
    /\ run.step \in {"gate", "skip"} /\ run.hit => Fingerprint(run.at) \in finished
    /\ run.step = "skip" => run.hit
    /\ run.step = "save" => run.suite # "skipped" /\ Fingerprint(run.at) \in finished

IInv ==
    /\ TypeOK
    /\ Keys \subseteq finished
    /\ RunConsistent
    /\ \A k \in Fingerprints : fate[k] = "due" =>
        /\ run.step \in {"save", "drift"} /\ run.suite = "failure" /\ ~run.cancelled
        /\ k = Fingerprint(run.at)
    /\ spent.dispatches = 0 =>
        /\ run.event = "schedule" /\ ~run.cancelled
        /\ waiting = None
        /\ \A k \in Fingerprints : fate[k] # "overtaken"

(* Whatever is pushed is, unless more is pushed, eventually given a        *)
(* verdict, or else a run that could not get that far tries to say so      *)
(* (canary.yml:3-6, 86-89, 151-152).                                       *)
PushesAreAnswered ==
    \A k \in Fingerprints :
        Fingerprint(head) = k ~>
            \/ k \in finished
            \/ run.posted \in {"drift", "lost"}
            \/ Fingerprint(head) # k
=============================================================================
