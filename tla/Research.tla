------------------------------- MODULE Research -------------------------------
(***************************************************************************)
(* The four research tools of the analyzer: analyzer-sweep,                *)
(* analyzer-cost-ladder, analyzer-execution and analyzer-confirm.  Each    *)
(* loads a data set per symbol, computes from them (Screening), and writes *)
(* its three artifacts one after the other.  A tool may die between any    *)
(* two steps and be run again over what it left; loads, evaluations and    *)
(* writes may fail; and while a confirmation runs somebody may edit the    *)
(* lock file or the files it freezes.                                      *)
(*                                                                         *)
(* A phase that touches only the tool's own memory is one step.  There is  *)
(* one timeframe: the sweep treats each of them alike and on its own.      *)
(***************************************************************************)
EXTENDS Screening

CONSTANTS
  None, Torn,
  Data,            \* the histories the candidates may have on the symbols
  Lock, LockEdits, \* the lock as committed, and what it may be edited to
  Sources,         \* contents of the frozen files, as the hash sees them
  MaxRuns,         \* bound: runs of the tool
  MaxFaults,       \* bound: failed loads, evaluations and writes, and deaths
  MaxEdits         \* bound: edits of the lock and of the frozen files

ASSUME ResearchAssumption ==
  /\ \A d \in Data : DOMAIN d = Candidates /\ \A c \in Candidates : DOMAIN d[c] = Symbols
  /\ \A d \in Data, c \in Candidates, s \in Symbols :
       /\ d[c][s] \subseteq Trades
       /\ \A t \in d[c][s] : t.at < t.exit
       /\ \A t, o \in d[c][s] : t # o => t.exit # o.exit
  /\ \A l \in LockEdits \cup {Lock} :
       /\ l.candidate \in Candidates /\ l.symbols \subseteq Symbols
       /\ l.trades \in Nat /\ l.wins \in Nat /\ l.hash \in Sources
  /\ {MaxRuns, MaxFaults, MaxEdits} \subseteq Nat

VARIABLES
  tool,      \* which tool it is
  data,      \* the history of each candidate on each symbol
  pc,        \* the tool's next phase, "done", or "failed" when it ended without success
  loaded,    \* the symbols whose data set was loaded
  outcomes,  \* the sweep's outcome of each candidate it could evaluate
  winners,   \* the sweep's selection
  errors,    \* the errors the sweep recorded
  lock,      \* the lock as the confirmation parsed it
  lockFile, source,  \* the lock and the frozen files, on disk
  results,   \* what the artifacts are to say
  files,     \* what each artifact says
  runs, faults, edits

vars == <<tool, data, pc, loaded, outcomes, winners, errors, lock, lockFile, source,
          results, files, runs, faults, edits>>

memory == <<loaded, outcomes, winners, errors, lock, results>>
disk == <<lockFile, source, edits>>
kept == <<tool, data, runs>>

Tools == {"sweep", "ladder", "execution", "confirm"}
Artifacts == <<"csv", "json", "report">>
Artifact == {"csv", "json", "report"}

FirstPhase == IF tool = "confirm" THEN "digest" ELSE "load"

Forget ==
  /\ loaded' = {} /\ outcomes' = <<>> /\ winners' = <<>> /\ errors' = {}
  /\ lock' = None /\ results' = None

Init ==
  /\ tool \in Tools
  /\ data \in Data
  /\ pc = FirstPhase
  /\ loaded = {} /\ outcomes = <<>> /\ winners = <<>> /\ errors = {}
  /\ lock = None /\ lockFile = Lock /\ source = Lock.hash
  /\ results = None /\ files = [f \in Artifact |-> None]
  /\ runs = 1 /\ faults = 0 /\ edits = 0

\* Up to the bound, a set of the things attempted that fail.
Failing(things) == {bad \in SUBSET things : faults + Cardinality(bad) <= MaxFaults}

Spend(bad) == faults' = faults + Cardinality(bad)

Fail ==
  /\ faults < MaxFaults /\ faults' = faults + 1
  /\ pc' = "failed"

-----------------------------------------------------------------------------
(* analyzer-sweep *)

LoadSymbols ==
  /\ tool = "sweep" /\ pc = "load"
  /\ \E bad \in Failing(Symbols) :
       /\ loaded' = Symbols \ bad
       /\ errors' = {<<"load", s>> : s \in bad}
       /\ Spend(bad)
  /\ pc' = "score"
  /\ UNCHANGED <<outcomes, winners, lock, results, files, kept, disk>>

\* The first pass scores every candidate without the holdout.
ScoreCandidates ==
  /\ pc = "score"
  /\ \E bad \in Failing(IF loaded = {} THEN {} ELSE Candidates) :
       /\ outcomes' = [c \in IF loaded = {} THEN {} ELSE Candidates \ bad |->
                         Outcome(data[c], loaded, FALSE)]
       /\ errors' = errors \cup {<<"score", c>> : c \in bad}
       /\ Spend(bad)
  /\ pc' = "rank"
  /\ UNCHANGED <<loaded, winners, lock, results, files, kept, disk>>

RankCandidates ==
  /\ pc = "rank"
  /\ winners' = Winners(outcomes)
  /\ pc' = "frozen"
  /\ UNCHANGED <<loaded, outcomes, errors, lock, results, files, faults, kept, disk>>

\* The baseline and the winners are scored again, with the holdout; an outcome
\* replaces the one of the first pass, and an error leaves that one in place.
\* Mutant: the error is not recorded.
ScoreFrozenQuietly ==
  LET frozen == IF loaded = {} THEN {} ELSE {Baseline} \cup ToSet(winners)
  IN /\ pc = "frozen"
     /\ \E bad \in Failing(frozen) :
          /\ outcomes' = [c \in DOMAIN outcomes \cup (frozen \ bad) |->
                            IF c \in frozen \ bad THEN Outcome(data[c], loaded, TRUE)
                                                  ELSE outcomes[c]]
          /\ Spend(bad)
     /\ pc' = "recommend"
     /\ UNCHANGED <<loaded, winners, errors, lock, results, files, kept, disk>>

ScoreFrozen ==
  LET frozen == IF loaded = {} THEN {} ELSE {Baseline} \cup ToSet(winners)
  IN /\ pc = "frozen"
     /\ \E bad \in Failing(frozen) :
          /\ outcomes' = [c \in DOMAIN outcomes \cup (frozen \ bad) |->
                            IF c \in frozen \ bad THEN Outcome(data[c], loaded, TRUE)
                                                  ELSE outcomes[c]]
          /\ errors' = errors \cup {<<"frozen", c>> : c \in bad}
          /\ Spend(bad)
     /\ pc' = "recommend"
     /\ UNCHANGED <<loaded, winners, lock, results, files, kept, disk>>

HasHoldout(c) == c \in DOMAIN outcomes /\ "holdout" \in DOMAIN outcomes[c].base

NegativeHoldouts ==
  {c \in ToSet(winners) : HasHoldout(c) /\ ~Positive(outcomes[c].base.holdout)}

Recommendation ==
  IF errors # {} \/ winners = <<>> THEN "insufficient evidence"
  ELSE IF ToSet(winners) # {Baseline} THEN "larger experiment"
  ELSE "retain baseline"

ReportSweep ==
  /\ pc = "recommend"
  /\ results' = [advice |-> Recommendation, winners |-> winners,
                 holdouts |-> {c \in Candidates : HasHoldout(c)},
                 negative |-> NegativeHoldouts]
  /\ pc' = "csv"
  /\ UNCHANGED <<loaded, outcomes, winners, errors, lock, files, faults, kept, disk>>

-----------------------------------------------------------------------------
(* analyzer-cost-ladder and analyzer-execution; here and in analyzer-confirm any *)
(* error ends the run                                                            *)

Load(symbols) ==
  /\ pc = "load"
  /\ \/ loaded' = symbols /\ pc' = "evaluate" /\ UNCHANGED faults
     \/ Fail /\ UNCHANGED loaded
  /\ UNCHANGED <<outcomes, winners, errors, lock, results, files, kept, disk>>

Compute(result) ==
  /\ pc = "evaluate"
  /\ \/ results' = result /\ pc' = "csv" /\ UNCHANGED faults
     \/ Fail /\ UNCHANGED results
  /\ UNCHANGED <<loaded, outcomes, winners, errors, lock, files, kept, disk>>

LoadDatasets == tool \in {"ladder", "execution"} /\ Load(Symbols)

EvaluateLadder ==
  /\ tool = "ladder"
  /\ Compute([validation |-> Verdict(data, "validation"), holdout |-> Verdict(data, "holdout")])

EvaluateExecution ==
  /\ tool = "execution"
  /\ Compute([selected |-> [c \in Candidates |-> SelectedModel(data[c])],
              rescued |-> {c \in Candidates : Rescues(data[c])}])

-----------------------------------------------------------------------------
(* analyzer-confirm: the lock is read twice, and the frozen files once *)

VerifyDigest ==
  /\ pc = "digest"
  /\ pc' = IF lockFile = Lock THEN "parse" ELSE "failed"
  /\ UNCHANGED <<memory, files, faults, kept, disk>>

LoadLock ==
  /\ pc = "parse"
  /\ lock' = lockFile
  /\ pc' = "verify"
  /\ UNCHANGED <<loaded, outcomes, winners, errors, results, files, faults, kept, disk>>

Verify ==
  /\ pc = "verify"
  /\ pc' = IF source = lock.hash THEN "validate" ELSE "failed"
  /\ UNCHANGED <<memory, files, faults, kept, disk>>

\* Everything the lock pins but the hash of the frozen files.
\* Mutant: the decision rule is not compared.
ValidateLockLoosely ==
  /\ pc = "validate"
  /\ pc' = IF /\ lock.candidate = Lock.candidate /\ lock.symbols = Lock.symbols
           THEN "load" ELSE "failed"
  /\ UNCHANGED <<memory, files, faults, kept, disk>>

ValidateLock ==
  /\ pc = "validate"
  /\ pc' = IF /\ lock.candidate = Lock.candidate /\ lock.symbols = Lock.symbols
              /\ lock.trades = Lock.trades /\ lock.wins = Lock.wins
           THEN "load" ELSE "failed"
  /\ UNCHANGED <<memory, files, faults, kept, disk>>

LoadLocked == tool = "confirm" /\ Load(lock.symbols)

EvaluateLocked ==
  /\ tool = "confirm"
  /\ Compute([passed |-> Confirmed(data[lock.candidate], loaded,
                                   [trades |-> lock.trades, symbols |-> lock.wins]),
              lock |-> lock])

\* An edit once they are read shows only to the next run, like one before it.
Editable == tool = "confirm" /\ pc \in {"digest", "parse", "verify", "validate"}

EditLock ==
  /\ Editable /\ edits < MaxEdits /\ edits' = edits + 1
  /\ lockFile' \in (LockEdits \cup {Lock}) \ {lockFile}
  /\ UNCHANGED <<pc, memory, files, faults, kept, source>>

EditSource ==
  /\ Editable /\ edits < MaxEdits /\ edits' = edits + 1
  /\ source' \in Sources \ {source}
  /\ UNCHANGED <<pc, memory, files, faults, kept, lockFile>>

-----------------------------------------------------------------------------
(* The artifacts, and the end of a run *)

\* Opening a file for writing empties it; what it said before is gone.
Truncate(f) ==
  /\ pc = f /\ files[f] # Torn
  /\ files' = [files EXCEPT ![f] = Torn]
  /\ UNCHANGED <<pc, memory, faults, kept, disk>>

\* The sweep ends with an error when it had no data set, after writing what it had.
Fill(i) ==
  LET f == Artifacts[i]
  IN /\ pc = f /\ files[f] = Torn
     /\ files' = [files EXCEPT ![f] = results]
     /\ pc' = IF i < 3 THEN Artifacts[i + 1] ELSE IF loaded = {} THEN "failed" ELSE "done"
     /\ UNCHANGED <<memory, faults, kept, disk>>

\* The process dies, or fails to create or write a file.
Die ==
  /\ pc \notin {"done", "failed"}
  /\ Fail
  /\ UNCHANGED <<memory, files, kept, disk>>

RunAgain ==
  /\ pc \in {"done", "failed"} /\ runs < MaxRuns
  /\ runs' = runs + 1
  /\ Forget
  /\ pc' = FirstPhase
  /\ UNCHANGED <<tool, data, files, faults, disk>>

Next ==
  \/ LoadSymbols \/ ScoreCandidates \/ RankCandidates \/ ScoreFrozen \/ ReportSweep
  \/ LoadDatasets \/ EvaluateLadder \/ EvaluateExecution
  \/ VerifyDigest \/ LoadLock \/ Verify \/ ValidateLock
  \/ LoadLocked \/ EvaluateLocked \/ EditLock \/ EditSource
  \/ \E f \in Artifact : Truncate(f)
  \/ \E i \in 1 .. 3 : Fill(i)
  \/ Die \/ RunAgain

Spec == Init /\ [][Next]_vars

-----------------------------------------------------------------------------
(* Properties *)

HoldoutStart == Pct(N, 80)

\* The history had the holdout been another: what happens from there on is replaced,
\* the exits of trades entered before it included.
Rewritten(h, gross) ==
  {IF t.exit >= HoldoutStart THEN [t EXCEPT !.gross = gross] ELSE t :
     t \in {o \in h : o.at < HoldoutStart}}
  \cup {[at |-> HoldoutStart, exit |-> N - 1, gross |-> gross, mark |-> gross,
         short |-> FALSE, target |-> gross > 0, limit |-> gross > 0]}

\* No choice made on the validation depends on the holdout: with any other holdout
\* the sweep ranks the same winners and analyzer-execution selects the same models
\* (the first pass in analyzer-sweep's main, decide in analyzer-execution).
ScreeningBlind ==
  \A gross \in {-Notional, Notional} :
    LET other == [c \in Candidates |-> [s \in Symbols |-> Rewritten(data[c][s], gross)]]
    IN /\ pc = "frozen" =>
            winners = Winners([c \in DOMAIN outcomes |-> Outcome(other[c], loaded, FALSE)])
       /\ tool = "execution" /\ results # None =>
            results.selected = [c \in Candidates |-> SelectedModel(other[c])]

Published(kind, f) == tool = kind /\ files[f] \notin {None, Torn}

\* A report recommends something only on the whole of the evidence, whatever failed
\* in this run or an earlier one: the winners are those of every candidate over every
\* symbol, each was scored on the holdout, and those that lose there are named
\* (recommendation in harness/sweep/report.rs).
RecommendsOnWhole ==
  Published("sweep", "report") /\ files.report.advice # "insufficient evidence" =>
    LET whole == [c \in Candidates |-> Outcome(data[c], Symbols, TRUE)]
    IN /\ files.report.winners = Winners(whole)
       /\ ToSet(files.report.winners) \cup {Baseline} \subseteq files.report.holdouts
       /\ files.report.negative = {c \in ToSet(files.report.winners) :
                                     ~Positive(whole[c].base.holdout)}

\* The ladder says to proceed exactly when some candidate still pays at every rate
\* below the viable one and breaks even at it (verdict in analyzer-cost-ladder).
VerdictMatchesLadder ==
  Published("ladder", "json") =>
    \A name \in {"validation", "holdout"} :
      (files.json[name] = "proceed") <=>
        \E c \in Candidates : \A i \in 1 .. Len(Ladder) :
          /\ Ladder[i] < Viable => Results(data[c], name)[i] > 0
          /\ Ladder[i] = Viable => Results(data[c], name)[i] >= 0

\* What a confirmation decides is what the candidate, the symbols and the decision rule
\* of the lock as committed decide, however the lock and the frozen files are edited
\* while it runs (validate_lock after verify_lock_digest: the lock is read again in
\* between).  It says nothing of the frozen files; EditedLockAborts does.
DecidesByThePinned ==
  Published("confirm", "json") =>
    (files.json.passed <=> Confirmed(data[Lock.candidate], Lock.symbols,
                                     [trades |-> Lock.trades, symbols |-> Lock.wins]))

\* No confirmation is published under another lock than the committed one: any edit to
\* it, that of its hash of the frozen files included, aborts the run (the comments on
\* EXPECTED_LOCK_SHA256 and verify_lock_digest in harness/sweep/freeze.rs).
EditedLockAborts == Published("confirm", "json") => files.json.lock = Lock
=============================================================================
