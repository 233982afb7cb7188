------------------------------ MODULE CompareRuns ------------------------------
(***************************************************************************)
(* common/compare.py beside the runs it compares: run.sh writes a result   *)
(* directory in stages, and latest_per_backend picks one of them for each  *)
(* backend by the order of their names, which begin with the day and end   *)
(* in random digits.                                                       *)
(***************************************************************************)
EXTENDS Naturals, Sequences, FiniteSets

CONSTANTS
  BackendNames,   \* the backends, in the order of their names
  Days,           \* bound: days 1 .. Days
  Tags,           \* bound: the random part of a name is one of 1 .. Tags
  MaxRuns         \* bound: runs

ASSUME CompareAssumption ==
  /\ BackendNames \in Seq(STRING)
  /\ \A i \in 1 .. Len(BackendNames) : BackendNames[i] # "unknown"
  /\ \A i, j \in 1 .. Len(BackendNames) : BackendNames[i] = BackendNames[j] => i = j
  /\ Days \in Nat \ {0} /\ Tags \in Nat \ {0} /\ MaxRuns \in Nat

Runs == 1 .. MaxRuns
Names == [day : 1 .. Days, backend : 1 .. Len(BackendNames), tag : 1 .. Tags]

(* What of a result directory is written: probes.json as the backend left  *)
(* it and as evaluate.py rewrites it, then footprint.json.  Its second pass *)
(* over footprint.json is like the first and stands for both.              *)
Stages == <<"empty", "copying", "raw", "judging", "judged", "costing", "final">>

ProbesJson(stage) ==
  CASE stage = "empty" -> "absent"
    [] stage \in {"copying", "judging"} -> "torn"
    [] stage = "raw" -> "raw"
    [] OTHER -> "judged"

FootprintTorn(stage) == stage = "costing"

VARIABLES
  today,
  started,        \* the runs started so far: 1 .. started
  name, executed, stage,      \* of each run
  todo,           \* what glob found and is still to be read
  reading,        \* the run whose footprint.json is next, and what its probes.json said
  table,          \* the run picked for a backend, and what it said
  pc,             \* of compare.py
  finished        \* history: the runs that were final when it began

runsh == <<today, started, name, executed, stage>>
compare == <<todo, reading, table, pc, finished>>
compareVars == <<runsh, compare>>

Nobody == [run |-> 0, said |-> "absent"]

CompareInit ==
  /\ today = 1 /\ started = 0
  /\ name = [r \in {} |-> 0] /\ executed = [r \in {} |-> TRUE]
  /\ stage = [r \in Runs |-> "empty"]
  /\ todo = {} /\ reading = Nobody /\ table = [b \in {} |-> Nobody] /\ pc = "idle"
  /\ finished = {}

Extended(f, x, v) == [y \in DOMAIN f \union {x} |-> IF y = x THEN v ELSE f[y]]
-----------------------------------------------------------------------------
(* The runs. *)

NextDay ==
  /\ today < Days
  /\ today' = today + 1
  /\ UNCHANGED <<started, name, executed, stage, compare>>

(* new_run_id: the day, the backend and random digits; only firecracker    *)
(* can be one that is not executed.                                        *)
StartRun ==
  /\ started < MaxRuns
  /\ started' = started + 1
  /\ \E n \in Names, e \in BOOLEAN :
       /\ n.day = today /\ \A r \in 1 .. started : name[r] # n
       /\ BackendNames[n.backend] # "firecracker" => e
       /\ name' = Extended(name, started', n)
       /\ executed' = Extended(executed, started', e)
  /\ UNCHANGED <<today, stage, compare>>

(* A run proceeds, and may stop for good anywhere.                         *)
Proceed(r) ==
  /\ r <= started
  /\ \E i \in 1 .. Len(Stages) - 1 :
       stage[r] = Stages[i] /\ stage' = [stage EXCEPT ![r] = Stages[i + 1]]
  /\ UNCHANGED <<today, started, name, executed, compare>>
-----------------------------------------------------------------------------
(* latest_per_backend. *)

Glob ==
  /\ pc = "idle"
  /\ pc' = "reading"
  /\ todo' = {r \in 1 .. started : stage[r] # "empty"}
  /\ finished' = {r \in 1 .. started : stage[r] = "final"}
  /\ UNCHANGED <<runsh, reading, table>>

(* Names are compared as strings. *)
Later(r, s) ==
  \/ name[r].day > name[s].day
  \/ /\ name[r].day = name[s].day
     /\ \/ name[r].backend > name[s].backend
        \/ name[r].backend = name[s].backend /\ name[r].tag > name[s].tag

(* A file that does not parse is passed over.                              *)
ReadProbes(r) ==
  /\ pc = "reading" /\ reading = Nobody /\ r \in todo
  /\ IF ProbesJson(stage[r]) = "torn"
     THEN todo' = todo \ {r} /\ UNCHANGED reading
     ELSE reading' = [run |-> r, said |-> ProbesJson(stage[r])] /\ UNCHANGED todo
  /\ UNCHANGED <<runsh, table, pc, finished>>

\* Mutant: the backend is taken from the name of the directory.
BackendInName(read) == BackendNames[name[read.run].backend]

(* data.get("backend"): only evaluate.py and a skip put it there.          *)
Backend(read) ==
  IF read.said = "raw" /\ executed[read.run]
  THEN "unknown" ELSE BackendNames[name[read.run].backend]

Pick(read) ==
  LET b == Backend(read) IN
  IF b \notin DOMAIN table \/ Later(read.run, table[b].run)
  THEN Extended(table, b, read) ELSE table

(* json.load of the footprint is not guarded: a torn one ends compare.py.  *)
ReadFootprint ==
  /\ pc = "reading" /\ reading # Nobody
  /\ IF FootprintTorn(stage[reading.run])
     THEN pc' = "failed" /\ UNCHANGED <<todo, reading, table>>
     ELSE /\ table' = Pick(reading)
          /\ todo' = todo \ {reading.run}
          /\ reading' = Nobody
          /\ UNCHANGED pc
  /\ UNCHANGED <<runsh, finished>>

(* It ends without a comparison if there is no row (sys.exit), or no row   *)
(* with a probe, for which it takes the width of the longest name: the     *)
(* probes.json of a run that was not executed has none.                    *)
WriteComparison ==
  /\ pc = "reading" /\ todo = {}
  /\ pc' = IF \E b \in DOMAIN table : executed[table[b].run] THEN "done" ELSE "failed"
  /\ UNCHANGED <<runsh, todo, reading, table, finished>>

CompareNext ==
  \/ NextDay \/ StartRun \/ Glob \/ ReadFootprint \/ WriteComparison
  \/ \E r \in Runs : Proceed(r) \/ ReadProbes(r)

CompareSpec == CompareInit /\ [][CompareNext]_compareVars
-----------------------------------------------------------------------------
(* Properties. *)

Shown(r) == table[BackendNames[name[r].backend]]

(* Whatever runs are under way, a run that was complete when compare.py    *)
(* began has its backend in the table, with itself or with a run of that   *)
(* backend that is not from an earlier day and is judged, or labelled as   *)
(* not executed (latest_per_backend, compare.py:19-34).  This is about a   *)
(* comparison that is written; one that failed shows nothing.              *)
FinishedIsShown ==
  pc = "done" => \A r \in finished :
    /\ BackendNames[name[r].backend] \in DOMAIN table
    /\ name[Shown(r).run].backend = name[r].backend
    /\ name[Shown(r).run].day >= name[r].day
    /\ Shown(r).said = "judged" \/ ~executed[Shown(r).run]

(* "Uses the latest run per backend." (compare.py:4): no run that was      *)
(* complete when compare.py began is later than the one it shows.          *)
LatestWins ==
  pc = "done" => \A r \in finished :
    BackendNames[name[r].backend] \in DOMAIN table => Shown(r).run >= r
-----------------------------------------------------------------------------
(* The inductive invariant behind the first. *)

TypeInv ==
  /\ today \in 1 .. Days /\ started \in 0 .. MaxRuns
  /\ name \in [1 .. started -> Names] /\ executed \in [1 .. started -> BOOLEAN]
  /\ stage \in [Runs -> {Stages[i] : i \in 1 .. Len(Stages)}]
  /\ todo \subseteq 1 .. started
  /\ pc \in {"idle", "reading", "done", "failed"}

(* What compare.py found is there still, and a run that was final stays so. *)
FoundInv ==
  /\ \A r \in todo : stage[r] # "empty"
  /\ finished \subseteq 1 .. started /\ \A r \in finished : stage[r] = "final"
  /\ reading # Nobody =>
       /\ pc \in {"reading", "failed"}
       /\ reading.run \in todo /\ reading.said \in {"raw", "judged"}
       /\ reading.run \in finished => reading.said = "judged"

(* A row of the table stands under the backend of its run.                 *)
RowInv ==
  \A b \in DOMAIN table :
    /\ table[b].run \in 1 .. started /\ table[b].said \in {"raw", "judged"}
    /\ b = Backend(table[b])

(* A final run is still to be read, or its row is no earlier than it.      *)
ReadInv ==
  pc \in {"reading", "done"} => \A r \in finished \ todo :
    LET b == BackendNames[name[r].backend]
    IN  b \in DOMAIN table /\ ~Later(r, table[b].run)

CompareInv ==
  /\ TypeInv /\ FoundInv /\ RowInv /\ ReadInv
  /\ pc = "done" => todo = {}
=============================================================================
