--------------------------- MODULE Campaigns_proofs ---------------------------
(***************************************************************************)
(* Proofs about the two programs that work on many runs of run.sh:         *)
(* SecurityBenchmark, for any backends, warmups, repeats and sweep, and    *)
(* CompareRuns, for any backends, days, tags and number of runs.           *)
(***************************************************************************)
EXTENDS SecurityBenchmark, CompareRuns, TLAPS

(***************************************************************************)
(* SecurityBenchmark.                                                      *)
(***************************************************************************)

(* Every position names a requested backend.                               *)
LEMMA SweptIsRequested ==
  ASSUME NEW p \in SweepPoints
  PROVE  Swept(p) \in Requested /\ Swept(p) # "baseline"
BY DEF SweepPoints, Swept, Requested

(* A backend that cannot run leaves no report in which the limit held.     *)
LEMMA LimitHeldWhereAble ==
  ASSUME NEW b, NEW result \in Results(b, FALSE)
  PROVE  ~LimitHeld(result)
BY DEF Results, LimitHeld, NoReport, NotExecuted, Unjudged, Dirty, Result

(* A clean run neither fails as a warmup nor at a point of the sweep.      *)
LEMMA CleanIsClean == ~WarmupFailed(Clean) /\ LimitHeld(Clean) /\ ~Clean.error
                      /\ Clean.unexpected = "zero"
BY DEF WarmupFailed, LimitHeld, Clean, Result

(* The initial states satisfy the invariant.                               *)
LEMMA InitCampaign == Init => CampaignInv
<1> SUFFICES ASSUME Init PROVE CampaignInv
  OBVIOUS
<1>1. left \in [Requested -> [Phases -> Nat]]
      /\ \A b \in Requested : left[b]["main"] = Repeats
  <2>1. Planned \in [Phases -> Nat] /\ Planned["main"] = Repeats
    BY BenchmarkAssumption DEF Planned, Phases
  <2> QED
    BY <2>1 DEF Init
<1>2. TypeOK
  BY <1>1 DEF Init, TypeOK
<1>3. RecordInv
  <2>1. \A b \in Requested : ~(left[b]["main"] < Repeats)
    BY <1>1, BenchmarkAssumption
  <2> QED
    BY <2>1 DEF Init, RecordInv
<1>4. FailInv /\ ExitZeroIsClean /\ CleanCampaignPasses
  BY DEF Init, FailInv, ExitZeroIsClean, CleanCampaignPasses, Phase
<1> QED
  BY <1>2, <1>3, <1>4 DEF CampaignInv

(* A run of the schedule.                                                  *)
LEMMA ScheduledCampaign ==
  ASSUME CampaignInv, NEW b \in Requested, NEW phase \in Phases, ScheduledRun(b, phase)
  PROVE  CampaignInv'
<1> USE DEF CampaignInv
<1>1. PICK result \in Results(b, ready[b]) :
        /\ runs' = runs \union {Record(b, phase, result)}
        /\ hard_fail' = (hard_fail \/ (phase = "warmup" /\ WarmupFailed(result)))
  BY DEF ScheduledRun
<1>2. /\ exit = "none" /\ left[b][phase] > 0 /\ left' = [left EXCEPT ![b][phase] = @ - 1]
      /\ UNCHANGED <<ready, sweep, summary, exit>>
  BY DEF ScheduledRun
<1> DEFINE record == Record(b, phase, result)
<1>3. record.backend = b /\ record.phase = phase /\ record.result = result
  BY DEF Record
<1> HIDE DEF record
<1>4. runs' = runs \union {record}
  BY <1>1 DEF record
<1>5. left' \in [Requested -> [Phases -> Nat]]
      /\ \A c \in Requested : c # b \/ phase # "main" => left'[c]["main"] = left[c]["main"]
  <2> DEFINE row == [left[b] EXCEPT ![phase] = @ - 1]
  <2>1. left[b] \in [Phases -> Nat] /\ left[b][phase] - 1 \in Nat
    <3>1. left[b] \in [Phases -> Nat]
      BY DEF TypeOK
    <3>2. left[b][phase] \in Nat
      BY <3>1
    <3> QED
      BY <1>2, <3>1, <3>2
  <2>2. row \in [Phases -> Nat] /\ (phase # "main" => row["main"] = left[b]["main"])
    BY <2>1 DEF Phases
  <2>3. left' = [left EXCEPT ![b] = row]
    BY <1>2
  <2> HIDE DEF row
  <2> QED
    BY <2>2, <2>3 DEF TypeOK
<1>6. TypeOK'
  <2>1. hard_fail' \in BOOLEAN
    BY <1>1 DEF TypeOK
  <2> QED
    BY <1>2, <1>3, <1>4, <1>5, <2>1 DEF TypeOK
<1>7. RecordInv'
  BY <1>2, <1>3, <1>4, <1>5 DEF RecordInv, Phase
<1>8. FailInv'
  <2>1. hard_fail' => \E r \in runs' : r.result # Clean
    BY <1>1, <1>2, <1>3, <1>4, CleanIsClean DEF FailInv
  <2>2. ~hard_fail' => /\ \A r \in Phase("warmup")' : ~WarmupFailed(r.result)
                       /\ \A r \in Phase("mem-sweep")' : LimitHeld(r.result)
    BY <1>1, <1>2, <1>3, <1>4 DEF FailInv, Phase, Phases
  <2> QED
    BY <1>2, <2>1, <2>2 DEF FailInv
<1>9. ExitZeroIsClean' /\ CleanCampaignPasses'
  BY <1>2 DEF ExitZeroIsClean, CleanCampaignPasses, FailInv
<1> QED
  BY <1>6, <1>7, <1>8, <1>9

(* A point of the sweep.                                                   *)
LEMMA SweepCampaign ==
  ASSUME CampaignInv, NEW p \in SweepPoints, SweepRun(p)
  PROVE  CampaignInv'
<1> USE DEF CampaignInv
<1>1. PICK result \in Results(Swept(p), ready[Swept(p)]) :
        /\ runs' = runs \union {Record(Swept(p), "mem-sweep", result)}
        /\ hard_fail' = (hard_fail \/ ~LimitHeld(result))
  BY DEF SweepRun
<1>2. /\ exit = "none" /\ sweep' = sweep \ {p}
      /\ UNCHANGED <<ready, left, summary, exit>>
  BY DEF SweepRun
<1> DEFINE record == Record(Swept(p), "mem-sweep", result)
<1>3. record.backend = Swept(p) /\ record.phase = "mem-sweep" /\ record.result = result
  BY DEF Record
<1> HIDE DEF record
<1>4. runs' = runs \union {record}
  BY <1>1 DEF record
<1>5. TypeOK'
  <2>1. hard_fail' \in BOOLEAN
    BY <1>1 DEF TypeOK
  <2> QED
    BY <1>2, <1>3, <1>4, <2>1, SweptIsRequested DEF TypeOK
<1>6. RecordInv'
  BY <1>2, <1>3, <1>4 DEF RecordInv, Phase
<1>7. FailInv'
  <2>1. hard_fail' => \E r \in runs' : r.result # Clean
    BY <1>1, <1>2, <1>3, <1>4, CleanIsClean DEF FailInv
  <2>2. ~hard_fail' => /\ \A r \in Phase("warmup")' : ~WarmupFailed(r.result)
                       /\ \A r \in Phase("mem-sweep")' : LimitHeld(r.result)
    BY <1>1, <1>2, <1>3, <1>4 DEF FailInv, Phase
  <2> QED
    BY <1>2, <2>1, <2>2 DEF FailInv
<1>8. ExitZeroIsClean' /\ CleanCampaignPasses'
  BY <1>2 DEF ExitZeroIsClean, CleanCampaignPasses, FailInv
<1> QED
  BY <1>5, <1>6, <1>7, <1>8

(* The aggregation: all runs have been made, and the exit status says so.  *)
LEMMA AggregateCampaign == ASSUME CampaignInv, Aggregate PROVE CampaignInv'
<1> USE DEF CampaignInv
<1>1. /\ exit = "none" /\ sweep = {} /\ UNCHANGED <<ready, left, sweep, runs>>
      /\ summary' = [b \in Requested |-> Summary(b)]
      /\ exit' = IF hard_fail' THEN "nonzero" ELSE "zero"
      /\ hard_fail' = (hard_fail \/ \E b \in Requested : Summary(b) # "stable")
  BY DEF Aggregate
<1>2. TypeOK'
  <2>1. hard_fail' \in BOOLEAN /\ exit' \in {"zero", "nonzero"}
    BY <1>1 DEF TypeOK
  <2>2. \A b : Summary(b) \in {"no runs", "stable", "unstable"}
    BY DEF Summary
  <2> QED
    BY <1>1, <2>1, <2>2 DEF TypeOK
<1>3. RecordInv' /\ FailInv'
  BY <1>1 DEF RecordInv, FailInv, Phase
<1>4. ExitZeroIsClean'
  <2> SUFFICES ASSUME exit' = "zero" PROVE ExitZeroIsClean'
    BY DEF ExitZeroIsClean
  <2>1. ~hard_fail /\ \A b \in Requested : Summary(b) = "stable"
    BY <1>1
  <2>2. \A b \in Requested : /\ Mains(b) # {}
                             /\ \A r \in Mains(b) : r.result.unexpected = "zero"
    BY <2>1 DEF Summary
  <2>3. \A r \in Phase("main") : r.result.error \/ r.result.unexpected = "zero"
    BY <2>2 DEF Mains, Phase, TypeOK
  <2>4. \A b \in Requested : \E r \in Phase("main") : r.backend = b /\ ~r.result.error
    BY <2>2 DEF Mains, Phase
  <2>5. ASSUME MemSweep # <<>>, NEW b \in Requested \ {"baseline"} PROVE ready[b]
    <3>1. PICK i \in 1 .. Len(Backends) : Backends[i] = b
      BY DEF Requested
    <3>2. 1 \in 1 .. Len(MemSweep)
      BY <2>5, BenchmarkAssumption
    <3>3. <<i, 1>> \in SweepPoints /\ Swept(<<i, 1>>) = b
      BY <3>1, <3>2 DEF SweepPoints, Swept
    <3>4. PICK r \in Phase("mem-sweep") : r.backend = b
      BY <1>1, <3>3 DEF RecordInv
    <3>5. LimitHeld(r.result) /\ r.result \in Results(b, ready[b])
      BY <1>1, <2>1, <3>4 DEF FailInv, TypeOK, Phase
    <3>6. ready[b] \in BOOLEAN
      BY DEF TypeOK
    <3> QED
      BY <3>5, <3>6, LimitHeldWhereAble
  <2> QED
    BY <1>1, <2>1, <2>3, <2>4, <2>5 DEF ExitZeroIsClean, FailInv, Phase
<1>5. CleanCampaignPasses'
  <2> SUFFICES ASSUME \A r \in runs : r.result = Clean, Repeats > 0 PROVE exit' = "zero"
    BY <1>1 DEF CleanCampaignPasses
  <2>1. ~hard_fail
    BY <1>1 DEF FailInv
  <2>2. ASSUME NEW b \in Requested PROVE Summary(b) = "stable"
    <3>1. left[b]["main"] < Repeats
      <4>1. "main" \in Phases
        BY DEF Phases
      <4>2. left[b]["main"] \in Nat
        BY <4>1 DEF TypeOK
      <4>3. ~(left[b]["main"] > 0)
        BY <4>1 DEF Aggregate, Scheduled
      <4> QED
        BY <4>2, <4>3, BenchmarkAssumption
    <3>2. PICK r \in Phase("main") : r.backend = b
      BY <3>1 DEF RecordInv
    <3>3. r \in Mains(b)
      BY <3>2, CleanIsClean DEF Mains, Phase
    <3>4. \A q \in Mains(b) : q.result.unexpected = "zero"
      BY CleanIsClean DEF Mains
    <3> QED
      BY <3>3, <3>4 DEF Summary
  <2> QED
    BY <1>1, <2>1, <2>2
<1> QED
  BY <1>2, <1>3, <1>4, <1>5

(* Records, failures and summary agree in every reachable state.           *)
THEOREM CampaignInvariant == Spec => []CampaignInv
<1>1. ASSUME CampaignInv, TornReport PROVE CampaignInv'
  BY <1>1 DEF CampaignInv, TornReport, TypeOK, RecordInv, FailInv, ExitZeroIsClean,
              CleanCampaignPasses, Phase
<1>2. ASSUME CampaignInv, UNCHANGED vars PROVE CampaignInv'
  BY <1>2 DEF CampaignInv, vars, TypeOK, RecordInv, FailInv, ExitZeroIsClean,
              CleanCampaignPasses, Phase
<1>3. CampaignInv /\ [Next]_vars => CampaignInv'
  BY <1>1, <1>2, ScheduledCampaign, SweepCampaign, AggregateCampaign DEF Next
<1> QED
  BY InitCampaign, <1>3, PTL DEF Spec

(* What exit status 0 means, however long the campaign.                    *)
THEOREM ExitZeroSafe == Spec => []ExitZeroIsClean
<1>1. CampaignInv => ExitZeroIsClean
  BY DEF CampaignInv
<1> QED
  BY CampaignInvariant, <1>1, PTL

(* A campaign of clean runs passes.                                        *)
THEOREM CleanSafe == Spec => []CleanCampaignPasses
<1>1. CampaignInv => CleanCampaignPasses
  BY DEF CampaignInv
<1> QED
  BY CampaignInvariant, <1>1, PTL

(***************************************************************************)
(* CompareRuns.                                                            *)
(***************************************************************************)

(* The order of names is total and transitive.                             *)
LEMMA NamesAreOrdered ==
  ASSUME TypeInv, NEW r \in 1 .. started, NEW s \in 1 .. started, NEW t \in 1 .. started
  PROVE  /\ ~Later(r, r)
         /\ ~Later(r, s) /\ Later(t, s) => ~Later(r, t)
<1>1. ASSUME NEW q \in 1 .. started
      PROVE  name[q].day \in Nat /\ name[q].backend \in Nat /\ name[q].tag \in Nat
  BY <1>1, CompareAssumption DEF TypeInv, Names
<1>2. /\ name[r].day \in Nat /\ name[r].backend \in Nat /\ name[r].tag \in Nat
      /\ name[s].day \in Nat /\ name[s].backend \in Nat /\ name[s].tag \in Nat
      /\ name[t].day \in Nat /\ name[t].backend \in Nat /\ name[t].tag \in Nat
  BY <1>1
<1> QED
  BY <1>2 DEF Later

(* A directory that is not empty has probes.json, and a final run's is     *)
(* judged.                                                                 *)
LEMMA WhatProbesSay ==
  /\ ProbesJson("final") = "judged"
  /\ \A s \in {Stages[i] : i \in 1 .. Len(Stages)} :
       s # "empty" => ProbesJson(s) \in {"torn", "raw", "judged"}
BY DEF ProbesJson, Stages

(* The initial state satisfies the invariant.                              *)
LEMMA InitCompare == CompareInit => CompareInv
<1> SUFFICES ASSUME CompareInit PROVE CompareInv
  OBVIOUS
<1> USE CompareAssumption DEF CompareInit
<1>1. "empty" \in {Stages[i] : i \in 1 .. Len(Stages)}
  BY DEF Stages
<1>2. TypeInv
  BY <1>1 DEF TypeInv
<1>3. FoundInv /\ RowInv /\ ReadInv
  BY DEF FoundInv, RowInv, ReadInv, Nobody
<1> QED
  BY <1>2, <1>3 DEF CompareInv

(* Runs that start or go on change nothing of what compare.py has found.   *)
LEMMA RunsCompare ==
  ASSUME CompareInv, NextDay \/ StartRun \/ (\E r \in Runs : Proceed(r))
  PROVE  CompareInv'
<1> USE DEF CompareInv
<1>1. UNCHANGED compare
  BY DEF NextDay, StartRun, Proceed
<1>2. /\ started' \in 0 .. MaxRuns /\ started <= started' /\ started \in Nat
      /\ today' \in 1 .. Days
  BY CompareAssumption DEF NextDay, StartRun, Proceed, TypeInv
<1>3. /\ name' \in [1 .. started' -> Names] /\ executed' \in [1 .. started' -> BOOLEAN]
      /\ \A r \in 1 .. started : name'[r] = name[r] /\ executed'[r] = executed[r]
  <2>1. CASE StartRun
    <3>1. PICK n \in Names, e \in BOOLEAN :
            /\ name' = Extended(name, started', n)
            /\ executed' = Extended(executed, started', e)
      BY <2>1 DEF StartRun
    <3>2. started' = started + 1 /\ 1 .. started' = (1 .. started) \union {started'}
      BY <1>2, <2>1 DEF StartRun
    <3> QED
      BY <1>2, <3>1, <3>2 DEF Extended, TypeInv
  <2>2. CASE ~StartRun
    <3>1. UNCHANGED <<started, name, executed>>
      BY <2>2 DEF NextDay, Proceed
    <3> QED
      BY <3>1 DEF TypeInv
  <2> QED
    BY <2>1, <2>2
<1>4. /\ stage' \in [Runs -> {Stages[i] : i \in 1 .. Len(Stages)}]
      /\ \A r \in Runs : /\ stage[r] # "empty" => stage'[r] # "empty"
                         /\ stage[r] = "final" => stage'[r] = "final"
  <2>1. ASSUME NEW q \in Runs, Proceed(q)
        PROVE  /\ stage' \in [Runs -> {Stages[i] : i \in 1 .. Len(Stages)}]
               /\ \A r \in Runs : /\ stage[r] # "empty" => stage'[r] # "empty"
                                  /\ stage[r] = "final" => stage'[r] = "final"
    <3>1. PICK i \in 1 .. Len(Stages) - 1 :
            stage[q] = Stages[i] /\ stage' = [stage EXCEPT ![q] = Stages[i + 1]]
      BY <2>1 DEF Proceed
    <3>2. Len(Stages) = 7 /\ i + 1 \in 1 .. Len(Stages)
      BY DEF Stages
    <3>3. Stages[i] # "final" /\ Stages[i + 1] # "empty"
      BY <3>2 DEF Stages
    <3> QED
      BY <2>1, <3>1, <3>2, <3>3 DEF TypeInv
  <2>2. CASE ~\E r \in Runs : Proceed(r)
    <3>1. stage' = stage
      BY <2>2 DEF NextDay, StartRun
    <3> QED
      BY <3>1 DEF TypeInv
  <2> QED
    BY <2>1, <2>2
<1>5. TypeInv'
  BY <1>1, <1>2, <1>3, <1>4 DEF TypeInv, compare
<1>6. 1 .. started \subseteq Runs /\ 1 .. started \subseteq 1 .. started'
  BY <1>2, CompareAssumption DEF TypeInv, Runs
<1>7. FoundInv'
  BY <1>1, <1>4, <1>6 DEF FoundInv, TypeInv, compare
<1>8. RowInv'
  BY <1>1, <1>3, <1>6 DEF RowInv, Backend, compare
<1>9. ReadInv'
  <2>1. \A r, t \in 1 .. started : Later(r, t)' <=> Later(r, t)
    BY <1>3 DEF Later
  <2> QED
    BY <1>1, <1>3, <2>1 DEF ReadInv, RowInv, FoundInv, compare
<1> QED
  BY <1>1, <1>5, <1>7, <1>8, <1>9 DEF compare

(* compare.py lists the directories.                                       *)
LEMMA GlobCompare == ASSUME CompareInv, Glob PROVE CompareInv'
<1> USE DEF CompareInv
<1>1. /\ pc' = "reading" /\ UNCHANGED <<runsh, reading, table>>
      /\ todo' = {r \in 1 .. started : stage[r] # "empty"}
      /\ finished' = {r \in 1 .. started : stage[r] = "final"}
  BY DEF Glob
<1>2. TypeInv' /\ RowInv'
  BY <1>1 DEF TypeInv, RowInv, Backend, runsh
<1>3. finished' \subseteq todo'
  BY <1>1
<1>4. FoundInv' /\ ReadInv'
  BY <1>1, <1>3 DEF FoundInv, ReadInv, Glob, runsh
<1> QED
  BY <1>1, <1>2, <1>4

(* compare.py reads a probes.json.                                         *)
LEMMA ReadProbesCompare == ASSUME CompareInv, NEW q, ReadProbes(q) PROVE CompareInv'
<1> USE DEF CompareInv
<1>1. /\ pc = "reading" /\ pc' = pc /\ reading = Nobody /\ q \in todo
      /\ UNCHANGED <<runsh, table, finished>>
  BY DEF ReadProbes
<1>2. q \in Runs /\ stage[q] # "empty" /\ ProbesJson(stage[q]) \in {"torn", "raw", "judged"}
      /\ (q \in finished => ProbesJson(stage[q]) = "judged")
  <2>1. q \in Runs
    <3>1. q \in 1 .. started /\ started \in 0 .. MaxRuns
      BY <1>1 DEF TypeInv
    <3> QED
      BY <3>1, CompareAssumption DEF Runs
  <2> QED
    BY <1>1, <2>1, WhatProbesSay DEF FoundInv, TypeInv
<1>3. \/ ProbesJson(stage[q]) = "torn" /\ todo' = todo \ {q} /\ reading' = reading
      \/ /\ ProbesJson(stage[q]) # "torn" /\ todo' = todo
         /\ reading' = [run |-> q, said |-> ProbesJson(stage[q])]
  BY DEF ReadProbes
<1>4. TypeInv' /\ RowInv'
  BY <1>1, <1>3 DEF TypeInv, RowInv, Backend, runsh
<1>5. FoundInv'
  BY <1>1, <1>2, <1>3 DEF FoundInv, runsh
<1>6. ReadInv'
  <2>1. finished \ todo' = finished \ todo
    BY <1>2, <1>3
  <2> QED
    BY <1>1, <2>1 DEF ReadInv, Later, runsh
<1> QED
  BY <1>1, <1>4, <1>5, <1>6

(* compare.py reads a footprint.json and picks the later of two runs.      *)
LEMMA ReadFootprintCompare == ASSUME CompareInv, ReadFootprint PROVE CompareInv'
<1> USE DEF CompareInv
<1>1. pc = "reading" /\ reading # Nobody /\ UNCHANGED <<runsh, finished>>
  BY DEF ReadFootprint
<1>2. CASE FootprintTorn(stage[reading.run])
  <2>1. pc' = "failed" /\ UNCHANGED <<todo, reading, table>>
    BY <1>2 DEF ReadFootprint
  <2> QED
    BY <1>1, <2>1 DEF TypeInv, FoundInv, RowInv, ReadInv, Backend, runsh
<1>3. CASE ~FootprintTorn(stage[reading.run])
  <2> DEFINE q == reading.run
             b == Backend(reading)
  <2>1. /\ table' = Pick(reading) /\ todo' = todo \ {q} /\ reading' = Nobody /\ pc' = pc
    BY <1>3 DEF ReadFootprint
  <2>2. q \in 1 .. started /\ reading.said \in {"raw", "judged"}
        /\ (q \in finished => b = BackendNames[name[q].backend])
    BY <1>1 DEF FoundInv, TypeInv, Backend
  <2>3. \/ /\ b \notin DOMAIN table \/ Later(q, table[b].run)
           /\ DOMAIN table' = DOMAIN table \union {b} /\ table'[b] = reading
           /\ \A c \in DOMAIN table : c # b => table'[c] = table[c]
        \/ b \in DOMAIN table /\ ~Later(q, table[b].run) /\ table' = table
    BY <2>1 DEF Pick, Extended
  <2>4. TypeInv'
    BY <1>1, <2>1 DEF TypeInv, runsh
  <2>5. FoundInv'
    BY <1>1, <2>1 DEF FoundInv, runsh
  <2>6. RowInv'
    <3>1. ASSUME NEW c PROVE Backend(c)' = Backend(c)
      BY <1>1 DEF Backend, runsh
    <3> QED
      BY <1>1, <2>2, <2>3, <3>1 DEF RowInv, runsh
  <2>7. ASSUME NEW r \in finished, r \notin todo',
               NEW c, c = BackendNames[name[r].backend]
        PROVE  c \in DOMAIN table' /\ ~Later(r, table'[c].run)
    <3>1. r \in 1 .. started
      BY DEF FoundInv
    <3>2. CASE r = q
      <4>1. c = b
        BY <2>2, <2>7, <3>2
      <4> QED
        BY <2>2, <2>3, <3>2, <4>1, NamesAreOrdered
    <3>3. CASE r # q
      <4>1. r \in finished \ todo
        BY <2>1, <2>7, <3>3
      <4>2. c \in DOMAIN table /\ ~Later(r, table[c].run) /\ table[c].run \in 1 .. started
        BY <1>1, <2>7, <4>1 DEF ReadInv, RowInv
      <4>3. CASE c = b
        BY <2>2, <2>3, <3>1, <4>2, <4>3, NamesAreOrdered
      <4>4. CASE c # b
        BY <2>3, <4>2, <4>4
      <4> QED
        BY <4>3, <4>4
    <3> QED
      BY <3>2, <3>3
  <2>8. ReadInv'
    BY <1>1, <2>1, <2>7 DEF ReadInv, Later, runsh
  <2> QED
    BY <1>1, <2>1, <2>4, <2>5, <2>6, <2>8
<1> QED
  BY <1>2, <1>3

(* The invariant holds in every reachable state.                           *)
THEOREM CompareInvariant == CompareSpec => []CompareInv
<1>1. ASSUME CompareInv, WriteComparison PROVE CompareInv'
  BY <1>1 DEF CompareInv, WriteComparison, TypeInv, FoundInv, RowInv, ReadInv, Backend, Later,
              runsh
<1>2. ASSUME CompareInv, UNCHANGED compareVars PROVE CompareInv'
  BY <1>2 DEF CompareInv, compareVars, runsh, compare, TypeInv, FoundInv, RowInv, ReadInv,
              Backend, Later
<1>3. CompareInv /\ [CompareNext]_compareVars => CompareInv'
  BY <1>1, <1>2, RunsCompare, GlobCompare, ReadProbesCompare, ReadFootprintCompare
     DEF CompareNext
<1> QED
  BY InitCompare, <1>3, PTL DEF CompareSpec

(* Whatever runs are under way, a backend with a complete run is shown     *)
(* with a judged one, or one marked as not executed, that is no older.     *)
THEOREM FinishedSafe == CompareSpec => []FinishedIsShown
<1>1. CompareInv => FinishedIsShown
  <2> SUFFICES ASSUME CompareInv, pc = "done", NEW r \in finished
               PROVE  /\ BackendNames[name[r].backend] \in DOMAIN table
                      /\ name[Shown(r).run].backend = name[r].backend
                      /\ name[Shown(r).run].day >= name[r].day
                      /\ Shown(r).said = "judged" \/ ~executed[Shown(r).run]
    BY DEF FinishedIsShown
  <2> DEFINE b == BackendNames[name[r].backend]
             t == table[b].run
  <2>1. r \in 1 .. started /\ b \in DOMAIN table /\ ~Later(r, t)
    BY DEF CompareInv, FoundInv, ReadInv
  <2>2. t \in 1 .. started /\ b = Backend(table[b]) /\ table[b].said \in {"raw", "judged"}
    BY <2>1 DEF CompareInv, RowInv
  <2>3. /\ name[r].backend \in 1 .. Len(BackendNames) /\ name[t].backend \in 1 .. Len(BackendNames)
        /\ name[r].day \in Nat /\ name[t].day \in Nat
    BY <2>1, <2>2, CompareAssumption DEF CompareInv, TypeInv, Names
  <2>4. ~(table[b].said = "raw" /\ executed[t]) /\ b = BackendNames[name[t].backend]
    BY <2>2, <2>3, CompareAssumption DEF Backend
  <2>5. name[t].backend = name[r].backend
    BY <2>3, <2>4, CompareAssumption
  <2>6. name[t].day >= name[r].day
    BY <2>1, <2>3 DEF Later
  <2> QED
    BY <2>1, <2>2, <2>4, <2>5, <2>6 DEF Shown
<1> QED
  BY CompareInvariant, <1>1, PTL
=============================================================================
