------------------------ MODULE MarketBackfillProofs ------------------------
(***************************************************************************)
(* Proofs about MarketBackfill, for every number of runners, dates and     *)
(* payloads, under the one timing assumption of the deployment: a run is   *)
(* killed before a claim it made can be taken over.                        *)
(***************************************************************************)
EXTENDS MarketBackfill, TLAPS

(* What the loop knows of its own variables at each point. *)
LoopOK(x) ==
    /\ x.pc # "idle" => x.last \in Dates /\ x.date \in 1..(x.last + 1)
    /\ x.pc \notin {"idle", "next"} => x.date <= x.last
    /\ x.pc \in {"compare", "response", "manifest", "complete"} => x.held \in Payloads
    /\ x.pc = "check" /\ x.purpose = "land" => x.held \in Payloads
    /\ x.pc \in {"fetch", "response", "manifest", "complete", "fail"} => x.purpose # "skip"

RunsOK == run \in [Runners -> Run] /\ \A r \in Runners : LoopOK(run[r])

(* The same as Owns, of a runner's local state. *)
Holds(x) == x.pc \notin {"idle", "next"} /\ x.purpose # "skip"

(* What a runner in the state x knows of the shared files.  The age of a     *)
(* held claim is bounded by the age of the run that holds it: this is what   *)
(* keeps the claim from being taken over while the run lives.                *)
Knows(x, cp, re, ma) ==
    /\ Holds(x) => cp[x.date].status = "in_progress" /\ cp[x.date].age <= x.elapsed
    /\ x.pc \in {"fetch", "response"} => re[x.date] = NoFile /\ ma[x.date] = NoFile
    /\ x.pc = "manifest" => re[x.date] = x.held /\ ma[x.date] = NoFile
    /\ x.pc \in {"compare", "complete"} => re[x.date] = x.held /\ ma[x.date] # NoFile

Exclusive ==
    \A r, s \in Runners : Holds(run[r]) /\ Holds(run[s]) /\ run[r].date = run[s].date => r = s

FilesOK ==
    /\ \A d \in Dates : manifest[d] # NoFile => manifest[d] = response[d]
    /\ SettledHasValidPair

IInv ==
    /\ TypeOK /\ RunsOK /\ Exclusive /\ FilesOK
    /\ \A r \in Runners : Knows(run[r], checkpoint, response, manifest)

(* Files appear but are neither replaced nor removed. *)
Grow == \A d \in Dates : /\ response[d] # NoFile => response'[d] = response[d]
                         /\ manifest[d] # NoFile => manifest'[d] = manifest[d]

----------------------------------------------------------------------------
(* The steps of a runner keep its local variables in order.                 *)

LEMMA NewRunOK ==
  ASSUME RunsOK, NEW r \in Runners, NEW x \in Run, LoopOK(x), run' = [run EXCEPT ![r] = x]
  PROVE  RunsOK'
<1>1. \A s \in Runners : run'[s] = IF s = r THEN x ELSE run[s]
  BY DEF RunsOK
<1>2. \A s \in Runners : LoopOK(run'[s])
  BY <1>1 DEF RunsOK
<1>3. run' \in [Runners -> Run]
  BY DEF RunsOK
<1>4. QED
  BY <1>2, <1>3 DEF RunsOK, LoopOK

LEMMA HaltOK ==
  ASSUME RunsOK, NEW r \in Runners, Halt(r)
  PROVE  RunsOK'
<1>1. Idle \in Run /\ LoopOK(Idle)
  BY ConstantsAssumption DEF Idle, Run, LoopOK, File, Errors, OSErrors
<1>2. QED
  BY <1>1, NewRunOK DEF Halt

LEMMA NextDateOK ==
  ASSUME RunsOK, NEW r \in Runners, run[r].pc \notin {"idle", "next"}, NextDate(r)
  PROVE  RunsOK'
<1> DEFINE x == [run[r] EXCEPT !.pc = "next", !.date = @ + 1, !.held = NoFile]
<1>0. /\ run[r] \in Run /\ run[r].last \in 1..NDates /\ run[r].date + 1 \in 1..(run[r].last + 1)
      /\ run[r].date + 1 \in 0..NDates + 1
  BY ConstantsAssumption DEF RunsOK, Run, LoopOK, Dates
<1>3a. x \in Run
  BY <1>0 DEF Run, File
<1>3b. LoopOK(x)
  BY <1>0 DEF Run, LoopOK, Dates
<1>1. run' = [run EXCEPT ![r] = x]
  BY DEF NextDate, RunsOK, Run
<1>2. QED
  BY <1>3a, <1>3b, <1>1, NewRunOK

LEMMA TallyOK ==
  ASSUME RunsOK, NEW r \in Runners, run[r].pc \notin {"idle", "next"},
         NEW p \in Payloads, Tally(r, p)
  PROVE  RunsOK'
<1> DEFINE x == [run[r] EXCEPT !.pc = "next", !.date = @ + 1, !.held = NoFile,
                               !.available = run[r].available + Rows[p]]
<1>1. Rows[p] \in Nat
  BY ConstantsAssumption
<1>0. /\ run[r] \in Run /\ run[r].last \in 1..NDates /\ run[r].date + 1 \in 1..(run[r].last + 1)
      /\ run[r].date + 1 \in 0..NDates + 1
  BY ConstantsAssumption DEF RunsOK, Run, LoopOK, Dates
<1>2. run[r].available + Rows[p] \in Nat
  BY <1>0, <1>1 DEF Run
<1>3a. x \in Run
  BY <1>0, <1>2 DEF Run, File
<1>3b. LoopOK(x)
  BY <1>0 DEF Run, LoopOK, Dates
<1>3. Halt(r) \/ run' = [run EXCEPT ![r] = x]
  BY DEF Tally, RunsOK, Run
<1>4. QED
  BY <1>3a, <1>3b, <1>3, HaltOK, NewRunOK

LEMMA RaiseOK ==
  ASSUME RunsOK, NEW r \in Runners, run[r].pc \notin {"idle", "next"},
         run[r].purpose # "skip", NEW e \in Errors, Raise(r, e)
  PROVE  RunsOK'
<1> DEFINE x == [run[r] EXCEPT !.pc = "fail", !.error = e]
<1>1. x \in Run /\ LoopOK(x)
  BY DEF RunsOK, Run, LoopOK
<1>2. run' = [run EXCEPT ![r] = x]
  BY DEF Raise, RunsOK, Run
<1>3. QED
  BY <1>1, <1>2, NewRunOK

(* The three ends of read_manifest, for a runner that has done the checks. *)
LEMMA NoPairOK ==
  ASSUME RunsOK, NEW r \in Runners, run[r].pc = "check", NoPair(r)
  PROVE  RunsOK'
<1>0. run[r] \in Run /\ LoopOK(run[r])
  BY DEF RunsOK
<1>1. CASE run[r].purpose = "skip"
  BY <1>1, NextDateOK DEF NoPair
<1>2. CASE run[r].purpose = "claim"
  <2> DEFINE x == [run[r] EXCEPT !.pc = "fetch"]
  <2>1. x \in Run /\ LoopOK(x)
    BY <1>0, <1>2 DEF Run, LoopOK
  <2>2. run' = [run EXCEPT ![r] = x]
    BY <1>2 DEF NoPair, Goto, RunsOK, Run
  <2>3. QED
    BY <2>1, <2>2, NewRunOK
<1>3. CASE run[r].purpose = "land"
  <2> DEFINE x == [run[r] EXCEPT !.pc = "response"]
  <2>1. x \in Run /\ LoopOK(x)
    BY <1>0, <1>3 DEF Run, LoopOK
  <2>2. run' = [run EXCEPT ![r] = x]
    BY <1>3 DEF NoPair, Goto, RunsOK, Run
  <2>3. QED
    BY <2>1, <2>2, NewRunOK
<1>4. QED
  BY <1>0, <1>1, <1>2, <1>3 DEF Run

LEMMA DamagedOK ==
  ASSUME RunsOK, NEW r \in Runners, run[r].pc \in {"check", "compare"}, Damaged(r)
  PROVE  RunsOK'
BY HaltOK, RaiseOK DEF Damaged, Errors

LEMMA FoundOK ==
  ASSUME RunsOK, NEW r \in Runners, run[r].pc = "compare", NEW p \in Payloads, Found(r, p)
  PROVE  RunsOK'
<1>1. CASE run[r].purpose = "skip"
  BY <1>1, TallyOK DEF Found
<1>2. CASE run[r].purpose # "skip"
  <2> DEFINE x == [run[r] EXCEPT !.pc = "complete", !.held = p]
  <2>1. x \in Run /\ LoopOK(x)
    BY <1>2 DEF RunsOK, Run, LoopOK, File
  <2>2. run' = [run EXCEPT ![r] = x]
    BY <1>2 DEF Found, RunsOK, Run
  <2>3. QED
    BY <2>1, <2>2, NewRunOK
<1>3. QED
  BY <1>1, <1>2

(* Types and local variables are preserved by every step. *)
LEMMA CheckpointWritten ==
  ASSUME checkpoint \in [Dates -> Entry], NEW d \in Dates, NEW s \in Statuses, NEW p \in File,
         Record(d, s, p)
  PROVE  checkpoint' \in [Dates -> Entry]
BY ConstantsAssumption DEF Record, Entry

LEMMA LocalStep == TypeOK /\ RunsOK /\ [Next]_vars => TypeOK' /\ RunsOK'
<1> SUFFICES ASSUME TypeOK, RunsOK, [Next]_vars PROVE TypeOK' /\ RunsOK'
  OBVIOUS
<1>t. RunsOK' /\ checkpoint' \in [Dates -> Entry] /\ response' \in [Dates -> File]
        /\ manifest' \in [Dates -> File] /\ faults' \in 0..MaxFaults
      => TypeOK' /\ RunsOK'
  BY DEF RunsOK, TypeOK
<1>f. Fault => faults' \in 0..MaxFaults
  BY ConstantsAssumption DEF Fault, TypeOK
<1>s. UNCHANGED checkpoint => checkpoint' \in [Dates -> Entry]
  BY DEF TypeOK
<1>u. UNCHANGED <<response, manifest, faults>>
         => response' \in [Dates -> File] /\ manifest' \in [Dates -> File] /\ faults' \in 0..MaxFaults
  BY DEF TypeOK
<1>v. UNCHANGED <<response, manifest>>
         => response' \in [Dates -> File] /\ manifest' \in [Dates -> File]
  BY DEF TypeOK
<1>d. ASSUME NEW r \in Runners PROVE
        /\ run[r] \in Run /\ LoopOK(run[r])
        /\ run[r].pc \notin {"idle", "next"} => run[r].date \in Dates
        /\ At(r, "next") /\ run[r].date <= run[r].last => run[r].date \in Dates
  BY ConstantsAssumption DEF RunsOK, LoopOK, Run, At, Dates
<1>1. ASSUME NEW r \in Runners, Start(r) PROVE TypeOK' /\ RunsOK'
  <2>1. PICK w \in Windows : EnsurePending(w)
            /\ run' = [run EXCEPT ![r] = [Idle EXCEPT !.pc = "next", !.date = w[1], !.last = w[2]]]
    BY <1>1 DEF Start
  <2> DEFINE x == [Idle EXCEPT !.pc = "next", !.date = w[1], !.last = w[2]]
  <2>c. w \in Dates \X Dates /\ w[1] <= w[2]
    BY ConstantsAssumption
  <2>0. w[1] \in 1..NDates /\ w[2] \in 1..NDates
    BY <2>c DEF Dates
  <2>p. /\ w[1] \in 0..NDates + 1 /\ w[2] \in 0..NDates /\ 0 \in 0..TaskTimeout
        /\ w[1] \in 1..(w[2] + 1)
    BY <2>0, <2>c, ConstantsAssumption
  <2>a. Idle \in Run /\ Idle.purpose = "skip"
    BY ConstantsAssumption DEF Idle, Run, File, Errors, OSErrors
  <2>b. x \in Run
    BY <2>a, <2>p DEF Run
  <2>2. x \in Run /\ LoopOK(x)
    BY <2>0, <2>p, <2>a, <2>b DEF LoopOK, Dates, Run
  <2>3. checkpoint' \in [Dates -> Entry]
    BY <2>1, ConstantsAssumption DEF EnsurePending, TypeOK, Entry, Statuses, File
  <2>4. RunsOK'
    BY <2>1, <2>2, NewRunOK
  <2>5. QED
    BY <1>1, <1>t, <1>u, <2>3, <2>4 DEF Start
<1>2. ASSUME NEW r \in Runners, Finish(r) PROVE TypeOK' /\ RunsOK'
  BY <1>2, <1>t, <1>s, <1>u, HaltOK DEF Finish
<1>3. ASSUME NEW r \in Runners, Claim(r) PROVE TypeOK' /\ RunsOK'
  <2> DEFINE x == [run[r] EXCEPT !.pc = "check", !.purpose = "claim"]
  <2>1. x \in Run /\ LoopOK(x)
    BY <1>3, <1>d DEF Claim, At, Run, LoopOK
  <2>2. run' = [run EXCEPT ![r] = x]
    BY <1>3 DEF Claim, RunsOK, Run
  <2>3. checkpoint' \in [Dates -> Entry]
    BY <1>3, <1>d, CheckpointWritten DEF Claim, TypeOK, Statuses, File
  <2>4. QED
    BY <1>3, <1>t, <1>u, <2>1, <2>2, <2>3, NewRunOK DEF Claim
<1>4. ASSUME NEW r \in Runners, Skip(r) PROVE TypeOK' /\ RunsOK'
  <2> DEFINE x == [run[r] EXCEPT !.pc = "check", !.purpose = "skip"]
  <2>1. x \in Run /\ LoopOK(x)
    BY <1>4, <1>d DEF Skip, At, Run, LoopOK
  <2>2. run' = [run EXCEPT ![r] = x]
    BY <1>4 DEF Skip, RunsOK, Run
  <2>3. QED
    BY <1>4, <1>s, <1>t, <1>u, <2>1, <2>2, NewRunOK DEF Skip
<1>5. ASSUME NEW r \in Runners, Check(r) PROVE TypeOK' /\ RunsOK'
  <2> DEFINE x == [run[r] EXCEPT !.pc = "compare", !.held = response[run[r].date]]
  <2>1. CASE NoPair(r) \/ Damaged(r)
    BY <1>5, <2>1, <1>s, <1>t, <1>u, NoPairOK, DamagedOK DEF Check, At
  <2>2. CASE response[run[r].date] # NoFile
             /\ run' = [run EXCEPT ![r].pc = "compare", ![r].held = response[run[r].date]]
    <3>1. response[run[r].date] \in Payloads
      BY <1>5, <1>d, <2>2 DEF Check, At, TypeOK, File
    <3>2. x \in Run /\ LoopOK(x)
      BY <1>5, <1>d, <3>1 DEF Check, At, Run, LoopOK, File
    <3>3. run' = [run EXCEPT ![r] = x]
      BY <2>2 DEF RunsOK, Run
    <3>4. QED
      BY <1>5, <1>s, <1>t, <1>u, <3>2, <3>3, NewRunOK DEF Check
  <2>3. QED
    BY <1>5, <2>1, <2>2 DEF Check, CheckPair
<1>6. ASSUME NEW r \in Runners, Compare(r) PROVE TypeOK' /\ RunsOK'
  <2>1. run[r].pc = "compare" /\ run[r].held \in Payloads
    BY <1>6, <1>d DEF Compare, At, LoopOK
  <2>2. CASE manifest[run[r].date] = run[r].held
    BY <1>6, <1>s, <1>t, <1>u, <2>1, <2>2, FoundOK DEF Compare, ComparePair
  <2>3. CASE manifest[run[r].date] # run[r].held
    BY <1>6, <1>s, <1>t, <1>u, <2>1, <2>3, DamagedOK DEF Compare, ComparePair
  <2>4. QED
    BY <2>2, <2>3
<1>6a. ASSUME NEW r \in Runners, ReadError(r) PROVE TypeOK' /\ RunsOK'
  BY <1>6a, <1>f, <1>s, <1>t, <1>v, DamagedOK DEF ReadError, At
<1>7. ASSUME NEW r \in Runners, Fetch(r) PROVE TypeOK' /\ RunsOK'
  <2>1. PICK p \in Payloads :
          run' = [run EXCEPT ![r].pc = "check", ![r].purpose = "land", ![r].held = p]
    BY <1>7 DEF Fetch
  <2> DEFINE x == [run[r] EXCEPT !.pc = "check", !.purpose = "land", !.held = p]
  <2>2. x \in Run /\ LoopOK(x)
    BY <1>7, <1>d DEF Fetch, At, Run, LoopOK, File
  <2>3. run' = [run EXCEPT ![r] = x]
    BY <2>1 DEF RunsOK, Run
  <2>4. QED
    BY <1>7, <1>s, <1>t, <1>u, <2>2, <2>3, NewRunOK DEF Fetch
<1>8. ASSUME NEW r \in Runners, FetchError(r) PROVE TypeOK' /\ RunsOK'
  <2>1. run[r].pc = "fetch" /\ run[r].purpose # "skip"
    BY <1>8, <1>d DEF FetchError, At, LoopOK
  <2>2. PICK e \in FetchErrors : Raise(r, e)
    BY <1>8 DEF FetchError
  <2>3. e \in Errors
    BY ConstantsAssumption DEF Errors, OSErrors
  <2>4. QED
    BY <1>8, <1>f, <1>s, <1>t, <1>v, <2>1, <2>2, <2>3, RaiseOK DEF FetchError
<1>9. ASSUME NEW r \in Runners, WriteResponse(r) PROVE TypeOK' /\ RunsOK'
  <2> DEFINE x == [run[r] EXCEPT !.pc = "manifest"]
  <2>1. x \in Run /\ LoopOK(x)
    BY <1>9, <1>d DEF WriteResponse, At, Run, LoopOK
  <2>2. run' = [run EXCEPT ![r] = x]
    BY <1>9 DEF WriteResponse, Goto, RunsOK, Run
  <2>3. response' \in [Dates -> File]
    BY <1>9, <1>d DEF WriteResponse, At, TypeOK, Run
  <2>4. manifest' \in [Dates -> File] /\ faults' \in 0..MaxFaults
    BY <1>9 DEF WriteResponse, TypeOK
  <2>5. QED
    BY <1>9, <1>s, <1>t, <2>1, <2>2, <2>3, <2>4, NewRunOK DEF WriteResponse
<1>10. ASSUME NEW r \in Runners, WriteManifest(r) PROVE TypeOK' /\ RunsOK'
  <2> DEFINE x == [run[r] EXCEPT !.pc = "complete"]
  <2>1. x \in Run /\ LoopOK(x)
    BY <1>10, <1>d DEF WriteManifest, At, Run, LoopOK
  <2>2. run' = [run EXCEPT ![r] = x]
    BY <1>10 DEF WriteManifest, Goto, RunsOK, Run
  <2>3. manifest' \in [Dates -> File]
    BY <1>10, <1>d DEF WriteManifest, At, TypeOK, Run
  <2>4. response' \in [Dates -> File] /\ faults' \in 0..MaxFaults
    BY <1>10 DEF WriteManifest, TypeOK
  <2>5. QED
    BY <1>10, <1>s, <1>t, <2>1, <2>2, <2>3, <2>4, NewRunOK DEF WriteManifest
<1>11. ASSUME NEW r \in Runners, WriteError(r) PROVE TypeOK' /\ RunsOK'
  <2>1. run[r].pc \notin {"idle", "next"} /\ run[r].purpose # "skip"
    BY <1>11, <1>d DEF WriteError, LoopOK
  <2>2. "OSError" \in Errors
    BY DEF Errors, OSErrors
  <2>3. QED
    BY <1>11, <1>f, <1>s, <1>t, <1>v, <2>1, <2>2, RaiseOK DEF WriteError
<1>12. ASSUME NEW r \in Runners, Complete(r) PROVE TypeOK' /\ RunsOK'
  <2>1. run[r].pc = "complete" /\ run[r].held \in Payloads /\ run[r].purpose # "skip"
    BY <1>12, <1>d DEF Complete, At, LoopOK
  <2>2. run[r].date \in Dates
    BY <1>d, <2>1
  <2>3. CASE Claimed(run[r].date)
    <3>1. CompletedStatus(run[r].held) \in Statuses /\ run[r].held \in File
      BY <2>1 DEF CompletedStatus, Statuses, Settled, File
    <3>2. checkpoint' \in [Dates -> Entry]
      BY <1>12, <2>2, <2>3, <3>1, CheckpointWritten DEF Complete, TypeOK
    <3>3. RunsOK'
      BY <1>12, <2>1, <2>3, TallyOK DEF Complete
    <3>4. QED
      BY <1>12, <1>t, <1>u, <3>2, <3>3 DEF Complete
  <2>4. CASE ~Claimed(run[r].date)
    BY <1>12, <1>s, <1>t, <1>u, <2>1, <2>4, RaiseOK DEF Complete, Errors
  <2>5. QED
    BY <2>3, <2>4
<1>13. ASSUME NEW r \in Runners, Fail(r) PROVE TypeOK' /\ RunsOK'
  <2>1. run[r].pc = "fail" /\ run[r].date \in Dates
    BY <1>13, <1>d DEF Fail, At
  <2>2. CASE Claimed(run[r].date)
    <3>1. checkpoint' \in [Dates -> Entry]
      <4>1. PICK st \in Statuses : Record(run[r].date, st, NoFile)
        BY <1>13, <2>2 DEF Fail, Statuses
      <4>2. QED
        BY <2>1, <4>1, CheckpointWritten DEF TypeOK, File
    <3>2. RunsOK'
      BY <1>13, <2>1, <2>2, NextDateOK DEF Fail
    <3>3. QED
      BY <1>13, <1>t, <1>u, <3>1, <3>2 DEF Fail
  <2>3. CASE ~Claimed(run[r].date)
    BY <1>13, <1>s, <1>t, <1>u, <2>3, HaltOK DEF Fail
  <2>4. QED
    BY <2>2, <2>3
<1>14. ASSUME NEW r \in Runners, Crash(r) PROVE TypeOK' /\ RunsOK'
  BY <1>14, <1>f, <1>s, <1>t, <1>v, HaltOK DEF Crash
<1>15. CASE Tick
  <2>1. \A r \in Runners : run'[r] \in Run /\ LoopOK(run'[r])
    <3> SUFFICES ASSUME NEW r \in Runners PROVE run'[r] \in Run /\ LoopOK(run'[r])
      OBVIOUS
    <3>1. CASE At(r, "idle")
      BY <1>15, <1>d, <3>1 DEF Tick
    <3>2. CASE ~At(r, "idle")
      <4>1. run'[r] = [run[r] EXCEPT !.elapsed = run[r].elapsed + 1]
        BY <1>15, <3>2 DEF Tick
      <4>2. run[r].elapsed + 1 \in 0..TaskTimeout
        BY <1>15, <1>d, <3>2, ConstantsAssumption DEF Tick, Run
      <4>3. QED
        BY <1>d, <4>1, <4>2 DEF Run, LoopOK
    <3>3. QED
      BY <3>1, <3>2
  <2>2. RunsOK'
    BY <1>15, <2>1 DEF Tick, RunsOK, LoopOK
  <2>3. checkpoint' \in [Dates -> Entry]
    BY <1>15, ConstantsAssumption DEF Tick, TypeOK, Entry, Older
  <2>4. QED
    BY <1>15, <1>t, <1>u, <2>2, <2>3 DEF Tick
<1>16. CASE UNCHANGED vars
  BY <1>16 DEF vars, TypeOK, RunsOK, LoopOK
<1>17. QED
  BY <1>1, <1>2, <1>3, <1>4, <1>5, <1>6, <1>6a, <1>7, <1>8, <1>9, <1>10, <1>11, <1>12, <1>13, <1>14,
     <1>15, <1>16 DEF Next, Step

----------------------------------------------------------------------------
(* The files and the claims.                                                *)

(* A step of r that leaves the dates held by others alone. *)
LEMMA StepOK ==
  ASSUME IInv, TypeOK', RunsOK', FilesOK', Grow,
         NEW r \in Runners, NEW x \in Run, run' = [run EXCEPT ![r] = x],
         Knows(x, checkpoint', response', manifest'),
         \A s \in Runners \ {r} : Holds(run[s]) =>
            /\ checkpoint'[run[s].date] = checkpoint[run[s].date]
            /\ response'[run[s].date] = response[run[s].date]
            /\ manifest'[run[s].date] = manifest[run[s].date]
            /\ Holds(x) => x.date # run[s].date
  PROVE  IInv'
<1>1. run'[r] = x /\ \A s \in Runners \ {r} : run'[s] = run[s]
  BY DEF IInv, RunsOK
<1>2. Exclusive'
  <2> SUFFICES ASSUME NEW p \in Runners, NEW q \in Runners, Holds(run'[p]), Holds(run'[q]),
                      run'[p].date = run'[q].date
               PROVE  p = q
    BY DEF Exclusive, Holds
  <2>1. CASE p = r \/ q = r
    BY <1>1, <2>1
  <2>2. CASE p # r /\ q # r
    BY <1>1, <2>2 DEF IInv, Exclusive
  <2>3. QED
    BY <2>1, <2>2
<1>3. ASSUME NEW s \in Runners \ {r} PROVE Knows(run[s], checkpoint', response', manifest')
  <2>1. Knows(run[s], checkpoint, response, manifest) /\ LoopOK(run[s]) /\ run[s] \in Run
    BY DEF IInv, RunsOK
  <2>2. CASE Holds(run[s])
    BY <2>1, <2>2 DEF Knows
  <2>3. CASE ~Holds(run[s])
    <3>1. run[s].pc \notin {"fetch", "response", "manifest", "complete"}
      BY <2>1, <2>3 DEF LoopOK, Holds
    <3>2. run[s].pc = "compare" => run[s].date \in Dates /\ run[s].held \in Payloads
      BY <2>1, ConstantsAssumption DEF LoopOK, Run, Dates
    <3>3. QED
      BY <2>1, <2>3, <3>1, <3>2, ConstantsAssumption DEF Knows, Grow
  <2>4. QED
    BY <2>2, <2>3
<1>4. \A s \in Runners : Knows(run'[s], checkpoint', response', manifest')
  BY <1>1, <1>3
<1>5. QED
  BY <1>2, <1>4 DEF IInv, Knows, Holds

(* A step that changes nothing but the local state of r, and gives it no new *)
(* claim.                                                                    *)
LEMMA QuietOK ==
  ASSUME IInv, TypeOK', RunsOK', UNCHANGED <<checkpoint, response, manifest>>,
         NEW r \in Runners, NEW x \in Run, run' = [run EXCEPT ![r] = x],
         Knows(x, checkpoint, response, manifest),
         Holds(x) => Holds(run[r]) /\ x.date = run[r].date
  PROVE  IInv' /\ Grow
<1>1. Grow /\ FilesOK'
  BY DEF IInv, Grow, FilesOK, SettledHasValidPair
<1>2. \A s \in Runners \ {r} : Holds(run[s]) /\ Holds(x) => x.date # run[s].date
  BY DEF IInv, Exclusive
<1>3. QED
  BY <1>1, <1>2, StepOK

(* ... in particular when it leaves the date. *)
LEMMA LeaveOK ==
  ASSUME IInv, TypeOK', RunsOK', UNCHANGED <<checkpoint, response, manifest>>,
         NEW r \in Runners, NEW x \in Run, run' = [run EXCEPT ![r] = x],
         x.pc \in {"idle", "next"}
  PROVE  IInv' /\ Grow
<1>1. ~Holds(x) /\ Knows(x, checkpoint, response, manifest)
  BY DEF Holds, Knows
<1>2. QED
  BY <1>1, QuietOK

LEMMA Leaves ==
  ASSUME RunsOK, RunsOK', NEW r \in Runners,
         Halt(r) \/ NextDate(r) \/ \E p \in Payloads : Tally(r, p)
  PROVE  /\ run'[r] \in Run /\ run' = [run EXCEPT ![r] = run'[r]]
         /\ run'[r].pc \in {"idle", "next"}
<1>1. run'[r] \in Run
  BY DEF RunsOK
<1>2. CASE Halt(r)
  BY <1>1, <1>2 DEF Halt, RunsOK, Idle
<1>3. CASE NextDate(r)
  BY <1>1, <1>3 DEF NextDate, RunsOK, Run
<1>4. CASE \E p \in Payloads : Tally(r, p)
  BY <1>1, <1>4 DEF Tally, Halt, RunsOK, Run, Idle
<1>5. QED
  BY <1>2, <1>3, <1>4

(* read_manifest by the owner of a date, and a failure of the owner. *)
LEMMA RaiseQuiet ==
  ASSUME IInv, TypeOK', RunsOK', UNCHANGED <<checkpoint, response, manifest>>,
         NEW r \in Runners, Holds(run[r]), NEW e \in Errors, Raise(r, e)
  PROVE  IInv' /\ Grow
<1> DEFINE x == [run[r] EXCEPT !.pc = "fail", !.error = e]
<1>1. run[r] \in Run /\ Knows(run[r], checkpoint, response, manifest)
  BY DEF IInv, RunsOK
<1>2. x \in Run
  BY <1>1 DEF Run
<1>3. run' = [run EXCEPT ![r] = x]
  BY DEF Raise, IInv, RunsOK, Run
<1>4. Knows(x, checkpoint, response, manifest) /\ x.date = run[r].date
  BY <1>1 DEF Knows, Holds, Run
<1>5. QED
  BY <1>2, <1>3, <1>4, QuietOK

LEMMA CheckKeeps ==
  ASSUME IInv, TypeOK', RunsOK', NEW r \in Runners, Check(r)
  PROVE  IInv' /\ Grow
<1>1. /\ run[r] \in Run /\ LoopOK(run[r]) /\ run[r].pc = "check"
      /\ Knows(run[r], checkpoint, response, manifest)
      /\ UNCHANGED <<checkpoint, response, manifest>>
  BY DEF IInv, RunsOK, Check, At
<1> DEFINE d == run[r].date
<1>2. CASE response[d] = NoFile /\ manifest[d] = NoFile /\ NoPair(r)
  <2>1. CASE run[r].purpose = "skip"
    <3>1. NextDate(r)
      BY <1>2, <2>1 DEF NoPair
    <3>2. QED
      BY <1>1, <3>1, Leaves, LeaveOK DEF IInv
  <2>2. CASE run[r].purpose # "skip"
    <3>1. PICK pc \in {"fetch", "response"} : run' = [run EXCEPT ![r] = [run[r] EXCEPT !.pc = pc]]
      BY <1>1, <1>2, <2>2 DEF NoPair, Goto, IInv, RunsOK, Run
    <3> DEFINE x == [run[r] EXCEPT !.pc = pc]
    <3>2. x \in Run /\ Holds(run[r]) /\ x.date = run[r].date
      BY <1>1, <2>2 DEF Run, Holds
    <3>3. Knows(x, checkpoint, response, manifest)
      BY <1>1, <1>2, <3>2 DEF Knows, Holds, Run
    <3>4. QED
      BY <1>1, <3>1, <3>2, <3>3, QuietOK
  <2>3. QED
    BY <2>1, <2>2
<1>3. CASE response[d] # NoFile /\ manifest[d] # NoFile
           /\ run' = [run EXCEPT ![r].pc = "compare", ![r].held = response[d]]
  <2> DEFINE x == [run[r] EXCEPT !.pc = "compare", !.held = response[d]]
  <2>1. run' = [run EXCEPT ![r] = x]
    BY <1>3 DEF IInv, RunsOK, Run
  <2>2. d \in Dates
    BY <1>1, ConstantsAssumption DEF LoopOK, Run, Dates
  <2>3. x \in Run /\ (Holds(x) => Holds(run[r]) /\ x.date = d)
    BY <1>1, <2>2 DEF IInv, TypeOK, Run, Holds
  <2>4. Knows(x, checkpoint, response, manifest)
    BY <1>1, <1>3 DEF Knows, Holds, Run
  <2>5. QED
    BY <1>1, <2>1, <2>3, <2>4, QuietOK
<1>4. CASE Damaged(r)
  <2>1. CASE run[r].purpose = "skip"
    BY <1>1, <1>4, <2>1, Leaves, LeaveOK DEF Damaged, IInv
  <2>2. CASE run[r].purpose # "skip"
    BY <1>1, <1>4, <2>2, RaiseQuiet DEF Damaged, Holds, Errors
  <2>3. QED
    BY <2>1, <2>2
<1>5. QED
  BY <1>2, <1>3, <1>4 DEF Check, CheckPair

LEMMA CompareKeeps ==
  ASSUME IInv, TypeOK', RunsOK', NEW r \in Runners, Compare(r)
  PROVE  IInv' /\ Grow
<1>1. /\ run[r] \in Run /\ LoopOK(run[r]) /\ run[r].pc = "compare" /\ run[r].held \in Payloads
      /\ Knows(run[r], checkpoint, response, manifest)
      /\ UNCHANGED <<checkpoint, response, manifest>>
  BY DEF IInv, RunsOK, Compare, At, LoopOK
<1> DEFINE d == run[r].date
<1>2. CASE run[r].purpose = "skip"
  <2>1. Halt(r) \/ \E p \in Payloads : Tally(r, p)
    BY <1>1, <1>2 DEF Compare, ComparePair, Found, Damaged
  <2>2. QED
    BY <1>1, <2>1, Leaves, LeaveOK DEF IInv
<1>3. CASE run[r].purpose # "skip" /\ manifest[d] # run[r].held
  BY <1>1, <1>3, RaiseQuiet DEF Compare, ComparePair, Damaged, Holds, Errors
<1>4. CASE run[r].purpose # "skip" /\ manifest[d] = run[r].held
  <2> DEFINE x == [run[r] EXCEPT !.pc = "complete", !.held = manifest[d]]
  <2>1. run' = [run EXCEPT ![r] = x]
    BY <1>4 DEF Compare, ComparePair, Found, IInv, RunsOK, Run
  <2>2. x \in Run /\ Holds(run[r]) /\ x.date = d
    BY <1>1, <1>4 DEF Run, Holds
  <2>3. Knows(x, checkpoint, response, manifest)
    BY <1>1, <1>4 DEF Knows, Holds, Run
  <2>4. QED
    BY <1>1, <2>1, <2>2, <2>3, QuietOK
<1>5. QED
  BY <1>2, <1>3, <1>4

(* The only place where the timing assumption enters: a claim that is held is *)
(* too young to be taken over.                                                *)
LEMMA HeldIsNotClaimable ==
  ASSUME IInv, TaskTimeout < StaleAfter, NEW s \in Runners, Holds(run[s])
  PROVE  ~Claimable(run[s].date) /\ run[s].date \in Dates
         /\ checkpoint[run[s].date].status = "in_progress"
<1>1. /\ run[s] \in Run /\ LoopOK(run[s]) /\ Knows(run[s], checkpoint, response, manifest)
  BY DEF IInv, RunsOK
<1>2. run[s].date \in Dates
  BY <1>1, ConstantsAssumption DEF Holds, LoopOK, Run, Dates
<1>3. /\ checkpoint[run[s].date].status = "in_progress"
      /\ checkpoint[run[s].date].age <= run[s].elapsed
  BY <1>1 DEF Knows
<1>4. run[s].elapsed <= TaskTimeout /\ checkpoint[run[s].date].age \in 0..StaleAfter
  BY <1>1, <1>2, ConstantsAssumption DEF Run, IInv, TypeOK, Entry
<1>5. ~(checkpoint[run[s].date].age >= StaleAfter)
  BY <1>1, <1>3, <1>4, ConstantsAssumption DEF Run
<1>6. QED
  BY <1>2, <1>3, <1>5 DEF Claimable

(* Writing the checkpoint of a date one holds leaves the files in order. *)
LEMMA RecordUnsettled ==
  ASSUME IInv, NEW d \in Dates, NEW st \in Statuses \ Settled, Record(d, st, NoFile),
         UNCHANGED <<response, manifest>>
  PROVE  FilesOK' /\ Grow /\ \A e \in Dates \ {d} : checkpoint'[e] = checkpoint[e]
<1>1. /\ checkpoint'[d].status = st
      /\ \A e \in Dates \ {d} : checkpoint'[e] = checkpoint[e]
  BY DEF Record, IInv, TypeOK
<1>2. QED
  BY <1>1 DEF IInv, FilesOK, SettledHasValidPair, Grow

LEMMA SharedStep ==
  ASSUME TaskTimeout < StaleAfter, IInv, [Next]_vars
  PROVE  IInv' /\ Grow
<1>t. TypeOK' /\ RunsOK'
  BY LocalStep DEF IInv
<1>r. ASSUME NEW r \in Runners
      PROVE  run[r] \in Run /\ LoopOK(run[r]) /\ Knows(run[r], checkpoint, response, manifest)
  BY DEF IInv, RunsOK
<1>d. ASSUME NEW r \in Runners, run[r].pc \notin {"idle", "next"} PROVE run[r].date \in Dates
  BY <1>r, <1>d, ConstantsAssumption DEF LoopOK, Run, Dates
<1>o. ASSUME NEW r \in Runners, NEW s \in Runners \ {r}, Holds(run[r]), Holds(run[s])
      PROVE  run[s].date # run[r].date /\ run[s].date \in Dates
  BY <1>o, <1>d DEF IInv, Exclusive, Holds
<1>1. ASSUME NEW r \in Runners, Start(r) PROVE IInv' /\ Grow
  <2>1. PICK w \in Windows : EnsurePending(w)
            /\ run' = [run EXCEPT ![r] = [Idle EXCEPT !.pc = "next", !.date = w[1], !.last = w[2]]]
    BY <1>1 DEF Start
  <2> DEFINE x == [Idle EXCEPT !.pc = "next", !.date = w[1], !.last = w[2]]
  <2>2. x = run'[r] /\ x \in Run /\ x.pc = "next"
    BY <2>1, <1>t DEF IInv, RunsOK, Idle
  <2>3. \A d \in Dates : checkpoint[d].status # "absent" => checkpoint'[d] = checkpoint[d]
    BY <2>1 DEF EnsurePending
  <2>4. \A d \in Dates : checkpoint[d].status = "absent" => checkpoint'[d].status \notin Settled
    BY <2>1 DEF EnsurePending, Settled
  <2>5. FilesOK' /\ Grow
    BY <1>1, <2>3, <2>4 DEF Start, IInv, FilesOK, SettledHasValidPair, Grow
  <2>6. ~Holds(x) /\ Knows(x, checkpoint', response', manifest')
    BY <2>2 DEF Holds, Knows
  <2>7. \A s \in Runners \ {r} : Holds(run[s]) =>
            /\ checkpoint'[run[s].date] = checkpoint[run[s].date]
            /\ response'[run[s].date] = response[run[s].date]
            /\ manifest'[run[s].date] = manifest[run[s].date]
            /\ Holds(x) => x.date # run[s].date
    BY <1>1, <1>r, <1>d, <2>3, <2>6 DEF Start, Holds, Knows
  <2>8. x \in Run /\ run' = [run EXCEPT ![r] = x]
    BY <2>1, <2>2
  <2> HIDE DEF x
  <2>9. QED
    BY <1>t, <2>5, <2>6, <2>7, <2>8, StepOK DEF IInv
<1>2. ASSUME NEW r \in Runners, Finish(r) PROVE IInv' /\ Grow
  BY <1>2, <1>t, Leaves, LeaveOK DEF Finish, IInv
<1>3. ASSUME NEW r \in Runners, Claim(r) PROVE IInv' /\ Grow
  <2> DEFINE x == [run[r] EXCEPT !.pc = "check", !.purpose = "claim"]
             d == run[r].date
  <2>1. d \in Dates
    BY <1>3, <1>r, ConstantsAssumption DEF Claim, At, LoopOK, Run, Dates
  <2>2. run' = [run EXCEPT ![r] = x] /\ x \in Run /\ x.date = d /\ x.pc = "check"
    BY <1>3, <1>r DEF Claim, IInv, RunsOK, Run
  <2>3. FilesOK' /\ Grow /\ \A e \in Dates \ {d} : checkpoint'[e] = checkpoint[e]
    BY <1>3, <2>1, RecordUnsettled DEF Claim, Statuses, Settled
  <2>4. checkpoint'[d].status = "in_progress" /\ checkpoint'[d].age = 0
    BY <1>3, <2>1 DEF Claim, Record, IInv, TypeOK
  <2>5. Knows(x, checkpoint', response', manifest')
    <3> HIDE DEF x
    <3>1. x.elapsed \in 0..TaskTimeout
      BY <2>2 DEF Run
    <3>2. QED
      BY <2>2, <2>4, <3>1, ConstantsAssumption DEF Knows
  <2>6. \A s \in Runners \ {r} : Holds(run[s]) => run[s].date # d /\ run[s].date \in Dates
    BY <1>3, HeldIsNotClaimable DEF Claim
  <2> HIDE DEF x
  <2>7. \A s \in Runners \ {r} : Holds(run[s]) =>
            /\ checkpoint'[run[s].date] = checkpoint[run[s].date]
            /\ response'[run[s].date] = response[run[s].date]
            /\ manifest'[run[s].date] = manifest[run[s].date]
            /\ Holds(x) => x.date # run[s].date
    BY <1>3, <2>2, <2>3, <2>6 DEF Claim
  <2>8. QED
    BY <1>t, <2>2, <2>3, <2>5, <2>7, StepOK DEF IInv
<1>4. ASSUME NEW r \in Runners, Skip(r) PROVE IInv' /\ Grow
  <2> DEFINE x == [run[r] EXCEPT !.pc = "check", !.purpose = "skip"]
  <2>1. run' = [run EXCEPT ![r] = x] /\ x \in Run /\ x.pc = "check" /\ x.purpose = "skip"
    BY <1>4, <1>r DEF Skip, IInv, RunsOK, Run
  <2>2. ~Holds(x) /\ Knows(x, checkpoint, response, manifest)
    BY <2>1 DEF Holds, Knows
  <2>3. QED
    BY <1>4, <1>t, <2>1, <2>2, QuietOK DEF Skip
<1>5. ASSUME NEW r \in Runners, Check(r) PROVE IInv' /\ Grow
  BY <1>5, <1>t, CheckKeeps
<1>6. ASSUME NEW r \in Runners, Compare(r) PROVE IInv' /\ Grow
  BY <1>6, <1>t, CompareKeeps
<1>6a. ASSUME NEW r \in Runners, ReadError(r) PROVE IInv' /\ Grow
  <2>1. CASE run[r].purpose = "skip"
    BY <1>6a, <1>t, <2>1, Leaves, LeaveOK DEF ReadError, Damaged, IInv
  <2>2. CASE run[r].purpose # "skip"
    BY <1>6a, <1>t, <2>2, RaiseQuiet DEF ReadError, Damaged, At, Holds, Errors
  <2>3. QED
    BY <2>1, <2>2
<1>7. ASSUME NEW r \in Runners, Fetch(r) PROVE IInv' /\ Grow
  <2>1. PICK p \in Payloads :
          run' = [run EXCEPT ![r].pc = "check", ![r].purpose = "land", ![r].held = p]
    BY <1>7 DEF Fetch
  <2> DEFINE x == [run[r] EXCEPT !.pc = "check", !.purpose = "land", !.held = p]
  <2>2. Holds(run[r]) /\ run[r].pc = "fetch"
    BY <1>7, <1>r DEF Fetch, At, LoopOK, Holds
  <2>2a. run' = [run EXCEPT ![r] = x]
    BY <2>1 DEF IInv, RunsOK, Run
  <2>2b. x \in Run /\ x.date = run[r].date /\ x.pc = "check" /\ x.elapsed = run[r].elapsed
    BY <1>r DEF Run, File
  <2>3. Knows(x, checkpoint, response, manifest)
    <3> HIDE DEF x
    <3>1. QED
      BY <1>r, <2>2, <2>2b DEF Knows
  <2> HIDE DEF x
  <2>4. UNCHANGED <<checkpoint, response, manifest>>
    BY <1>7 DEF Fetch
  <2>5. QED
    BY <1>t, <2>2, <2>2a, <2>2b, <2>3, <2>4, QuietOK
<1>8. ASSUME NEW r \in Runners, FetchError(r) PROVE IInv' /\ Grow
  <2>1. Holds(run[r])
    BY <1>8, <1>r DEF FetchError, At, LoopOK, Holds
  <2>2. PICK e \in FetchErrors : Raise(r, e)
    BY <1>8 DEF FetchError
  <2>3. e \in Errors
    BY ConstantsAssumption DEF Errors, OSErrors
  <2>4. QED
    BY <1>8, <1>t, <2>1, <2>2, <2>3, RaiseQuiet DEF FetchError
<1>9. ASSUME NEW r \in Runners, WriteResponse(r) PROVE IInv' /\ Grow
  <2> DEFINE x == [run[r] EXCEPT !.pc = "manifest"]
             d == run[r].date
  <2>1. d \in Dates /\ Holds(run[r]) /\ response[d] = NoFile /\ manifest[d] = NoFile
    BY <1>9, <1>r, <1>d DEF WriteResponse, At, LoopOK, Holds, Knows
  <2>2. run' = [run EXCEPT ![r] = x] /\ x \in Run /\ x.date = d /\ x.held = run[r].held
    BY <1>9, <1>r DEF WriteResponse, Goto, IInv, RunsOK, Run
  <2>3. response'[d] = run[r].held /\ \A e \in Dates \ {d} : response'[e] = response[e]
    BY <1>9, <2>1 DEF WriteResponse, IInv, TypeOK
  <2>4. UNCHANGED <<checkpoint, manifest>>
    BY <1>9 DEF WriteResponse
  <2>5. FilesOK' /\ Grow
    BY <2>1, <2>3, <2>4 DEF IInv, FilesOK, SettledHasValidPair, Grow
  <2>6. Knows(x, checkpoint', response', manifest')
    BY <1>r, <2>1, <2>2, <2>3, <2>4 DEF Knows, Holds, Run
  <2> HIDE DEF x
  <2>7. \A s \in Runners \ {r} : Holds(run[s]) =>
            /\ checkpoint'[run[s].date] = checkpoint[run[s].date]
            /\ response'[run[s].date] = response[run[s].date]
            /\ manifest'[run[s].date] = manifest[run[s].date]
            /\ Holds(x) => x.date # run[s].date
    BY <1>o, <2>1, <2>2, <2>3, <2>4
  <2>8. QED
    BY <1>t, <2>2, <2>5, <2>6, <2>7, StepOK
<1>10. ASSUME NEW r \in Runners, WriteManifest(r) PROVE IInv' /\ Grow
  <2> DEFINE x == [run[r] EXCEPT !.pc = "complete"]
             d == run[r].date
  <2>1. /\ d \in Dates /\ Holds(run[r]) /\ response[d] = run[r].held /\ manifest[d] = NoFile
        /\ run[r].held \in Payloads
    BY <1>10, <1>r, <1>d DEF WriteManifest, At, LoopOK, Holds, Knows
  <2>2. run' = [run EXCEPT ![r] = x] /\ x \in Run /\ x.date = d /\ x.held = run[r].held
    BY <1>10, <1>r DEF WriteManifest, Goto, IInv, RunsOK, Run
  <2>3. manifest'[d] = run[r].held /\ \A e \in Dates \ {d} : manifest'[e] = manifest[e]
    BY <1>10, <2>1 DEF WriteManifest, IInv, TypeOK
  <2>4. UNCHANGED <<checkpoint, response>>
    BY <1>10 DEF WriteManifest
  <2>5. FilesOK' /\ Grow
    BY <2>1, <2>3, <2>4 DEF IInv, FilesOK, SettledHasValidPair, Grow
  <2>6. Knows(x, checkpoint', response', manifest')
    BY <1>r, <2>1, <2>2, <2>3, <2>4, ConstantsAssumption DEF Knows, Holds, Run
  <2> HIDE DEF x
  <2>7. \A s \in Runners \ {r} : Holds(run[s]) =>
            /\ checkpoint'[run[s].date] = checkpoint[run[s].date]
            /\ response'[run[s].date] = response[run[s].date]
            /\ manifest'[run[s].date] = manifest[run[s].date]
            /\ Holds(x) => x.date # run[s].date
    BY <1>o, <2>1, <2>2, <2>3, <2>4
  <2>8. QED
    BY <1>t, <2>2, <2>5, <2>6, <2>7, StepOK
<1>11. ASSUME NEW r \in Runners, WriteError(r) PROVE IInv' /\ Grow
  <2>1. Holds(run[r]) /\ "OSError" \in Errors
    BY <1>11, <1>r DEF WriteError, LoopOK, Holds, Errors, OSErrors
  <2>2. QED
    BY <1>11, <1>t, <2>1, RaiseQuiet DEF WriteError
<1>12. ASSUME NEW r \in Runners, Complete(r) PROVE IInv' /\ Grow
  <2> DEFINE d == run[r].date
             p == run[r].held
  <2>1. /\ d \in Dates /\ Holds(run[r]) /\ p \in Payloads /\ Claimed(d)
        /\ response[d] = p /\ manifest[d] # NoFile
    BY <1>12, <1>r, <1>d DEF Complete, At, LoopOK, Holds, Knows, Claimed
  <2>2. Tally(r, p) /\ Record(d, CompletedStatus(p), p) /\ UNCHANGED <<response, manifest>>
    BY <1>12, <2>1 DEF Complete
  <2>3. run'[r] \in Run /\ run' = [run EXCEPT ![r] = run'[r]] /\ run'[r].pc \in {"idle", "next"}
    BY <1>t, <2>1, <2>2, Leaves DEF IInv
  <2>4. /\ checkpoint'[d].status = CompletedStatus(p) /\ checkpoint'[d].payload = p
        /\ \A e \in Dates \ {d} : checkpoint'[e] = checkpoint[e]
    BY <2>1, <2>2 DEF Record, IInv, TypeOK
  <2>5. manifest[d] = p
    BY <2>1 DEF IInv, FilesOK
  <2>6. FilesOK' /\ Grow
    BY <2>1, <2>2, <2>4, <2>5 DEF IInv, FilesOK, SettledHasValidPair, Grow, CompletedStatus
  <2>7. ~Holds(run'[r]) /\ Knows(run'[r], checkpoint', response', manifest')
    BY <2>3 DEF Holds, Knows
  <2>8. \A s \in Runners \ {r} : Holds(run[s]) =>
            /\ checkpoint'[run[s].date] = checkpoint[run[s].date]
            /\ response'[run[s].date] = response[run[s].date]
            /\ manifest'[run[s].date] = manifest[run[s].date]
            /\ Holds(run'[r]) => run'[r].date # run[s].date
    BY <1>o, <2>1, <2>2, <2>4, <2>7
  <2>9. QED
    BY <1>t, <2>3, <2>6, <2>7, <2>8, StepOK
<1>13. ASSUME NEW r \in Runners, Fail(r) PROVE IInv' /\ Grow
  <2> DEFINE d == run[r].date
  <2>1. d \in Dates /\ Holds(run[r]) /\ Claimed(d)
    BY <1>13, <1>r, <1>d DEF Fail, At, LoopOK, Holds, Knows, Claimed
  <2>2. PICK st \in Statuses \ Settled : Record(d, st, NoFile)
    BY <1>13, <2>1 DEF Fail, Statuses, Settled
  <2>3. NextDate(r) /\ UNCHANGED <<response, manifest>>
    BY <1>13, <2>1 DEF Fail
  <2>4. run'[r] \in Run /\ run' = [run EXCEPT ![r] = run'[r]] /\ run'[r].pc \in {"idle", "next"}
    BY <1>t, <2>3, Leaves DEF IInv
  <2>5. FilesOK' /\ Grow /\ \A e \in Dates \ {d} : checkpoint'[e] = checkpoint[e]
    BY <2>1, <2>2, <2>3, RecordUnsettled
  <2>6. ~Holds(run'[r]) /\ Knows(run'[r], checkpoint', response', manifest')
    BY <2>4 DEF Holds, Knows
  <2>7. \A s \in Runners \ {r} : Holds(run[s]) =>
            /\ checkpoint'[run[s].date] = checkpoint[run[s].date]
            /\ response'[run[s].date] = response[run[s].date]
            /\ manifest'[run[s].date] = manifest[run[s].date]
            /\ Holds(run'[r]) => run'[r].date # run[s].date
    BY <1>o, <2>1, <2>3, <2>5, <2>6
  <2>8. QED
    BY <1>t, <2>4, <2>5, <2>6, <2>7, StepOK
<1>14. ASSUME NEW r \in Runners, Crash(r) PROVE IInv' /\ Grow
  BY <1>14, <1>t, Leaves, LeaveOK DEF Crash, IInv
<1>15. CASE Tick
  <2>1. /\ \A d \in Dates : /\ checkpoint'[d].status = checkpoint[d].status
                            /\ checkpoint'[d].payload = checkpoint[d].payload
                            /\ checkpoint'[d].age <= checkpoint[d].age + 1
        /\ UNCHANGED <<response, manifest>>
    BY <1>15, ConstantsAssumption DEF Tick, IInv, TypeOK, Entry, Older
  <2>2. \A r \in Runners : run'[r] = IF run[r].pc = "idle" THEN run[r]
                                     ELSE [run[r] EXCEPT !.elapsed = run[r].elapsed + 1]
    BY <1>15 DEF Tick, At
  <2>3. FilesOK' /\ Grow
    BY <2>1 DEF IInv, FilesOK, SettledHasValidPair, Grow
  <2>4. ASSUME NEW r \in Runners
        PROVE  /\ Holds(run'[r]) <=> Holds(run[r])
               /\ run'[r].date = run[r].date
               /\ Knows(run'[r], checkpoint', response', manifest')
    <3>1. CASE run[r].pc = "idle"
      BY <2>2, <3>1 DEF Holds, Knows
    <3>2. CASE run[r].pc # "idle"
      <4>1. /\ run'[r].pc = run[r].pc /\ run'[r].purpose = run[r].purpose
            /\ run'[r].date = run[r].date /\ run'[r].held = run[r].held
            /\ run'[r].elapsed = run[r].elapsed + 1
        BY <1>r, <2>2, <3>2 DEF Run
      <4>2. Holds(run[r]) => /\ checkpoint'[run[r].date].status = "in_progress"
                             /\ checkpoint'[run[r].date].age <= run[r].elapsed + 1
        <5> SUFFICES ASSUME Holds(run[r]) PROVE /\ checkpoint'[run[r].date].status = "in_progress"
                                               /\ checkpoint'[run[r].date].age <= run[r].elapsed + 1
          OBVIOUS
        <5>1. run[r].date \in Dates
          BY <1>d DEF Holds
        <5>2. /\ checkpoint[run[r].date].age \in Int /\ run[r].elapsed \in Int
              /\ checkpoint'[run[r].date].age \in Int
          BY <1>r, <1>t, <5>1, ConstantsAssumption DEF IInv, TypeOK, Entry, Run
        <5>3. QED
          BY <1>r, <2>1, <5>1, <5>2 DEF Knows
      <4>3. QED
        BY <1>r, <2>1, <4>1, <4>2 DEF Holds, Knows
    <3>3. QED
      BY <3>1, <3>2
  <2>5. Exclusive'
    BY <2>4 DEF IInv, Exclusive, Holds
  <2>6. \A r \in Runners : Knows(run'[r], checkpoint', response', manifest')
    BY <2>4
  <2>7. QED
    BY <1>t, <2>3, <2>5, <2>6 DEF IInv, Knows, Holds
<1>16. CASE UNCHANGED vars
  BY <1>16 DEF vars, IInv, TypeOK, RunsOK, LoopOK, Exclusive, FilesOK, SettledHasValidPair,
               Knows, Holds, Grow
<1>17. QED
  BY <1>1, <1>2, <1>3, <1>4, <1>5, <1>6, <1>6a, <1>7, <1>8, <1>9, <1>10, <1>11, <1>12, <1>13, <1>14,
     <1>15, <1>16 DEF Next, Step

----------------------------------------------------------------------------
(* The theorems.                                                            *)

LEMMA InitOK == Init => IInv
<1> SUFFICES ASSUME Init PROVE IInv
  OBVIOUS
<1>1. Idle \in Run /\ LoopOK(Idle)
  BY ConstantsAssumption DEF Idle, Run, LoopOK, File, Errors, OSErrors
<1>2. \A r \in Runners : run[r] = Idle
  BY DEF Init
<1>3. [status |-> "absent", age |-> 0, payload |-> NoFile] \in Entry
  BY ConstantsAssumption DEF Entry, Statuses, File
<1>4. TypeOK
  BY <1>1, <1>3, ConstantsAssumption DEF Init, TypeOK, File
<1>5. RunsOK
  BY <1>1, <1>2 DEF Init, RunsOK
<1>6. Idle.pc = "idle"
  BY DEF Idle
<1>7. Exclusive /\ \A r \in Runners : Knows(run[r], checkpoint, response, manifest)
  BY <1>2, <1>6 DEF Exclusive, Knows, Holds
<1>8. FilesOK
  BY DEF Init, FilesOK, SettledHasValidPair, Settled
<1>9. QED
  BY <1>4, <1>5, <1>7, <1>8 DEF IInv

(* Type correctness needs no timing assumption. *)
THEOREM TypeCorrect == Spec => []TypeOK
<1>1. Init => TypeOK /\ RunsOK
  BY InitOK DEF IInv
<1>2. TypeOK /\ RunsOK /\ [Next]_vars => (TypeOK /\ RunsOK)'
  BY LocalStep
<1>3. QED
  BY <1>1, <1>2, PTL DEF Spec

(* The inductive invariant: when no run outlives the claims it takes. *)
THEOREM Inductive ==
  ASSUME TaskTimeout < StaleAfter
  PROVE  Spec => []IInv
<1>1. Init => IInv
  BY InitOK
<1>2. IInv /\ [Next]_vars => IInv'
  BY SharedStep
<1>3. QED
  BY <1>1, <1>2, PTL DEF Spec

(* Claims exclude: checkpoints.py's claim hands a date to one runner, and no *)
(* other runner takes it before that runner's complete or fail.              *)
THEOREM ClaimsExclude ==
  ASSUME TaskTimeout < StaleAfter
  PROVE  Spec => []ClaimIsExclusive
<1>1. IInv => ClaimIsExclusive
  BY DEF IInv, Exclusive, Knows, Holds, ClaimIsExclusive, Owns, Claimed
<1>2. QED
  BY <1>1, Inductive, PTL

(* A date reported completed or no_data has a valid pair, of the response the *)
(* checkpoint describes.                                                      *)
THEOREM SettledDatesHavePairs ==
  ASSUME TaskTimeout < StaleAfter
  PROVE  Spec => []SettledHasValidPair
<1>1. IInv => SettledHasValidPair
  BY DEF IInv, FilesOK
<1>2. QED
  BY <1>1, Inductive, PTL

(* No run, after whatever interruption, asks the API for a landed date. *)
THEOREM NoCallForLandedDates ==
  ASSUME TaskTimeout < StaleAfter
  PROVE  Spec => []NothingLandedAtFetch
<1>1. IInv => NothingLandedAtFetch
  BY DEF IInv, Knows, NothingLandedAtFetch, At
<1>2. QED
  BY <1>1, Inductive, PTL

(* The landed pairs are immutable, as the docstring of DailyLandingStore says, *)
(* whenever runs are killed before their claims can be taken over.             *)
THEOREM LandedPairsAreImmutable ==
  ASSUME TaskTimeout < StaleAfter
  PROVE  Spec => LandedFilesNeverChange
<1>1. IInv /\ [Next]_vars =>
        [\A d \in Dates : /\ response[d] # NoFile => response'[d] = response[d]
                          /\ manifest[d] # NoFile => manifest'[d] = manifest[d]]_vars
  BY SharedStep DEF Grow
<1>2. QED
  BY <1>1, Inductive, PTL DEF Spec, LandedFilesNeverChange

----------------------------------------------------------------------------
(* The refinement: under the same timing assumption the job implements the  *)
(* daily ledger.                                                            *)

(* How far a date has come, when its files are in order. *)
StageFound(d) == IF IsSettled(d) THEN "settled"
                 ELSE IF manifest[d] # NoFile THEN "paired"
                 ELSE IF response[d] # NoFile THEN "landed" ELSE "missing"

LEMMA StageIs ==
  ASSUME FilesOK, NEW d \in Dates
  PROVE  Stage(d) = StageFound(d)
<1>1. IsSettled(d) => Paired(d)
  BY DEF FilesOK, SettledHasValidPair, IsSettled, Paired
<1>2. Paired(d) <=> manifest[d] # NoFile
  BY DEF FilesOK, Paired
<1>3. QED
  BY <1>1, <1>2 DEF Stage, StageFound

LEMMA StageIsNext ==
  ASSUME FilesOK', NEW d \in Dates
  PROVE  Stage(d)' = StageFound(d)'
<1>1. IsSettled(d)' => Paired(d)'
  BY DEF FilesOK, SettledHasValidPair, IsSettled, Paired
<1>2. Paired(d)' <=> manifest'[d] # NoFile
  BY DEF FilesOK, Paired
<1>3. QED
  BY <1>1, <1>2 DEF Stage, StageFound

(* Steps that touch neither file and settle nothing are stutters. *)
LEMMA StagesKept ==
  ASSUME FilesOK, FilesOK', UNCHANGED <<response, manifest>>,
         \A d \in Dates : IsSettled(d)' <=> IsSettled(d)
  PROVE  UNCHANGED Ledger!vars
<1>1. ASSUME NEW d \in Dates PROVE Stage(d)' = Stage(d)
  BY StageIs, StageIsNext DEF StageFound
<1>2. QED
  BY <1>1 DEF Ledger!vars

(* A step in which one date advances. *)
LEMMA OneAdvances ==
  ASSUME FilesOK, FilesOK', NEW d \in Dates, NEW from, NEW to,
         StageFound(d) = from, StageFound(d)' = to,
         \A e \in Dates \ {d} : StageFound(e)' = StageFound(e)
  PROVE  Ledger!Advance(d, from, to)
<1>1. Stage(d) = from /\ Stage(d)' = to /\ \A e \in Dates \ {d} : Stage(e)' = Stage(e)
  BY StageIs, StageIsNext
<1>2. QED
  BY <1>1 DEF Ledger!Advance

LEMMA LedgerStep ==
  ASSUME TaskTimeout < StaleAfter, IInv, [Next]_vars
  PROVE  [Ledger!Next]_(Ledger!vars)
<1>k. IInv' /\ FilesOK /\ FilesOK' /\ TypeOK
  BY SharedStep DEF IInv
<1>r. ASSUME NEW r \in Runners
      PROVE  LoopOK(run[r]) /\ Knows(run[r], checkpoint, response, manifest) /\ run[r] \in Run
  BY DEF IInv, RunsOK
<1>d. ASSUME NEW r \in Runners, run[r].pc \notin {"idle", "next"} PROVE run[r].date \in Dates
  BY <1>r, <1>d, ConstantsAssumption DEF LoopOK, Run, Dates
<1>1. CASE UNCHANGED <<response, manifest>> /\ \A d \in Dates : IsSettled(d)' <=> IsSettled(d)
  BY <1>1, <1>k, StagesKept
<1>2. ASSUME UNCHANGED <<checkpoint, response, manifest>> PROVE [Ledger!Next]_(Ledger!vars)
  BY <1>1, <1>2 DEF IsSettled
<1>3. ASSUME NEW r \in Runners, Start(r) PROVE [Ledger!Next]_(Ledger!vars)
  <2>1. PICK w \in Windows : EnsurePending(w)
    BY <1>3 DEF Start
  <2>2. \A d \in Dates : IsSettled(d)' <=> IsSettled(d)
    BY <2>1 DEF EnsurePending, IsSettled, Settled
  <2>3. QED
    BY <1>1, <1>3, <2>2 DEF Start
<1>4. ASSUME NEW r \in Runners, Claim(r) PROVE [Ledger!Next]_(Ledger!vars)
  <2>1. \A d \in Dates : IsSettled(d)' <=> IsSettled(d)
    BY <1>4, <1>k DEF Claim, Claimable, Record, IsSettled, Settled, TypeOK
  <2>2. QED
    BY <1>1, <1>4, <2>1 DEF Claim
<1>5. ASSUME NEW r \in Runners, WriteResponse(r) PROVE [Ledger!Next]_(Ledger!vars)
  <2>0. PICK d \in Dates, b \in File : d = run[r].date /\ b = run[r].held
    BY <1>5, <1>r, <1>d DEF WriteResponse, At, Run
  <2>1. b \in Payloads /\ b # NoFile /\ response[d] = NoFile /\ manifest[d] = NoFile
        /\ checkpoint[d].status = "in_progress"
    BY <1>5, <1>r, <2>0, ConstantsAssumption DEF WriteResponse, At, LoopOK, Knows, Holds
  <2>2. response' = [response EXCEPT ![d] = b] /\ UNCHANGED <<checkpoint, manifest>>
    BY <1>5, <2>0 DEF WriteResponse
  <2>3. StageFound(d) = "missing" /\ StageFound(d)' = "landed"
    BY <2>1, <2>2, <1>k DEF StageFound, IsSettled, Settled, TypeOK
  <2>4. \A e \in Dates \ {d} : StageFound(e)' = StageFound(e)
    BY <2>2, <1>k DEF StageFound, IsSettled, TypeOK
  <2>5. Ledger!Advance(d, "missing", "landed")
    BY <1>k, <2>1, <2>3, <2>4, OneAdvances
  <2>6. QED
    BY <2>1, <2>2, <2>5 DEF Ledger!Next, Ledger!Land
<1>6. ASSUME NEW r \in Runners, WriteManifest(r) PROVE [Ledger!Next]_(Ledger!vars)
  <2>0. PICK d \in Dates, b \in File : d = run[r].date /\ b = run[r].held
    BY <1>6, <1>r, <1>d DEF WriteManifest, At, Run
  <2>1. b \in Payloads /\ b # NoFile /\ response[d] = b /\ manifest[d] = NoFile
        /\ checkpoint[d].status = "in_progress"
    BY <1>6, <1>r, <2>0, ConstantsAssumption DEF WriteManifest, At, LoopOK, Knows, Holds
  <2>2. manifest' = [manifest EXCEPT ![d] = b] /\ UNCHANGED <<checkpoint, response>>
    BY <1>6, <2>0 DEF WriteManifest
  <2>3. StageFound(d) = "landed" /\ StageFound(d)' = "paired"
    BY <2>1, <2>2, <1>k DEF StageFound, IsSettled, Settled, TypeOK
  <2>4. \A e \in Dates \ {d} : StageFound(e)' = StageFound(e)
    BY <2>2, <1>k DEF StageFound, IsSettled, TypeOK
  <2>5. Ledger!Advance(d, "landed", "paired")
    BY <1>k, <2>1, <2>3, <2>4, OneAdvances
  <2>6. QED
    BY <2>1, <2>2, <2>5 DEF Ledger!Next, Ledger!Pair
<1>7. ASSUME NEW r \in Runners, Complete(r) PROVE [Ledger!Next]_(Ledger!vars)
  <2>0. PICK d \in Dates, b \in File : d = run[r].date /\ b = run[r].held
    BY <1>7, <1>r, <1>d DEF Complete, At, Run
  <2>1. manifest[d] # NoFile /\ checkpoint[d].status = "in_progress"
    BY <1>7, <1>r, <2>0 DEF Complete, At, LoopOK, Knows, Holds
  <2>2. Record(d, CompletedStatus(b), b) /\ UNCHANGED <<response, manifest>>
    BY <1>7, <2>0, <2>1 DEF Complete, Claimed
  <2>3. checkpoint'[d].status \in Settled /\ \A e \in Dates \ {d} : checkpoint'[e] = checkpoint[e]
    BY <2>1, <2>2, <1>k DEF Record, CompletedStatus, Settled, TypeOK
  <2>4. StageFound(d) = "paired" /\ StageFound(d)' = "settled"
    BY <2>1, <2>3 DEF StageFound, IsSettled, Settled
  <2>5. \A e \in Dates \ {d} : StageFound(e)' = StageFound(e)
    BY <2>2, <2>3 DEF StageFound, IsSettled
  <2>6. Ledger!Advance(d, "paired", "settled")
    BY <1>k, <2>1, <2>4, <2>5, OneAdvances
  <2>7. QED
    BY <2>1, <2>2, <2>6 DEF Ledger!Next, Ledger!Settle
<1>8. ASSUME NEW r \in Runners, Fail(r) PROVE [Ledger!Next]_(Ledger!vars)
  <2> DEFINE d == run[r].date
  <2>1. d \in Dates /\ checkpoint[d].status = "in_progress"
    BY <1>8, <1>r, <1>d DEF Fail, At, LoopOK, Knows, Holds
  <2>2. PICK st \in Statuses \ Settled : Record(d, st, NoFile)
    BY <1>8, <2>1 DEF Fail, Claimed, Statuses, Settled
  <2>3. \A e \in Dates : IsSettled(e)' <=> IsSettled(e)
    BY <2>1, <2>2, <1>k DEF Record, IsSettled, Settled, TypeOK
  <2>4. QED
    BY <1>1, <1>8, <2>3 DEF Fail
<1>9. ASSUME Tick PROVE [Ledger!Next]_(Ledger!vars)
  <2>1. \A d \in Dates : checkpoint'[d].status = checkpoint[d].status
    BY <1>9, <1>k DEF Tick, TypeOK, Entry
  <2>2. QED
    BY <1>1, <1>9, <2>1 DEF Tick, IsSettled
<1>10. QED
  BY <1>2, <1>3, <1>4, <1>5, <1>6, <1>7, <1>8, <1>9
     DEF Next, Step, Finish, Skip, Check, Compare, Fetch, FetchError, ReadError, WriteError,
         Crash, vars

(* The job implements DailyLedger: over all runs, crashes and retries a date  *)
(* lands once, is paired once and settles once, with one response.            *)
THEOREM JobImplementsLedger ==
  ASSUME TaskTimeout < StaleAfter
  PROVE  Spec => ImplementsLedger
<1>1. Init => Ledger!Init
  <2> SUFFICES ASSUME Init PROVE Ledger!Init
    OBVIOUS
  <2>1. FilesOK
    BY InitOK DEF IInv
  <2>2. \A d \in Dates : Stage(d) = "missing"
    BY <2>1, StageIs DEF StageFound, Init, IsSettled, Settled
  <2>3. QED
    BY <2>2 DEF Init, Ledger!Init
<1>2. IInv /\ [Next]_vars => [Ledger!Next]_(Ledger!vars)
  BY LedgerStep
<1>3. QED
  BY <1>1, <1>2, Inductive, PTL DEF Spec, ImplementsLedger, Ledger!Spec
=============================================================================
