-------------------------- MODULE SftpTransferProofs --------------------------
(***************************************************************************)
(* SftpTransfer for any finite set of files, any number of permits and     *)
(* retries: its permits are conserved, the limit holds, only mismatches pin *)
(* permits, and every mismatch has an incident of its own to blame.        *)
(***************************************************************************)
EXTENDS SftpTransfer, SumProofs

\* A goroutine holds the permits of its earlier attempts, and that of the one
\* it is in: the loop defers a release per attempt.
HeldByAttempt ==
  \A f \in Files :
    /\ pc[f] \in {"absent", "ended"} => held[f] = 0
    /\ pc[f] \in {"absent"} => attempt[f] = 1
    /\ pc[f] = "loop" => held[f] = attempt[f] - 1
    /\ pc[f] \in Body => held[f] = attempt[f] /\ attempt[f] <= MaxRetries + 1

\* PermitsConserved, with the sum the lemmas are about.
Conserved == free + SumOf(held, Files) = MaxParallel

\* The permits a goroutine holds for no work.
Idle == [f \in Files |-> held[f] - (IF pc[f] \in Body THEN 1 ELSE 0)]

\* Each of them was pinned by a mismatch.
MismatchesPin == SumOf(Idle, Files) <= mismatches

\* Outcomes come at the end, and the walk waits for every goroutine it started.
Progress ==
  /\ \A f \in Files : outcome[f] = "none" <=> pc[f] # "ended"
  /\ \A f \in unvisited : pc[f] = "absent"
  /\ main \in {"waiting", "done"} => unvisited = {}
  /\ main = "done" => \A f \in Files : pc[f] = "ended"

\* The inductive invariant of an upload.
SftpInv ==
  /\ TypeOK /\ Conserved /\ HeldByAttempt /\ MismatchesPin
  /\ Progress

\* An attempt that is bound to end in a mismatch, unless another incident, or an
\* error, comes in between: the source is no longer what was hashed, or the copy
\* is not.
Doomed(f) ==
  \/ pc[f] \in {"create", "copy"} /\ sum[f] # local[f]
  \/ pc[f] = "check" /\ remote[f] # sum[f]

\* The mismatches still to come of what has happened.
Due == [f \in Files |-> IF Doomed(f) THEN 1 ELSE 0]

\* Each mismatch, seen or to come, took an edit or a bad copy.
CausesLeft == mismatches + SumOf(Due, Files) <= bad

-----------------------------------------------------------------------------
(* The sums.                                                               *)

\* PermitsConserved is about the same sum.
LEMMA ConservedIs == PermitsConserved <=> Conserved
  BY DEF PermitsConserved, Conserved, SumOf

\* A goroutine that takes or returns permits moves them between the semaphore
\* and itself.
LEMMA PermitsMove ==
  ASSUME TypeOK, Conserved, NEW f \in Files, NEW n \in Nat,
         held' = [held EXCEPT ![f] = n], free' = free + held[f] - n, free' >= 0
  PROVE  Conserved' /\ free' \in 0 .. MaxParallel
<1>1. held \in [Files -> Nat] /\ held' \in [Files -> Nat]
  BY DEF TypeOK
<1>2. held \in [Files -> Int] /\ held' \in [Files -> Int]
  BY <1>1
<1>3. held'[f] = n /\ held[f] \in Int /\ \A g \in Files : g # f => held'[g] = held[g]
  BY <1>1
<1>4. SumOf(held', Files) = SumOf(held, Files) + held'[f] - held[f]
  <2> DEFINE h == held
             k == held'
  <2>1. /\ h \in [Files -> Int] /\ k \in [Files -> Int]
        /\ \A g \in Files : g # f => k[g] = h[g]
    BY <1>2
  <2> HIDE DEF h, k
  <2>2. SumOf(k, Files) = SumOf(h, Files) + k[f] - h[f]
    BY <2>1, FilesAssumption, SumChanges
  <2> QED
    BY <2>2 DEF h, k
<1>5. free + SumOf(held, Files) = MaxParallel
  BY DEF Conserved
<1>6. SumOf(held, Files) \in Nat /\ SumOf(held', Files) \in Nat
  BY <1>1, FilesAssumption, SumNatural
<1>7. free \in Int /\ MaxParallel \in Nat
  BY FlagAssumption DEF TypeOK
<1>8. free' + SumOf(held', Files) = MaxParallel /\ free' \in 0 .. MaxParallel
  BY <1>3, <1>4, <1>5, <1>6, <1>7
<1> QED
  BY <1>8 DEF Conserved

\* A goroutine pins no more permits than it had, or sees a mismatch for each.
LEMMA IdleMoves ==
  ASSUME TypeOK, MismatchesPin, NEW f \in Files, held' \in [Files -> Int],
         \A g \in Files : g # f => held'[g] = held[g] /\ pc'[g] = pc[g],
         mismatches' \in Nat, Idle'[f] - Idle[f] <= mismatches' - mismatches
  PROVE  MismatchesPin'
<1>1. Idle \in [Files -> Int] /\ Idle' \in [Files -> Int]
  BY DEF TypeOK, Idle
<1>2. \A g \in Files : g # f => Idle'[g] = Idle[g]
  BY DEF Idle
<1>3. SumOf(Idle', Files) = SumOf(Idle, Files) + Idle'[f] - Idle[f]
  BY <1>1, <1>2, FilesAssumption, SumChanges
<1>4. SumOf(Idle, Files) \in Int /\ Idle[f] \in Int /\ Idle'[f] \in Int
  BY <1>1, FilesAssumption, SumType
<1>5. mismatches \in Nat /\ SumOf(Idle, Files) <= mismatches
  BY DEF TypeOK, MismatchesPin
<1>6. SumOf(Idle', Files) <= mismatches'
  BY <1>3, <1>4, <1>5
<1> QED
  BY <1>6 DEF MismatchesPin

-----------------------------------------------------------------------------

\* The invariant holds before anything is started.
LEMMA SftpInit == Init => SftpInv
<1> SUFFICES ASSUME Init PROVE SftpInv
  OBVIOUS
<1> DEFINE zero == [f \in Files |-> IF f \in {} THEN 1 ELSE 0]
<1>1. SumOf(zero, Files) = 0
  BY SumCounts, FS_EmptySet, FilesAssumption
<1>2. held = zero /\ Idle = zero
  BY DEF Init, Idle, Body
<1>3. TypeOK
  BY FlagAssumption, BadAssumption DEF Init, TypeOK
<1>4. Conserved
  BY <1>1, FlagAssumption DEF Init, Conserved
<1>5. MismatchesPin
  BY <1>1, <1>2 DEF Init, MismatchesPin
<1> QED
  BY <1>3, <1>4, <1>5 DEF Init, SftpInv, HeldByAttempt, Progress, Body

\* Taking a permit moves one from the pool to the goroutine.
LEMMA AcquireStep ==
  ASSUME SftpInv, NEW f \in Files, Acquire(f)
  PROVE  SftpInv'
<1>1. /\ TypeOK /\ Conserved /\ HeldByAttempt /\ MismatchesPin
      /\ Progress
  BY DEF SftpInv
<1>2. Conserved' /\ free' \in 0 .. MaxParallel
  <2>1. held[f] + 1 \in Nat /\ free' = free + held[f] - (held[f] + 1) /\ free' >= 0
    BY <1>1 DEF Acquire, TypeOK
  <2>2. held' = [held EXCEPT ![f] = held[f] + 1]
    BY DEF Acquire
  <2> QED
    BY <1>1, <2>1, <2>2, PermitsMove
<1>3. TypeOK'
  BY <1>1, FlagAssumption DEF Acquire, Runs, CallerUnchanged, TypeOK, Body,
     HeldByAttempt
<1>4. HeldByAttempt'
  BY <1>1 DEF Acquire, Runs, TypeOK, HeldByAttempt
<1>5. MismatchesPin'
  <2>1. \A g \in Files : g # f => held'[g] = held[g] /\ pc'[g] = pc[g]
    BY DEF Acquire
  <2>2. Idle'[f] - Idle[f] <= mismatches' - mismatches
    BY <1>1 DEF Acquire, Runs, TypeOK, Idle, Body
  <2>3. held' \in [Files -> Int] /\ mismatches' \in Nat
    BY <1>3 DEF TypeOK
  <2> QED
    BY <1>1, <2>1, <2>2, <2>3, IdleMoves
<1>6. Progress'
  BY <1>1 DEF Acquire, Runs, CallerUnchanged, Progress
<1> QED
  BY <1>2, <1>3, <1>4, <1>5, <1>6 DEF SftpInv

\* A goroutine that has no attempts left returns its permits.
LEMMA GiveUpStep ==
  ASSUME SftpInv, NEW f \in Files, GiveUp(f)
  PROVE  SftpInv'
<1>1. /\ TypeOK /\ Conserved /\ HeldByAttempt /\ MismatchesPin
      /\ Progress
  BY DEF SftpInv
<1>2. Conserved' /\ free' \in 0 .. MaxParallel
  <2>1. 0 \in Nat /\ free' = free + held[f] - 0 /\ free' >= 0
    BY <1>1 DEF GiveUp, End, TypeOK
  <2>2. held' = [held EXCEPT ![f] = 0]
    BY DEF GiveUp, End
  <2> QED
    BY <1>1, <2>1, <2>2, PermitsMove
<1>3. TypeOK'
  BY <1>1, <1>2, FlagAssumption DEF GiveUp, End, CallerUnchanged, TypeOK
<1>4. HeldByAttempt'
  BY <1>1 DEF GiveUp, End, TypeOK, HeldByAttempt, Body
<1>5. MismatchesPin'
  <2>1. \A g \in Files : g # f => held'[g] = held[g] /\ pc'[g] = pc[g]
    BY DEF GiveUp, End
  <2>2. Idle'[f] - Idle[f] <= mismatches' - mismatches
    BY <1>1 DEF GiveUp, End, TypeOK, Idle, HeldByAttempt
  <2>3. held' \in [Files -> Int] /\ mismatches' \in Nat
    BY <1>3 DEF TypeOK
  <2> QED
    BY <1>1, <2>1, <2>2, <2>3, IdleMoves
<1>6. Progress'
  BY <1>1 DEF GiveUp, End, Runs, CallerUnchanged, TypeOK, Progress
<1> QED
  BY <1>2, <1>3, <1>4, <1>5, <1>6 DEF SftpInv

\* So does one that fails.
LEMMA FailStep ==
  ASSUME SftpInv, NEW f \in Files, Fail(f)
  PROVE  SftpInv'
<1>1. /\ TypeOK /\ Conserved /\ HeldByAttempt /\ MismatchesPin
      /\ Progress
  BY DEF SftpInv
<1>2. Conserved' /\ free' \in 0 .. MaxParallel
  <2>1. 0 \in Nat /\ free' = free + held[f] - 0 /\ free' >= 0
    BY <1>1 DEF Fail, End, TypeOK
  <2>2. held' = [held EXCEPT ![f] = 0]
    BY DEF Fail, End
  <2> QED
    BY <1>1, <2>1, <2>2, PermitsMove
<1>3. TypeOK'
  BY <1>1, <1>2, FlagAssumption DEF Fail, End, CallerUnchanged, TypeOK
<1>4. HeldByAttempt'
  BY <1>1 DEF Fail, End, TypeOK, HeldByAttempt, Body
<1>5. MismatchesPin'
  <2>1. \A g \in Files : g # f => held'[g] = held[g] /\ pc'[g] = pc[g]
    BY DEF Fail, End
  <2>2. Idle'[f] - Idle[f] <= mismatches' - mismatches
    BY <1>1 DEF Fail, End, TypeOK, Idle, HeldByAttempt
  <2>3. held' \in [Files -> Int] /\ mismatches' \in Nat
    BY <1>3 DEF TypeOK
  <2> QED
    BY <1>1, <2>1, <2>2, <2>3, IdleMoves
<1>6. Progress'
  BY <1>1 DEF Fail, End, Runs, CallerUnchanged, TypeOK, Progress, Body
<1> QED
  BY <1>2, <1>3, <1>4, <1>5, <1>6 DEF SftpInv

\* The comparison ends the loop, or keeps a permit for a mismatch it counts.
LEMMA CheckStep ==
  ASSUME SftpInv, NEW f \in Files, Check(f)
  PROVE  SftpInv'
<1>1. /\ TypeOK /\ Conserved /\ HeldByAttempt /\ MismatchesPin
      /\ Progress
  BY DEF SftpInv
<1>2. Conserved' /\ free' \in 0 .. MaxParallel
  <2>1. CASE remote[f] = sum[f]
    <3>1. 0 \in Nat /\ free' = free + held[f] - 0 /\ free' >= 0
      BY <1>1, <2>1 DEF Check, End, TypeOK
    <3>2. held' = [held EXCEPT ![f] = 0]
      BY <2>1 DEF Check, End
    <3> QED
      BY <1>1, <3>1, <3>2, PermitsMove
  <2>2. CASE remote[f] # sum[f]
    BY <1>1, <2>2 DEF Check, TypeOK, Conserved
  <2> QED
    BY <2>1, <2>2
<1>3. TypeOK'
  BY <1>1, <1>2, FlagAssumption DEF Check, End, Runs, CallerUnchanged, TypeOK,
     HeldByAttempt
<1>4. HeldByAttempt'
  BY <1>1 DEF Check, End, Runs, TypeOK, HeldByAttempt, Body
<1>5. MismatchesPin'
  <2>1. \A g \in Files : g # f => held'[g] = held[g] /\ pc'[g] = pc[g]
    BY <1>1 DEF Check, End, TypeOK
  <2>2. Idle'[f] - Idle[f] <= mismatches' - mismatches
    BY <1>1 DEF Check, End, TypeOK, Idle, HeldByAttempt
  <2>3. held' \in [Files -> Int] /\ mismatches' \in Nat
    BY <1>3 DEF TypeOK
  <2> QED
    BY <1>1, <2>1, <2>2, <2>3, IdleMoves
<1>6. Progress'
  BY <1>1 DEF Check, End, Runs, CallerUnchanged, TypeOK, Progress
<1> QED
  BY <1>2, <1>3, <1>4, <1>5, <1>6 DEF SftpInv

\* Hashing the source moves no permit.
LEMMA SumStep ==
  ASSUME SftpInv, NEW f \in Files, Sum(f)
  PROVE  SftpInv'
<1>1. /\ TypeOK /\ Conserved /\ HeldByAttempt /\ MismatchesPin
      /\ Progress
  BY DEF SftpInv
<1>2. Conserved' /\ free' \in 0 .. MaxParallel
  BY <1>1 DEF Sum, TypeOK, Conserved
<1>3. TypeOK'
  BY <1>1 DEF Sum, CallerUnchanged, TypeOK, Body
<1>4. HeldByAttempt'
  BY <1>1 DEF Sum, Runs, HeldByAttempt, Body
<1>5. MismatchesPin'
  <2>1. \A g \in Files : g # f => held'[g] = held[g] /\ pc'[g] = pc[g]
    BY DEF Sum
  <2>2. Idle'[f] - Idle[f] <= mismatches' - mismatches
    BY <1>1 DEF Sum, TypeOK, Idle, Body
  <2>3. held' \in [Files -> Int] /\ mismatches' \in Nat
    BY <1>3 DEF TypeOK
  <2> QED
    BY <1>1, <2>1, <2>2, <2>3, IdleMoves
<1>6. Progress'
  BY <1>1 DEF Sum, Runs, CallerUnchanged, Progress
<1> QED
  BY <1>2, <1>3, <1>4, <1>5, <1>6 DEF SftpInv

\* Creating the remote file moves none, and touches no verified file.
LEMMA CreateStep ==
  ASSUME SftpInv, NEW f \in Files, Create(f)
  PROVE  SftpInv'
<1>1. /\ TypeOK /\ Conserved /\ HeldByAttempt /\ MismatchesPin
      /\ Progress
  BY DEF SftpInv
<1>2. Conserved' /\ free' \in 0 .. MaxParallel
  BY <1>1 DEF Create, TypeOK, Conserved
<1>3. TypeOK'
  BY <1>1 DEF Create, CallerUnchanged, TypeOK, Body
<1>4. HeldByAttempt'
  BY <1>1 DEF Create, Runs, HeldByAttempt, Body
<1>5. MismatchesPin'
  <2>1. \A g \in Files : g # f => held'[g] = held[g] /\ pc'[g] = pc[g]
    BY DEF Create
  <2>2. Idle'[f] - Idle[f] <= mismatches' - mismatches
    BY <1>1 DEF Create, TypeOK, Idle, Body
  <2>3. held' \in [Files -> Int] /\ mismatches' \in Nat
    BY <1>3 DEF TypeOK
  <2> QED
    BY <1>1, <2>1, <2>2, <2>3, IdleMoves
<1>6. Progress'
  BY <1>1 DEF Create, Runs, CallerUnchanged, Progress
<1> QED
  BY <1>2, <1>3, <1>4, <1>5, <1>6 DEF SftpInv

\* Nor does copying to it.
LEMMA CopyStep ==
  ASSUME SftpInv, NEW f \in Files, Copy(f)
  PROVE  SftpInv'
<1>1. /\ TypeOK /\ Conserved /\ HeldByAttempt /\ MismatchesPin
      /\ Progress
  BY DEF SftpInv
<1>2. Conserved' /\ free' \in 0 .. MaxParallel
  BY <1>1 DEF Copy, TypeOK, Conserved
<1>3. TypeOK'
  BY <1>1 DEF Copy, CallerUnchanged, TypeOK, Body
<1>4. HeldByAttempt'
  BY <1>1 DEF Copy, Runs, HeldByAttempt, Body
<1>5. MismatchesPin'
  <2>1. \A g \in Files : g # f => held'[g] = held[g] /\ pc'[g] = pc[g]
    BY DEF Copy
  <2>2. Idle'[f] - Idle[f] <= mismatches' - mismatches
    BY <1>1 DEF Copy, TypeOK, Idle, Body
  <2>3. held' \in [Files -> Int] /\ mismatches' \in Nat
    BY <1>3 DEF TypeOK
  <2> QED
    BY <1>1, <2>1, <2>2, <2>3, IdleMoves
<1>6. Progress'
  BY <1>1 DEF Copy, Runs, CallerUnchanged, Progress
<1> QED
  BY <1>2, <1>3, <1>4, <1>5, <1>6 DEF SftpInv

\* Nor does a bad copy.
LEMMA CorruptStep ==
  ASSUME SftpInv, NEW f \in Files, Corrupt(f)
  PROVE  SftpInv'
<1>1. /\ TypeOK /\ Conserved /\ HeldByAttempt /\ MismatchesPin
      /\ Progress
  BY DEF SftpInv
<1>2. Conserved' /\ free' \in 0 .. MaxParallel
  BY <1>1 DEF Corrupt, goroutine, TypeOK, Conserved
<1>3. TypeOK'
  BY <1>1, BadAssumption DEF Corrupt, Bad, goroutine, TypeOK
<1>4. HeldByAttempt'
  BY <1>1 DEF Corrupt, goroutine, HeldByAttempt
<1>5. MismatchesPin'
  BY <1>1 DEF Corrupt, goroutine, MismatchesPin, Idle
<1>6. Progress'
  BY <1>1 DEF Corrupt, Runs, goroutine, Progress
<1> QED
  BY <1>2, <1>3, <1>4, <1>5, <1>6 DEF SftpInv

\* The walk, and edits of the source, leave permits alone.
LEMMA OtherSteps ==
  ASSUME SftpInv,
         Spawn \/ WalkEnds \/ WalkFails \/ Wait \/ \E f \in Files, v \in Versions : Edit(f, v)
  PROVE  SftpInv'
<1>1. /\ TypeOK /\ Conserved /\ HeldByAttempt /\ MismatchesPin
      /\ Progress
  BY DEF SftpInv
<1>2. CASE Spawn
  <2> DEFINE f == Following(unvisited)
  <2>1. f \in unvisited /\ f \in Files /\ pc[f] = "absent"
    BY <1>1, <1>2 DEF Spawn, Following, TypeOK, Progress
  <2>2. pc' = [pc EXCEPT ![f] = "loop"]
    BY <1>2 DEF Spawn
  <2>3. UNCHANGED <<main, attempt, held, outcome, free, local, sum, remote, bad, mismatches>>
    BY <1>2 DEF Spawn, DataUnchanged
  <2>4. unvisited' = unvisited \ {f} /\ main = "walking"
    BY <1>2 DEF Spawn
  <2> HIDE DEF f
  <2>5. TypeOK' /\ Conserved'
    BY <1>1, <2>1, <2>2, <2>3, <2>4 DEF TypeOK, Conserved
  <2>6. HeldByAttempt'
    BY <1>1, <2>1, <2>2, <2>3 DEF HeldByAttempt, Body
  <2>7. Idle' = Idle
    BY <2>1, <2>2, <2>3 DEF Idle, Body
  <2>8. Progress'
    BY <1>1, <2>1, <2>2, <2>3, <2>4 DEF Progress
  <2> QED
    BY <2>3, <2>5, <2>6, <2>7, <2>8 DEF SftpInv, MismatchesPin
<1>3. CASE WalkEnds \/ WalkFails \/ Wait
  <2>1. UNCHANGED <<unvisited, pc, attempt, held, outcome, free, local, sum, remote, bad, mismatches>>
    BY <1>3 DEF WalkEnds, WalkFails, Wait, DataUnchanged, goroutine
  <2>2. TypeOK' /\ Progress'
    BY <1>1, <1>3, <2>1 DEF TypeOK, Progress, WalkEnds, WalkFails, Wait
  <2> QED
    BY <2>1, <2>2 DEF SftpInv, Conserved, HeldByAttempt, MismatchesPin, Idle
<1>4. CASE \E f \in Files, v \in Versions : Edit(f, v)
  <2>1. PICK f \in Files, v \in Versions : Edit(f, v)
    BY <1>4
  <2>2. UNCHANGED <<main, unvisited, pc, attempt, held, outcome, free, sum, remote, mismatches>>
    BY <2>1 DEF Edit, goroutine
  <2>3. TypeOK'
    BY <1>1, <2>1, <2>2, BadAssumption DEF TypeOK, Edit, Bad
  <2> QED
    BY <2>2, <2>3 DEF SftpInv, Conserved, HeldByAttempt, MismatchesPin, Idle, Progress
<1> QED
  BY <1>2, <1>3, <1>4

\* Every step keeps the invariant.
LEMMA SftpStep == SftpInv /\ [Next]_vars => SftpInv'
<1> SUFFICES ASSUME SftpInv, [Next]_vars PROVE SftpInv'
  OBVIOUS
<1>1. CASE \E f \in Files : FileStep(f) \/ Fail(f) \/ Corrupt(f)
  BY <1>1, AcquireStep, GiveUpStep, SumStep, CreateStep, CopyStep, CheckStep, FailStep,
     CorruptStep DEF FileStep
<1>2. CASE \/ Spawn \/ WalkEnds \/ WalkFails \/ Wait
           \/ \E f \in Files, v \in Versions : Edit(f, v)
  BY <1>2, OtherSteps
<1>3. CASE UNCHANGED vars
  BY <1>3 DEF vars, goroutine, SftpInv, TypeOK, Conserved, HeldByAttempt, MismatchesPin,
     Idle, Progress
<1> QED
  BY <1>1, <1>2, <1>3 DEF Next

\* It holds in every reachable state.
LEMMA SftpInvariant == Spec => []SftpInv
  BY SftpInit, SftpStep, PTL DEF Spec

\* A step at one file adds no more mismatches, seen and to come, than incidents.
LEMMA DueMoves ==
  ASSUME TypeOK, TypeOK', CausesLeft, NEW f \in Files,
         \A g \in Files : g # f => (Doomed(g)' <=> Doomed(g)),
         mismatches' + Due'[f] - bad' <= mismatches + Due[f] - bad
  PROVE  CausesLeft'
<1>1. Due \in [Files -> Int] /\ Due' \in [Files -> Int]
  BY DEF Due
<1>2. \A g \in Files : g # f => Due'[g] = Due[g]
  BY DEF Due
<1>3. SumOf(Due', Files) = SumOf(Due, Files) + Due'[f] - Due[f]
  BY <1>1, <1>2, FilesAssumption, SumChanges
<1>4. SumOf(Due, Files) \in Int /\ Due[f] \in Int /\ Due'[f] \in Int
  BY <1>1, FilesAssumption, SumType
<1>5. mismatches \in Nat /\ mismatches' \in Nat /\ bad \in Int /\ bad' \in Int
  BY DEF TypeOK
<1>6. mismatches + SumOf(Due, Files) <= bad
  BY DEF CausesLeft
<1>7. mismatches' + SumOf(Due', Files) <= bad'
  BY <1>3, <1>4, <1>5, <1>6
<1> QED
  BY <1>7 DEF CausesLeft

\* Nothing is due before anything is started.
LEMMA CausesInit == Init => CausesLeft
<1> SUFFICES ASSUME Init PROVE CausesLeft
  OBVIOUS
<1> DEFINE zero == [f \in Files |-> IF f \in {} THEN 1 ELSE 0]
<1>1. SumOf(zero, Files) = 0
  BY SumCounts, FS_EmptySet, FilesAssumption
<1>2. Due = zero
  BY DEF Init, Due, Doomed
<1> QED
  BY <1>1, <1>2 DEF Init, CausesLeft

\* Nothing becomes due but by an edit or a bad copy: an attempt hashes the source
\* it then copies, and a mismatch that is seen is no longer due.
LEMMA CausesStep == SftpInv /\ SftpInv' /\ CausesLeft /\ [Next]_vars => CausesLeft'
<1> SUFFICES ASSUME SftpInv, SftpInv', CausesLeft, [Next]_vars PROVE CausesLeft'
  OBVIOUS
<1>1. TypeOK /\ TypeOK' /\ Progress
  BY DEF SftpInv
<1>2. ASSUME NEW f \in Files, FileStep(f) \/ Fail(f) \/ Corrupt(f)
      PROVE  CausesLeft'
  <2>1. \A g \in Files : g # f => (Doomed(g)' <=> Doomed(g))
    <3>1. \A g \in Files : g # f => /\ pc'[g] = pc[g] /\ sum'[g] = sum[g]
                                    /\ remote'[g] = remote[g] /\ local'[g] = local[g]
      BY <1>1, <1>2 DEF FileStep, Acquire, GiveUp, Sum, Create, Copy, Check, Fail, Corrupt,
         End, CallerUnchanged, goroutine, TypeOK
    <3> QED
      BY <3>1 DEF Doomed
  <2>2. mismatches \in Nat /\ bad \in Nat
    BY <1>1 DEF TypeOK
  <2>3. Due[f] = (IF Doomed(f) THEN 1 ELSE 0) /\ Due'[f] = (IF Doomed(f)' THEN 1 ELSE 0)
    BY DEF Due
  <2>4. mismatches' + Due'[f] - bad' <= mismatches + Due[f] - bad
    <3>1. CASE Acquire(f) \/ GiveUp(f) \/ Sum(f) \/ Fail(f)
      <4>1. ~Doomed(f)' /\ mismatches' = mismatches /\ bad' = bad
        BY <1>1, <3>1 DEF Acquire, GiveUp, Sum, Fail, End, CallerUnchanged, Doomed, TypeOK
      <4> QED
        BY <2>2, <2>3, <4>1
    <3>2. CASE Create(f) \/ Copy(f)
      <4>1. (Doomed(f)' => Doomed(f)) /\ mismatches' = mismatches /\ bad' = bad
        BY <1>1, <3>2 DEF Create, Copy, Runs, CallerUnchanged, Doomed, TypeOK
      <4> QED
        BY <2>2, <2>3, <4>1
    <3>3. CASE Check(f)
      <4>1. ~Doomed(f)' /\ bad' = bad
        BY <1>1, <3>3 DEF Check, End, CallerUnchanged, Doomed, TypeOK
      <4>2. mismatches' = IF Doomed(f) THEN mismatches + 1 ELSE mismatches
        BY <1>1, <3>3 DEF Check, Runs, Doomed, TypeOK
      <4> QED
        BY <2>2, <2>3, <4>1, <4>2
    <3>4. CASE Corrupt(f)
      BY <2>2, <2>3, <3>4 DEF Corrupt, Bad
    <3> QED
      BY <1>2, <3>1, <3>2, <3>3, <3>4 DEF FileStep
  <2> QED
    BY <1>1, <2>1, <2>4, DueMoves
<1>3. ASSUME NEW f \in Files, NEW v \in Versions, Edit(f, v)
      PROVE  CausesLeft'
  <2>1. \A g \in Files : g # f => (Doomed(g)' <=> Doomed(g))
    BY <1>1, <1>3 DEF Edit, goroutine, Doomed, TypeOK
  <2>2. mismatches' = mismatches /\ bad' = bad + 1 /\ mismatches \in Nat /\ bad \in Nat
    BY <1>1, <1>3 DEF Edit, Bad, TypeOK
  <2>3. Due[f] \in {0, 1} /\ Due'[f] \in {0, 1}
    BY DEF Due
  <2>4. mismatches' + Due'[f] - bad' <= mismatches + Due[f] - bad
    BY <2>2, <2>3
  <2> QED
    BY <1>1, <2>1, <2>4, DueMoves
<1>4. CASE Spawn \/ WalkEnds \/ WalkFails \/ Wait \/ UNCHANGED vars
  <2>1. UNCHANGED <<local, sum, remote, bad, mismatches>>
    BY <1>4 DEF Spawn, WalkEnds, WalkFails, Wait, DataUnchanged, vars
  <2>2. \A f \in Files : pc'[f] = pc[f] \/ (pc[f] = "absent" /\ pc'[f] = "loop")
    <3>1. CASE Spawn
      <4>1. Following(unvisited) \in unvisited
        BY <3>1 DEF Spawn, Following
      <4>2. pc[Following(unvisited)] = "absent"
        BY <1>1, <4>1 DEF Progress
      <4> QED
        BY <1>1, <3>1, <4>2 DEF Spawn, TypeOK
    <3>2. CASE WalkEnds \/ WalkFails \/ Wait \/ UNCHANGED vars
      BY <3>2 DEF WalkEnds, WalkFails, Wait, goroutine, vars
    <3> QED
      BY <1>4, <3>1, <3>2
  <2>3. Due' = Due
    BY <2>1, <2>2 DEF Due, Doomed
  <2> QED
    BY <2>1, <2>3 DEF CausesLeft
<1> QED
  BY <1>2, <1>3, <1>4 DEF Next

\* It holds in every reachable state.
LEMMA CausesInvariant == Spec => []CausesLeft
  BY SftpInvariant, CausesInit, CausesStep, PTL DEF Spec

\* What is due is no less than nothing.
LEMMA CausesSuffice == TypeOK /\ CausesLeft => MismatchesHaveCauses
<1> SUFFICES ASSUME TypeOK, CausesLeft PROVE MismatchesHaveCauses
  OBVIOUS
<1>1. Due \in [Files -> Nat]
  BY DEF Due
<1>2. SumOf(Due, Files) \in Nat
  BY <1>1, FilesAssumption, SumNatural
<1> QED
  BY <1>2 DEF TypeOK, CausesLeft, MismatchesHaveCauses

-----------------------------------------------------------------------------
(* What follows.                                                           *)

\* Each transfer under way has a permit of the MaxParallel.
LEMMA LimitHolds == SftpInv => ParallelLimit
<1> SUFFICES ASSUME SftpInv PROVE ParallelLimit
  OBVIOUS
<1> DEFINE B == {f \in Files : pc[f] \in Body}
           one == [f \in Files |-> IF f \in B THEN 1 ELSE 0]
<1>1. SumOf(one, Files) = Cardinality(B)
  <2> HIDE DEF B
  <2>1. B \in SUBSET Files
    BY DEF B
  <2> QED
    BY <2>1, FilesAssumption, SumCounts
<1>2. one \in [Files -> Int] /\ held \in [Files -> Nat] /\ held \in [Files -> Int]
  BY DEF SftpInv, TypeOK
<1>3. \A f \in Files : one[f] <= held[f]
  BY DEF SftpInv, TypeOK, HeldByAttempt
<1> HIDE DEF one
<1>4. SumOf(one, Files) <= SumOf(held, Files)
  BY <1>2, <1>3, FilesAssumption, SumOrdered
<1>5. SumOf(held, Files) \in Nat /\ SumOf(one, Files) \in Int
  BY <1>2, FilesAssumption, SumNatural, SumType
<1>6. free + SumOf(held, Files) = MaxParallel /\ free \in Nat /\ MaxParallel \in Nat
  BY FlagAssumption DEF SftpInv, TypeOK, Conserved
<1>7. Cardinality(B) <= MaxParallel
  BY <1>1, <1>4, <1>5, <1>6
<1> QED
  BY <1>7 DEF ParallelLimit

\* With fewer mismatches than permits, one is free or with a goroutine at work.
LEMMA PermitIsLeft == SftpInv => PermitLeft
<1> SUFFICES ASSUME SftpInv, mismatches < MaxParallel, \A f \in Files : pc[f] \notin Body
             PROVE  free > 0
  BY DEF PermitLeft
<1>1. Idle = held
  BY DEF SftpInv, TypeOK, Idle
<1>2. SumOf(held, Files) <= mismatches
  BY <1>1 DEF SftpInv, MismatchesPin
<1>3. SumOf(held, Files) \in Int
  <2>1. held \in [Files -> Int]
    BY DEF SftpInv, TypeOK
  <2> QED
    BY <2>1, FilesAssumption, SumType
<1> QED
  BY <1>2, <1>3 DEF SftpInv, TypeOK, Conserved

\* The variables keep their types; the counter of the semaphore stays within
\* its size (sftp.go:123-218).
THEOREM SftpTypes == Spec => []TypeOK
<1>1. SftpInv => TypeOK
  BY DEF SftpInv
<1> QED
  BY <1>1, SftpInvariant, PTL

\* However goroutines end, by success, error or the last retry, every permit
\* they took comes back (sftp.go:141-145).
THEOREM PermitsReturn == Spec => []PermitsConserved
<1>1. SftpInv => PermitsConserved
  BY ConservedIs DEF SftpInv
<1> QED
  BY <1>1, SftpInvariant, PTL

\* For any number of files, never more than --parallel of them are being
\* transferred (sftp.go:123-145).
THEOREM LimitKept == Spec => []ParallelLimit
  BY LimitHolds, SftpInvariant, PTL

\* Goroutines that wait for a permit can be stuck only when mismatches have
\* pinned all of them (sftp.go:141-145).
THEOREM OnlyMismatchesPin == Spec => []PermitLeft
  BY PermitIsLeft, SftpInvariant, PTL

\* No mismatch comes from the upload itself: for any number of files and
\* retries, each took an edit of the source or a bad copy since its own checksum
\* (sftp.go:135-212).
THEOREM MismatchesCaused == Spec => []MismatchesHaveCauses
<1>1. SftpInv => TypeOK
  BY DEF SftpInv
<1> QED
  BY <1>1, CausesSuffice, CausesInvariant, SftpInvariant, PTL
=============================================================================
