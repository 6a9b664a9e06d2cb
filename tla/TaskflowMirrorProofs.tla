-------------------------- MODULE TaskflowMirrorProofs --------------------------
(***************************************************************************)
(* Proofs about the TaskFlow mirror, for every graph and any number of     *)
(* runs and of processes that overlap and are killed.                      *)
(***************************************************************************)
EXTENDS TaskflowMirror, RunLifeProofs

\* The manifests that commands write, and what goes with them.
Fit == {m \in Manifest : Waits(m)}

Written == [manifest : Fit, at : Times]

Records == {Mirrored(e) : e \in Written}

Entries == {Entry(e) : e \in Written}

ProcRecord ==
    [pc : {"idle", "manifest", "record", "index", "reindex", "engine"},
     task : Commands \cup {"prepare", "resume", None}, run : Runs \cup {None}, entry : Written,
     copy : [Runs -> Entries \cup {None}]]

TypeOK ==
    /\ writes \in 0..MaxWrites
    /\ ledger \in [Runs -> Written \cup {None}]
    /\ mirror \in [Runs -> Records \cup {None}]
    /\ index \in [Runs -> Entries \cup {None}]
    /\ proc \in [Procs -> ProcRecord]
    /\ said \in [Runs -> SUBSET Written]
    /\ loose \subseteq Runs
    /\ patchy \in BOOLEAN
    /\ \A p \in Procs : At(p, "idle") <=> proc[p].run = None

Mirroring(p) == proc[p].pc \in {"record", "index", "reindex"}

\* What a process mirrors, and what is on file for another to mirror, has been said.
NeverAhead ==
    /\ \A r \in Runs : ledger[r] # None => ledger[r] \in said[r]
    /\ \A p \in Procs : Mirroring(p) => proc[p].entry \in said[proc[p].run]
    /\ MirrorNeverAhead

\* A run that is not loose has one process at work on it at most, and how far
\* that one has got says which of the files agree.
OneWorker ==
    \A r \in Runs \ loose : \A p, q \in Procs : proc[p].run = r /\ proc[q].run = r => p = q

Follows(p) ==
    /\ Mirroring(p) \/ At(p, "engine") => ledger[proc[p].run] = proc[p].entry
    /\ proc[p].pc \in {"index", "reindex", "engine"} =>
         mirror[proc[p].run] = Mirrored(proc[p].entry)

Followed == \A p \in Procs : proc[p].run \notin loose => Follows(p)

\* While no two processes have been at work at once, the copy of the index is the index.
OneProcess == ~patchy => \A p, q \in Procs : ~At(p, "idle") /\ ~At(q, "idle") => p = q

Indexes(p) ==
    /\ At(p, "reindex") => proc[p].copy = index
    /\ At(p, "engine") /\ proc[p].run \notin loose => index[proc[p].run] = Entry(proc[p].entry)

Indexed == ~patchy => \A p \in Procs : Indexes(p)

MirrorInv ==
    /\ TypeOK
    /\ NeverAhead
    /\ OneWorker
    /\ Followed
    /\ OneProcess
    /\ Indexed
    /\ MirrorFollowsLedger
    /\ IndexIsComplete

-----------------------------------------------------------------------------
(* Types.                                                                  *)

LEMMA NewIsFit == \A v \in {"ready", "rejected"} : NewManifest(v) \in Fit
  BY NewManifestType, NewManifestWaits DEF Fit, RunStates

LEMMA IdleIsTyped == Idle \in ProcRecord /\ Idle.pc = "idle" /\ Idle.run = None
  <1>1. (CHOOSE at \in Times : TRUE) \in Times
    BY MirrorAssumption
  <1> QED BY <1>1, NewIsFit DEF Idle, ProcRecord, Written

\* p is about to write a manifest.
LEMMA WritesIs ==
    ASSUME NEW p \in Procs, NEW task \in Commands \cup {"prepare", "resume"}, NEW r \in Runs,
           NEW m \in Fit, Writes(p, task, r, m)
    PROVE  \E d \in ProcRecord :
             proc' = [proc EXCEPT ![p] = d] /\ d.pc = "manifest" /\ d.run = r
  <1> DEFINE e == [Idle.entry EXCEPT !.manifest = m]
             d == [Idle EXCEPT !.pc = "manifest", !.task = task, !.run = r, !.entry.manifest = m]
  <1>1. Idle \in ProcRecord /\ Idle.entry \in Written
    BY IdleIsTyped DEF ProcRecord
  <1>2. e \in Written
    BY <1>1 DEF Written
  <1>3. d = [Idle EXCEPT !.pc = "manifest", !.task = task, !.run = r, !.entry = e]
    OBVIOUS
  <1>4. proc' = [proc EXCEPT ![p] = d]
    BY DEF Writes
  <1> HIDE DEF d, e
  <1>5. d \in ProcRecord /\ d.pc = "manifest" /\ d.run = r
    BY <1>1, <1>2, <1>3 DEF ProcRecord
  <1> QED BY <1>4, <1>5

\* A ledger that is not empty holds a manifest that a command wrote.
LEMMA FiledIsWritten ==
    ASSUME TypeOK, NEW r \in Runs, ledger[r] # None
    PROVE  ledger[r] \in Written /\ Found(r) \in Manifest /\ Waits(Found(r))
  BY DEF TypeOK, Written, Fit, Found

-----------------------------------------------------------------------------
(* The actions.                                                            *)

\* A command starts on run r, with a manifest to write or the ledger's to mirror.
LEMMA StartKeeps ==
    ASSUME MirrorInv, NEW p \in Procs, At(p, "idle"), NEW r \in Runs, NEW d \in ProcRecord,
           d.run = r, d.pc \in {"manifest", "record"},
           d.pc = "record" => ledger[r] # None /\ d.entry = ledger[r],
           proc' = [proc EXCEPT ![p] = d], Started(r), UNCHANGED files
    PROVE  MirrorInv'
  <1>1. /\ TypeOK /\ proc \in [Procs -> ProcRecord]
        /\ UNCHANGED <<writes, ledger, mirror, index, said>>
    BY DEF MirrorInv, TypeOK, files
  <1>2. proc'[p] = d /\ \A q \in Procs \ {p} : proc'[q] = proc[q]
    BY <1>1
  <1>3. /\ loose' \subseteq Runs /\ patchy' \in BOOLEAN
        /\ r \notin loose' => ~Working(r)
        /\ loose' \ {r} = loose \ {r}
        /\ ~patchy' => ~patchy /\ \A q \in Procs : At(q, "idle")
    BY <1>1 DEF Started, TypeOK
  <1>4. r # None /\ proc[p].run = None
    BY <1>1, MirrorAssumption DEF TypeOK
  <1>5. TypeOK'
    BY <1>1, <1>2, <1>3, <1>4 DEF TypeOK, At
  <1>6. NeverAhead'
    <2>1. Mirroring(p)' => d.entry \in said[d.run]
      BY <1>2 DEF Mirroring, MirrorInv, NeverAhead
    <2> QED BY <1>1, <1>2, <2>1 DEF MirrorInv, NeverAhead, Mirroring, MirrorNeverAhead
  <1>7. OneWorker'
    BY <1>2, <1>3, <1>4 DEF MirrorInv, OneWorker, Working
  <1>8. Followed'
    BY <1>1, <1>2, <1>3 DEF MirrorInv, Followed, Follows, Mirroring, At, Working
  <1>9. OneProcess'
    BY <1>2, <1>3 DEF OneProcess, At
  <1>10. Indexed'
    BY <1>1, <1>2, <1>3 DEF Indexed, Indexes, At
  <1>11. ASSUME NEW s \in Runs, Settles(s)' PROVE s # r /\ Settles(s)
    <2>1. ledger[s] # None /\ s \notin loose' /\ \A q \in Procs : proc'[q].run # s
      BY <1>1, <1>11 DEF Settles, Working
    <2>2. s # r /\ s \notin loose
      BY <1>2, <1>3, <2>1
    <2>3. \A q \in Procs : proc[q].run # s
      BY <1>2, <1>4, <2>1, MirrorAssumption
    <2> QED BY <2>1, <2>2, <2>3 DEF Settles, Working
  <1>12. MirrorFollowsLedger' /\ IndexIsComplete'
    BY <1>1, <1>3, <1>11 DEF MirrorInv, MirrorFollowsLedger, IndexIsComplete
  <1> QED BY <1>5, <1>6, <1>7, <1>8, <1>9, <1>10, <1>12 DEF MirrorInv

\* A command that starts with a manifest to write
LEMMA WritesKeeps ==
    ASSUME MirrorInv, NEW p \in Procs, NEW task \in Commands \cup {"prepare", "resume"},
           NEW r \in Runs, NEW m \in Fit, Writes(p, task, r, m), At(p, "idle"), Started(r),
           UNCHANGED files
    PROVE  MirrorInv'
  <1>1. PICK d \in ProcRecord :
          proc' = [proc EXCEPT ![p] = d] /\ d.pc = "manifest" /\ d.run = r
    BY WritesIs
  <1> QED BY <1>1, StartKeeps

LEMMA PrepareKeeps ==
    ASSUME MirrorInv, NEW p \in Procs, Prepare(p)
    PROVE  MirrorInv'
  <1>1. PICK r \in Runs, verdict \in {"ready", "rejected"} :
          Writes(p, "prepare", r, NewManifest(verdict)) /\ Started(r)
    BY DEF Prepare
  <1>2. NewManifest(verdict) \in Fit
    BY NewIsFit
  <1> QED BY <1>1, <1>2, WritesKeeps DEF Prepare

LEMMA CommandKeeps ==
    ASSUME MirrorInv, NEW p \in Procs, NEW task, NEW next, Command(p, task, next),
           DOMAIN next \subseteq Runs, \A r \in DOMAIN next : next[r] \subseteq Fit
    PROVE  MirrorInv'
  <1>1. PICK r \in DOMAIN next : (\E m \in next[r] : Writes(p, task, r, m)) /\ Started(r)
    BY DEF Command
  <1>2. PICK m \in next[r] : Writes(p, task, r, m)
    BY <1>1
  <1>3. r \in Runs /\ m \in Fit /\ task \in Commands
    BY DEF Command
  <1> QED BY <1>1, <1>2, <1>3, WritesKeeps DEF Command

LEMMA SyncKeeps ==
    ASSUME MirrorInv, NEW p \in Procs, StartSync(p)
    PROVE  MirrorInv'
  <1>1. PICK r \in Runs :
          /\ ledger[r] # None
          /\ proc' = [proc EXCEPT ![p] = [Idle EXCEPT !.pc = "record", !.task = "sync", !.run = r,
                                                      !.entry = ledger[r]]]
          /\ Started(r)
    BY DEF StartSync
  <1> DEFINE d == [Idle EXCEPT !.pc = "record", !.task = "sync", !.run = r, !.entry = ledger[r]]
  <1>2. ledger[r] \in Written
    BY <1>1, FiledIsWritten DEF MirrorInv
  <1>3. d \in ProcRecord /\ d.pc = "record" /\ d.run = r /\ d.entry = ledger[r]
    BY <1>2, IdleIsTyped DEF ProcRecord, StartSync
  <1> HIDE DEF d
  <1>4. proc' = [proc EXCEPT ![p] = d] /\ At(p, "idle") /\ UNCHANGED files
    BY <1>1 DEF d, StartSync
  <1> QED BY <1>1, <1>3, <1>4, StartKeeps

LEMMA StartsKeep ==
    ASSUME MirrorInv, NEW p \in Procs, Start(p)
    PROVE  MirrorInv'
  <1>1. Filed \subseteq Runs /\ \A r \in Filed : Found(r) \in Manifest /\ Waits(Found(r))
    BY FiledIsWritten DEF MirrorInv, Filed
  <1>2. CASE StartResume(p)
    <2> DEFINE accepted == {r \in Filed : Resumable(Found(r)) /\ Found(r).state # "running"}
               next == [r \in accepted |-> EngineMoves(Found(r))]
    <2>1. \A r \in DOMAIN next : next[r] \subseteq Fit
      BY <1>1, EngineWaits DEF Fit
    <2> QED BY <1>1, <1>2, <2>1, CommandKeeps DEF StartResume
  <1>3. CASE StartApprove(p)
    <2> DEFINE next == [r \in Filed |-> {Approved(Found(r), s) : s \in Elevated}]
    <2>1. \A r \in DOMAIN next : next[r] \subseteq Fit
      BY <1>1, ApprovedWaits, GraphAssumption DEF Fit, Waits
    <2> QED BY <1>1, <1>3, <2>1, CommandKeeps DEF StartApprove
  <1>4. CASE StartCancel(p)
    <2> DEFINE accepted == {r \in Filed : Cancellable(Found(r))}
               next == [r \in accepted |-> {Cancelled(Found(r))}]
    <2>1. \A r \in DOMAIN next : next[r] \subseteq Fit
      BY <1>1, CancelledType DEF Fit, Waits
    <2> QED BY <1>1, <1>4, <2>1, CommandKeeps DEF StartCancel
  <1>5. CASE StartRecover(p)
    <2> DEFINE next == [r \in Filed |-> Recoveries(Found(r))]
    <2>1. \A r \in DOMAIN next : next[r] \subseteq Fit
      BY <1>1, RecoveriesWait DEF Fit
    <2> QED BY <1>1, <1>5, <2>1, CommandKeeps DEF StartRecover
  <1> QED BY <1>2, <1>3, <1>4, <1>5, PrepareKeeps, SyncKeeps DEF Start

-----------------------------------------------------------------------------
\* What every step of a process at work has in common: d is what it becomes.
Moves(p, d) ==
    /\ ~At(p, "idle")
    /\ proc' = [proc EXCEPT ![p] = d]
    /\ d.run \in {proc[p].run, None}
    /\ d.pc = "idle" <=> d.run = None
    /\ loose' \in {loose, loose \cup {proc[p].run}}
    /\ patchy => patchy'
    /\ patchy' \in BOOLEAN

LEMMA MovesFacts ==
    ASSUME MirrorInv, NEW p \in Procs, NEW d \in ProcRecord, Moves(p, d)
    PROVE  /\ proc'[p] = d /\ \A q \in Procs \ {p} : proc'[q] = proc[q]
           /\ proc' \in [Procs -> ProcRecord]
           /\ proc[p] \in ProcRecord /\ proc[p].run \in Runs /\ proc[p].run # None
           /\ proc[p].entry \in Written
           /\ loose' \subseteq Runs /\ loose \subseteq loose'
           /\ loose' \subseteq loose \cup {proc[p].run}
           /\ \A q \in Procs : At(q, "idle")' <=> proc'[q].run = None
           /\ proc[p].run \notin loose => \A q \in Procs \ {p} : proc[q].run # proc[p].run
           /\ ~patchy' => ~patchy /\ \A q \in Procs \ {p} : At(q, "idle") /\ proc[q].run = None
           /\ OneWorker'
           /\ OneProcess'
  <1>1. proc \in [Procs -> ProcRecord] /\ loose \subseteq Runs
        /\ \A q \in Procs : At(q, "idle") <=> proc[q].run = None
    BY DEF MirrorInv, TypeOK
  <1>2. /\ proc'[p] = d /\ \A q \in Procs \ {p} : proc'[q] = proc[q]
        /\ proc' \in [Procs -> ProcRecord]
    BY <1>1 DEF Moves
  <1>3. proc[p] \in ProcRecord /\ proc[p].run \in Runs /\ proc[p].run # None
    BY <1>1 DEF Moves, ProcRecord
  <1>4. proc[p].entry \in Written
    BY <1>3 DEF ProcRecord
  <1>5. /\ loose' \subseteq Runs /\ loose \subseteq loose'
        /\ loose' \subseteq loose \cup {proc[p].run}
    BY <1>1, <1>3 DEF Moves
  <1>6. \A q \in Procs : At(q, "idle")' <=> proc'[q].run = None
    BY <1>1, <1>2 DEF At, Moves
  <1>7. proc[p].run \notin loose => \A q \in Procs \ {p} : proc[q].run # proc[p].run
    BY <1>3 DEF MirrorInv, OneWorker
  <1>8. ~patchy' => ~patchy /\ \A q \in Procs \ {p} : At(q, "idle") /\ proc[q].run = None
    BY <1>1 DEF MirrorInv, OneProcess, Moves
  <1>9. OneWorker'
    <2> SUFFICES ASSUME NEW r \in Runs \ loose', NEW q1 \in Procs, NEW q2 \in Procs,
                        proc'[q1].run = r, proc'[q2].run = r
                 PROVE  q1 = q2
      BY DEF OneWorker
    <2>1. r # None
      BY MirrorAssumption
    <2>2. proc[q1].run = r /\ proc[q2].run = r
      BY <1>2, <2>1 DEF Moves
    <2> QED BY <1>5, <2>2 DEF MirrorInv, OneWorker
  <1>10. OneProcess'
    BY <1>2, <1>8 DEF OneProcess, At
  <1> QED BY <1>2, <1>3, <1>4, <1>5, <1>6, <1>7, <1>8, <1>9, <1>10

\* A step that leaves the ledger and the mirror alone takes up no new manifest to mirror.
LEMMA NeverAheadKept ==
    ASSUME MirrorInv, NEW p \in Procs, NEW d \in ProcRecord, Moves(p, d),
           UNCHANGED <<writes, ledger, mirror, said>>,
           d.pc \in {"record", "index", "reindex"} =>
             Mirroring(p) /\ d.entry = proc[p].entry /\ d.run = proc[p].run
    PROVE  NeverAhead'
  <1>1. proc'[p] = d /\ \A q \in Procs \ {p} : proc'[q] = proc[q]
    BY MovesFacts
  <1>2. ASSUME NEW q \in Procs, Mirroring(q)' PROVE (proc[q].entry \in said[proc[q].run])'
    <2>1. Mirroring(q) /\ proc'[q].run = proc[q].run /\ proc'[q].entry = proc[q].entry
      BY <1>1, <1>2 DEF Mirroring
    <2> QED BY <2>1 DEF MirrorInv, NeverAhead
  <1> QED BY <1>2 DEF MirrorInv, NeverAhead, MirrorNeverAhead

\* A step of p changes nothing for a run that is settled and that p does not work on.
LEMMA OthersSettle ==
    ASSUME MirrorInv, NEW p \in Procs, NEW d \in ProcRecord, Moves(p, d),
           NEW s \in Runs, s # proc[p].run, ledger'[s] = ledger[s], Settles(s)'
    PROVE  Settles(s)
  <1>1. ledger[s] # None /\ s \notin loose' /\ \A q \in Procs : proc'[q].run # s
    BY DEF Settles, Working
  <1>2. s \notin loose /\ \A q \in Procs : proc[q].run # s
    BY <1>1, MovesFacts
  <1> QED BY <1>1, <1>2 DEF Settles, Working

\* What a step of p leaves to be shown, if it changes none of the files
LEMMA QuietKeeps ==
    ASSUME MirrorInv, NEW p \in Procs, NEW d \in ProcRecord, Moves(p, d), UNCHANGED files,
           d.pc \in {"idle", "manifest", "reindex"},
           d.pc = "reindex" => /\ At(p, "index") /\ d.entry = proc[p].entry
                               /\ d.run = proc[p].run /\ d.copy = index,
           d.pc = "idle" => At(p, "engine") \/ proc[p].run \in loose'
    PROVE  MirrorInv'
  <1> DEFINE r == proc[p].run
  <1>1. UNCHANGED <<writes, ledger, mirror, index, said>> /\ TypeOK
    BY DEF files, MirrorInv
  <1>2. /\ proc'[p] = d /\ \A q \in Procs \ {p} : proc'[q] = proc[q]
        /\ proc' \in [Procs -> ProcRecord]
        /\ loose' \subseteq Runs /\ loose \subseteq loose' /\ patchy' \in BOOLEAN
        /\ \A q \in Procs : At(q, "idle")' <=> proc'[q].run = None
        /\ ~patchy' => ~patchy /\ \A q \in Procs \ {p} : At(q, "idle")
        /\ OneWorker' /\ OneProcess'
    BY MovesFacts DEF Moves
  <1>3. TypeOK'
    BY <1>1, <1>2 DEF TypeOK
  <1>4. NeverAhead'
    BY <1>1, NeverAheadKept DEF Mirroring, At
  <1>5. Followed'
    <2> SUFFICES ASSUME NEW q \in Procs, proc'[q].run \notin loose' PROVE Follows(q)'
      BY DEF Followed
    <2>1. CASE q = p
      BY <1>1, <1>2, <2>1 DEF MirrorInv, Followed, Follows, Mirroring, At
    <2>2. CASE q # p
      <3>1. Follows(q)
        BY <1>2, <2>2 DEF MirrorInv, Followed
      <3> QED BY <1>1, <1>2, <2>2, <3>1 DEF Follows, Mirroring, At
    <2> QED BY <2>1, <2>2
  <1>6. Indexed'
    BY <1>1, <1>2 DEF Indexed, Indexes, At
  <1>7. ASSUME NEW s \in Runs, Settles(s)'
        PROVE  mirror[s] = Mirrored(ledger[s]) /\ (~patchy => index[s] = Entry(ledger[s]))
    <2>1. CASE s # r
      BY <1>1, <1>7, <2>1, OthersSettle DEF MirrorInv, MirrorFollowsLedger, IndexIsComplete
    <2>2. CASE s = r
      <3>1. s \notin loose' /\ proc'[p].run # s
        BY <1>7 DEF Settles, Working
      <3>2. At(p, "engine")
        BY <1>2, <2>2, <3>1 DEF Moves
      <3> QED BY <1>2, <2>2, <3>1, <3>2
              DEF MirrorInv, Followed, Follows, Indexed, Indexes, At
    <2> QED BY <2>1, <2>2
  <1>8. MirrorFollowsLedger' /\ IndexIsComplete'
    BY <1>1, <1>2, <1>7 DEF MirrorFollowsLedger, IndexIsComplete
  <1> QED BY <1>2, <1>3, <1>4, <1>5, <1>6, <1>8 DEF MirrorInv

LEMMA ReadIndexKeeps ==
    ASSUME MirrorInv, NEW p \in Procs, ReadIndex(p)
    PROVE  MirrorInv'
  <1> DEFINE c == proc[p]
             d == [c EXCEPT !.pc = "reindex", !.copy = index]
  <1>1. c \in ProcRecord /\ index \in [Runs -> Entries \cup {None}] /\ c.pc = "index"
        /\ c.run # None /\ patchy \in BOOLEAN
    BY DEF MirrorInv, TypeOK, ReadIndex, At
  <1>2. /\ d \in ProcRecord /\ d.pc = "reindex" /\ d.run = c.run /\ d.entry = c.entry
        /\ d.copy = index
    BY <1>1 DEF ProcRecord
  <1>3. proc' = [proc EXCEPT ![p] = d]
    BY DEF ReadIndex
  <1> HIDE DEF d
  <1>4. Moves(p, d) /\ UNCHANGED files
    BY <1>1, <1>2, <1>3 DEF Moves, ReadIndex, history, At
  <1> QED BY <1>1, <1>2, <1>4, QuietKeeps DEF At

LEMMA EngineKeeps ==
    ASSUME MirrorInv, NEW p \in Procs, Engine(p)
    PROVE  MirrorInv'
  <1>1. PICK m \in EngineMoves(proc[p].entry.manifest) : Writes(p, "resume", proc[p].run, m)
    BY DEF Engine
  <1>2. proc[p] \in ProcRecord /\ proc[p].run \in Runs \cup {None} /\ proc[p].run # None
        /\ At(p, "engine") /\ patchy \in BOOLEAN /\ ~At(p, "idle")
    BY DEF MirrorInv, TypeOK, ProcRecord, Engine, At
  <1>3. m \in Fit
    BY <1>1, <1>2, EngineWaits DEF Fit, Written, ProcRecord
  <1>4. PICK d \in ProcRecord :
          proc' = [proc EXCEPT ![p] = d] /\ d.pc = "manifest" /\ d.run = proc[p].run
    BY <1>1, <1>2, <1>3, WritesIs
  <1>5. Moves(p, d) /\ UNCHANGED files
    BY <1>2, <1>4 DEF Moves, Engine, history
  <1> QED BY <1>4, <1>5, QuietKeeps

\* A process ends, in the loop of the engine or anywhere by a crash.
LEMMA EndKeeps ==
    ASSUME MirrorInv, NEW p \in Procs, ~At(p, "idle"), proc' = [proc EXCEPT ![p] = Idle],
           UNCHANGED <<files, patchy>>,
           (loose' = loose /\ At(p, "engine")) \/ loose' = loose \cup {proc[p].run}
    PROVE  MirrorInv'
  <1>1. Moves(p, Idle)
    BY IdleIsTyped DEF Moves, MirrorInv, TypeOK
  <1> QED BY <1>1, IdleIsTyped, QuietKeeps

LEMMA ManifestKeeps ==
    ASSUME MirrorInv, NEW p \in Procs, NEW d \in ProcRecord, Moves(p, d), At(p, "manifest"),
           NEW e \in Written, writes' \in 0..MaxWrites,
           ledger' = [ledger EXCEPT ![proc[p].run] = e],
           said' = [said EXCEPT ![proc[p].run] = @ \cup {e}], UNCHANGED <<mirror, index, patchy>>,
           \/ d.pc = "record" /\ d.entry = e /\ d.run = proc[p].run
           \/ d.pc = "idle" /\ proc[p].run \in loose'
    PROVE  MirrorInv'
  <1> DEFINE r == proc[p].run
  <1>1. /\ proc'[p] = d /\ \A q \in Procs \ {p} : proc'[q] = proc[q]
        /\ proc' \in [Procs -> ProcRecord] /\ r \in Runs
        /\ loose' \subseteq Runs /\ loose \subseteq loose' /\ patchy' \in BOOLEAN
        /\ \A q \in Procs : At(q, "idle")' <=> proc'[q].run = None
        /\ ~patchy' => ~patchy /\ \A q \in Procs \ {p} : At(q, "idle")
        /\ r \notin loose => \A q \in Procs \ {p} : proc[q].run # r
        /\ OneWorker' /\ OneProcess'
    BY MovesFacts DEF Moves
  <1>2. TypeOK
    BY DEF MirrorInv
  <1>3. /\ ledger'[r] = e /\ \A s \in Runs \ {r} : ledger'[s] = ledger[s]
        /\ ledger' \in [Runs -> Written \cup {None}] /\ e # None
    BY <1>1, <1>2, MirrorAssumption DEF TypeOK, Written, Stamped, Fit
  <1>4. /\ said' \in [Runs -> SUBSET Written] /\ e \in said'[r]
        /\ \A s \in Runs : said[s] \subseteq said'[s]
    BY <1>1, <1>2 DEF TypeOK
  <1>5. TypeOK'
    BY <1>1, <1>2, <1>3, <1>4 DEF TypeOK
  <1>6. NeverAhead'
    <2>1. ASSUME NEW s \in Runs, ledger'[s] # None PROVE ledger'[s] \in said'[s]
      BY <1>3, <1>4, <2>1 DEF MirrorInv, NeverAhead
    <2>2. ASSUME NEW q \in Procs, Mirroring(q)'
          PROVE  (proc[q].entry \in said[proc[q].run])'
      <3>1. CASE q = p
        BY <1>1, <1>4, <2>2, <3>1 DEF Mirroring
      <3>2. CASE q # p
        <4>1. proc[q].entry \in said[proc[q].run] /\ proc'[q] = proc[q] /\ Mirroring(q)
          BY <1>1, <2>2, <3>2 DEF MirrorInv, NeverAhead, Mirroring
        <4>2. proc[q].run \in Runs
          BY <1>2, <4>1 DEF TypeOK, ProcRecord, Mirroring, At
        <4> QED BY <1>4, <4>1, <4>2
      <3> QED BY <3>1, <3>2
    <2>3. ASSUME NEW s \in Runs, mirror'[s] # None
          PROVE  \E x \in said'[s] : mirror'[s] = Mirrored(x)
      BY <1>4, <2>3 DEF MirrorInv, NeverAhead, MirrorNeverAhead
    <2> QED BY <2>1, <2>2, <2>3 DEF NeverAhead, MirrorNeverAhead
  <1>7. Followed'
    <2> SUFFICES ASSUME NEW q \in Procs, proc'[q].run \notin loose' PROVE Follows(q)'
      BY DEF Followed
    <2>1. CASE q = p
      BY <1>1, <1>3, <2>1 DEF Follows, Mirroring, At
    <2>2. CASE q # p
      <3>1. Follows(q) /\ proc'[q] = proc[q] /\ proc[q].run # r
        BY <1>1, <2>2 DEF MirrorInv, Followed
      <3>2. Mirroring(q) \/ At(q, "engine") => proc[q].run \in Runs
        BY <1>2 DEF TypeOK, ProcRecord, Mirroring, At
      <3> QED BY <1>3, <3>1, <3>2 DEF Follows, Mirroring, At
    <2> QED BY <2>1, <2>2
  <1>8. Indexed'
    BY <1>1 DEF Indexed, Indexes, At
  <1>9. ASSUME NEW s \in Runs, Settles(s)' PROVE s # r
    BY <1>1, <1>9 DEF Settles, Working
  <1>10. MirrorFollowsLedger' /\ IndexIsComplete'
    BY <1>3, <1>9, OthersSettle DEF MirrorInv, MirrorFollowsLedger, IndexIsComplete
  <1> QED BY <1>1, <1>5, <1>6, <1>7, <1>8, <1>10 DEF MirrorInv

LEMMA WriteManifestKeeps ==
    ASSUME MirrorInv, NEW p \in Procs, WriteManifest(p)
    PROVE  MirrorInv'
  <1> DEFINE c == proc[p]
             stamp(at) == [c.entry EXCEPT !.at = at]
  <1>1. /\ c \in ProcRecord /\ c.entry \in Written /\ c.run \in Runs \cup {None} /\ c.run # None
        /\ c.pc = "manifest" /\ writes' \in 0..MaxWrites /\ patchy \in BOOLEAN
    BY MirrorAssumption DEF MirrorInv, TypeOK, ProcRecord, WriteManifest, At
  <1>2. PICK at \in Times :
          /\ ledger' = [ledger EXCEPT ![c.run] = stamp(at)]
          /\ said' = [said EXCEPT ![c.run] = @ \cup {stamp(at)}]
          /\ \/ proc' = [proc EXCEPT ![p] = Idle] /\ loose' = loose \cup {c.run}
             \/ /\ proc' = [proc EXCEPT ![p] = [c EXCEPT !.pc = "record", !.entry = stamp(at)]]
                /\ loose' = loose
    BY DEF WriteManifest
  <1> DEFINE e == stamp(at)
             d == [c EXCEPT !.pc = "record", !.entry = e]
  <1>3. e \in Written
    BY <1>1 DEF Written
  <1> HIDE DEF e
  <1>4. d \in ProcRecord /\ d.pc = "record" /\ d.run = c.run /\ d.entry = e
    BY <1>1, <1>3 DEF ProcRecord
  <1>5. /\ ledger' = [ledger EXCEPT ![c.run] = e]
        /\ said' = [said EXCEPT ![c.run] = @ \cup {e}]
        /\ UNCHANGED <<mirror, index, patchy>>
        /\ \/ proc' = [proc EXCEPT ![p] = Idle] /\ loose' = loose \cup {c.run}
           \/ proc' = [proc EXCEPT ![p] = d] /\ loose' = loose
    BY <1>2 DEF WriteManifest, e
  <1> HIDE DEF d
  <1>6. CASE proc' = [proc EXCEPT ![p] = Idle] /\ loose' = loose \cup {c.run}
    <2>1. Moves(p, Idle)
      BY <1>1, <1>5, <1>6, IdleIsTyped DEF Moves, At
    <2> QED BY <1>1, <1>3, <1>5, <1>6, <2>1, IdleIsTyped, ManifestKeeps DEF At
  <1>7. CASE proc' = [proc EXCEPT ![p] = d] /\ loose' = loose
    <2>1. Moves(p, d)
      BY <1>1, <1>4, <1>5, <1>7 DEF Moves, At
    <2> QED BY <1>1, <1>3, <1>4, <1>5, <2>1, ManifestKeeps DEF At
  <1> QED BY <1>5, <1>6, <1>7

LEMMA WriteRecordKeeps ==
    ASSUME MirrorInv, NEW p \in Procs, WriteRecord(p)
    PROVE  MirrorInv'
  <1> DEFINE c == proc[p]
             r == c.run
             d == [c EXCEPT !.pc = "index"]
  <1>1. /\ c \in ProcRecord /\ c.pc = "record" /\ patchy \in BOOLEAN /\ c.run # None /\ TypeOK
    BY DEF MirrorInv, TypeOK, WriteRecord, At
  <1>2. d \in ProcRecord /\ d.pc = "index" /\ d.run = r /\ d.entry = c.entry
    BY <1>1 DEF ProcRecord
  <1>3. proc' = [proc EXCEPT ![p] = d] /\ mirror' = [mirror EXCEPT ![r] = Mirrored(c.entry)]
        /\ UNCHANGED <<writes, ledger, index, said, loose, patchy>>
    BY DEF WriteRecord, Goto, history
  <1> HIDE DEF d
  <1>4. Moves(p, d)
    BY <1>1, <1>2, <1>3 DEF Moves, At
  <1>5. /\ proc'[p] = d /\ \A q \in Procs \ {p} : proc'[q] = proc[q]
        /\ proc' \in [Procs -> ProcRecord] /\ r \in Runs /\ c.entry \in Written
        /\ loose' \subseteq Runs /\ loose \subseteq loose'
        /\ \A q \in Procs : At(q, "idle")' <=> proc'[q].run = None
        /\ ~patchy' => ~patchy /\ \A q \in Procs \ {p} : At(q, "idle")
        /\ r \notin loose => \A q \in Procs \ {p} : proc[q].run # r
        /\ OneWorker' /\ OneProcess'
    BY <1>2, <1>4, MovesFacts
  <1>6. Mirrored(c.entry) \in Records
    BY <1>5 DEF Records
  <1>7. /\ mirror'[r] = Mirrored(c.entry) /\ \A s \in Runs \ {r} : mirror'[s] = mirror[s]
        /\ mirror' \in [Runs -> Records \cup {None}]
    BY <1>1, <1>3, <1>5, <1>6 DEF TypeOK
  <1>8. TypeOK'
    BY <1>1, <1>3, <1>5, <1>7 DEF TypeOK
  <1>9. NeverAhead'
    <2>1. c.entry \in said[r]
      BY <1>1 DEF MirrorInv, NeverAhead, Mirroring
    <2>2. ASSUME NEW q \in Procs, Mirroring(q)' PROVE (proc[q].entry \in said[proc[q].run])'
      <3>1. Mirroring(q) /\ proc'[q].run = proc[q].run /\ proc'[q].entry = proc[q].entry
        BY <1>1, <1>2, <1>5, <2>2 DEF Mirroring
      <3> QED BY <1>3, <3>1 DEF MirrorInv, NeverAhead
    <2>3. ASSUME NEW s \in Runs, mirror'[s] # None
          PROVE  \E x \in said'[s] : mirror'[s] = Mirrored(x)
      <3>1. CASE s = r
        BY <1>3, <1>7, <2>1, <3>1
      <3>2. CASE s # r
        BY <1>3, <1>7, <2>3, <3>2 DEF MirrorInv, NeverAhead, MirrorNeverAhead
      <3> QED BY <3>1, <3>2
    <2>4. \A s \in Runs : ledger'[s] # None => ledger'[s] \in said'[s]
      BY <1>3 DEF MirrorInv, NeverAhead
    <2> QED BY <2>2, <2>3, <2>4 DEF NeverAhead, MirrorNeverAhead
  <1>10. Followed'
    <2> SUFFICES ASSUME NEW q \in Procs, proc'[q].run \notin loose' PROVE Follows(q)'
      BY DEF Followed
    <2>1. CASE q = p
      BY <1>1, <1>2, <1>3, <1>5, <1>7, <2>1 DEF MirrorInv, Followed, Follows, Mirroring, At
    <2>2. CASE q # p
      <3>1. Follows(q) /\ proc'[q] = proc[q] /\ proc[q].run # r
        BY <1>3, <1>5, <2>2 DEF MirrorInv, Followed
      <3>2. Mirroring(q) \/ At(q, "engine") => proc[q].run \in Runs
        BY <1>1 DEF TypeOK, ProcRecord, Mirroring, At
      <3> QED BY <1>3, <1>7, <3>1, <3>2 DEF Follows, Mirroring, At
    <2> QED BY <2>1, <2>2
  <1>11. Indexed'
    BY <1>2, <1>3, <1>5 DEF Indexed, Indexes, At
  <1>12. ASSUME NEW s \in Runs, Settles(s)' PROVE s # r
    BY <1>2, <1>5, <1>12 DEF Settles, Working
  <1>13. MirrorFollowsLedger' /\ IndexIsComplete'
    BY <1>2, <1>3, <1>4, <1>7, <1>12, OthersSettle DEF MirrorInv, MirrorFollowsLedger, IndexIsComplete
  <1> QED BY <1>5, <1>8, <1>9, <1>10, <1>11, <1>13 DEF MirrorInv

LEMMA WriteIndexKeeps ==
    ASSUME MirrorInv, NEW p \in Procs, WriteIndex(p)
    PROVE  MirrorInv'
  <1> DEFINE c == proc[p]
             r == c.run
             on == [c EXCEPT !.pc = "engine", !.copy = Idle.copy]
  <1>1. /\ c \in ProcRecord /\ c.pc = "reindex" /\ patchy \in BOOLEAN /\ c.run # None /\ TypeOK
    BY DEF MirrorInv, TypeOK, WriteIndex, At
  <1>2. /\ on \in ProcRecord /\ on.pc = "engine" /\ on.run = r /\ on.entry = c.entry
    BY <1>1, IdleIsTyped DEF ProcRecord
  <1>3. /\ index' = [c.copy EXCEPT ![r] = Entry(c.entry)]
        /\ proc' = [proc EXCEPT ![p] = on] \/ proc' = [proc EXCEPT ![p] = Idle]
        /\ UNCHANGED <<writes, ledger, mirror, said, loose, patchy>>
    BY DEF WriteIndex, Replaced, history
  <1> HIDE DEF on
  <1>4. PICK d \in ProcRecord :
          /\ proc' = [proc EXCEPT ![p] = d]
          /\ \/ d.pc = "engine" /\ d.run = r /\ d.entry = c.entry
             \/ d.pc = "idle" /\ d.run = None
    BY <1>2, <1>3, IdleIsTyped
  <1>5. Moves(p, d)
    BY <1>1, <1>3, <1>4 DEF Moves, At
  <1>6. /\ proc'[p] = d /\ \A q \in Procs \ {p} : proc'[q] = proc[q]
        /\ proc' \in [Procs -> ProcRecord] /\ r \in Runs /\ c.entry \in Written
        /\ \A q \in Procs : At(q, "idle")' <=> proc'[q].run = None
        /\ ~patchy' => ~patchy /\ \A q \in Procs \ {p} : At(q, "idle")
        /\ OneWorker' /\ OneProcess'
    BY <1>4, <1>5, MovesFacts
  <1>7. Entry(c.entry) \in Entries
    BY <1>6 DEF Entries
  <1>8. /\ index'[r] = Entry(c.entry)
        /\ ~patchy => \A s \in Runs \ {r} : index'[s] = index[s]
        /\ index' \in [Runs -> Entries \cup {None}]
    <2>1. c.copy \in [Runs -> Entries \cup {None}]
      BY <1>1 DEF ProcRecord
    <2>2. ~patchy => c.copy = index
      BY <1>1 DEF MirrorInv, Indexed, Indexes, At
    <2> QED BY <1>3, <1>6, <1>7, <2>1, <2>2
  <1>9. TypeOK'
    BY <1>1, <1>3, <1>6, <1>8 DEF TypeOK
  <1>10. NeverAhead'
    BY <1>3, <1>4, <1>5, NeverAheadKept
  <1>11. r \notin loose => ledger[r] = c.entry /\ mirror[r] = Mirrored(c.entry)
    BY <1>1 DEF MirrorInv, Followed, Follows, Mirroring
  <1>12. Followed'
    <2> SUFFICES ASSUME NEW q \in Procs, proc'[q].run \notin loose' PROVE Follows(q)'
      BY DEF Followed
    <2>1. CASE q = p
      BY <1>3, <1>4, <1>6, <1>11, <2>1 DEF Follows, Mirroring, At
    <2>2. CASE q # p
      <3>1. Follows(q) /\ proc'[q] = proc[q]
        BY <1>3, <1>6, <2>2 DEF MirrorInv, Followed
      <3> QED BY <1>3, <3>1 DEF Follows, Mirroring, At
    <2> QED BY <2>1, <2>2
  <1>13. Indexed'
    <2> SUFFICES ASSUME ~patchy', NEW q \in Procs PROVE Indexes(q)'
      BY DEF Indexed
    <2>1. CASE q = p
      BY <1>4, <1>6, <1>8, <2>1 DEF Indexes, At
    <2>2. CASE q # p
      BY <1>6, <2>2 DEF Indexes, At
    <2> QED BY <2>1, <2>2
  <1>14. ASSUME NEW s \in Runs, Settles(s)'
         PROVE  mirror[s] = Mirrored(ledger[s]) /\ (~patchy => index'[s] = Entry(ledger[s]))
    <2>1. CASE s # r
      BY <1>3, <1>5, <1>8, <1>14, <2>1, OthersSettle
      DEF MirrorInv, MirrorFollowsLedger, IndexIsComplete
    <2>2. CASE s = r
      <3>1. r \notin loose
        BY <1>3, <1>14, <2>2 DEF Settles
      <3> QED BY <1>8, <1>11, <2>2, <3>1
    <2> QED BY <2>1, <2>2
  <1>15. MirrorFollowsLedger' /\ IndexIsComplete'
    BY <1>3, <1>14 DEF MirrorFollowsLedger, IndexIsComplete
  <1> QED BY <1>6, <1>9, <1>10, <1>12, <1>13, <1>15 DEF MirrorInv

\* A process dies while it writes the index, and leaves an empty one.
LEMMA TearKeeps ==
    ASSUME MirrorInv, NEW p \in Procs, ~At(p, "idle"), proc' = [proc EXCEPT ![p] = Idle],
           loose' = loose \cup {proc[p].run}, index' = [r \in Runs |-> None], patchy' = TRUE,
           UNCHANGED <<writes, ledger, mirror, said>>
    PROVE  MirrorInv'
  <1>1. Moves(p, Idle) /\ TypeOK
    BY IdleIsTyped DEF Moves, MirrorInv, TypeOK
  <1>2. /\ proc'[p] = Idle /\ \A q \in Procs \ {p} : proc'[q] = proc[q]
        /\ proc' \in [Procs -> ProcRecord] /\ loose' \subseteq Runs
        /\ \A q \in Procs : At(q, "idle")' <=> proc'[q].run = None
        /\ OneWorker' /\ OneProcess'
    BY <1>1, IdleIsTyped, MovesFacts
  <1>3. TypeOK'
    BY <1>1, <1>2 DEF TypeOK
  <1>4. NeverAhead'
    BY <1>1, IdleIsTyped, NeverAheadKept
  <1>5. Followed'
    BY <1>2, IdleIsTyped DEF MirrorInv, Followed, Follows, Mirroring, At
  <1>6. Indexed' /\ IndexIsComplete'
    BY DEF Indexed, IndexIsComplete
  <1>7. ASSUME NEW s \in Runs, Settles(s)' PROVE mirror[s] = Mirrored(ledger[s])
    <2>1. s # proc[p].run
      BY <1>7 DEF Settles
    <2> QED BY <1>1, <1>7, <2>1, IdleIsTyped, OthersSettle DEF MirrorInv, MirrorFollowsLedger
  <1>8. MirrorFollowsLedger'
    BY <1>7 DEF MirrorFollowsLedger
  <1> QED BY <1>2, <1>3, <1>4, <1>5, <1>6, <1>8 DEF MirrorInv

LEMMA CrashKeeps ==
    ASSUME MirrorInv, NEW p \in Procs, Crash(p)
    PROVE  MirrorInv'
  <1>1. CASE UNCHANGED <<index, patchy>>
    BY <1>1, EndKeeps DEF Crash, files
  <1>2. CASE index' = [r \in Runs |-> None] /\ patchy' = TRUE
    BY <1>2, TearKeeps DEF Crash
  <1> QED BY <1>1, <1>2 DEF Crash

LEMMA ThrowKeeps ==
    ASSUME MirrorInv, NEW p \in Procs, Throw(p)
    PROVE  MirrorInv'
  <1>1. ~At(p, "idle")
    BY DEF Throw, At
  <1> QED BY <1>1, EndKeeps DEF Throw, history

LEMMA StutterKeeps ==
    ASSUME MirrorInv, UNCHANGED vars
    PROVE  MirrorInv'
  <1>1. UNCHANGED <<writes, ledger, mirror, index, proc, said, loose, patchy>>
    BY DEF vars
  <1>2. TypeOK' /\ OneWorker' /\ OneProcess' /\ Indexed'
    BY <1>1 DEF MirrorInv, TypeOK, OneWorker, OneProcess, Indexed, Indexes, At
  <1>3. NeverAhead' /\ Followed'
    BY <1>1 DEF MirrorInv, NeverAhead, Followed, Mirroring, Follows, MirrorNeverAhead, At
  <1>4. MirrorFollowsLedger' /\ IndexIsComplete'
    BY <1>1 DEF MirrorInv, MirrorFollowsLedger, IndexIsComplete, Settles, Working
  <1> QED BY <1>2, <1>3, <1>4 DEF MirrorInv

LEMMA NextKeeps == MirrorInv /\ [Next]_vars => MirrorInv'
  <1> SUFFICES ASSUME MirrorInv, [Next]_vars PROVE MirrorInv'
    OBVIOUS
  <1>1. ASSUME NEW p \in Procs, Start(p) PROVE MirrorInv'
    BY <1>1, StartsKeep
  <1>2. ASSUME NEW p \in Procs, Continue(p) PROVE MirrorInv'
    BY <1>2, WriteManifestKeeps, WriteRecordKeeps, ReadIndexKeeps, WriteIndexKeeps, EngineKeeps,
       ThrowKeeps DEF Continue
  <1>3. ASSUME NEW p \in Procs, Crash(p) PROVE MirrorInv'
    BY <1>3, CrashKeeps
  <1> QED BY <1>1, <1>2, <1>3, StutterKeeps DEF Next

LEMMA InitOK == Init => MirrorInv
  <1> SUFFICES ASSUME Init PROVE MirrorInv
    OBVIOUS
  <1>1. \A p \in Procs : proc[p] = Idle /\ At(p, "idle") /\ proc[p].run = None
    <2>1. \A p \in Procs : proc[p] = Idle
      BY DEF Init
    <2> QED BY <2>1, IdleIsTyped DEF At
  <1>2. TypeOK
    <2>1. proc \in [Procs -> ProcRecord]
      <3>1. proc = [p \in Procs |-> Idle]
        BY DEF Init
      <3> QED BY <3>1, IdleIsTyped
    <2>2. writes \in 0..MaxWrites
      <3>1. writes = 0
        BY DEF Init
      <3> QED BY <3>1, MirrorAssumption
    <2>3. /\ ledger \in [Runs -> Written \cup {None}]
          /\ mirror \in [Runs -> Records \cup {None}] /\ index \in [Runs -> Entries \cup {None}]
          /\ said \in [Runs -> SUBSET Written]
      BY DEF Init
    <2>4. loose \subseteq Runs /\ patchy \in BOOLEAN
      BY DEF Init
    <2> QED BY <1>1, <2>1, <2>2, <2>3, <2>4 DEF TypeOK
  <1>3. NeverAhead
    BY <1>1 DEF Init, NeverAhead, Mirroring, MirrorNeverAhead, At
  <1>4. OneWorker /\ OneProcess
    BY <1>1, MirrorAssumption DEF OneWorker, OneProcess
  <1>5. Followed /\ Indexed
    BY <1>1 DEF Followed, Follows, Indexed, Indexes, Mirroring, At
  <1>6. MirrorFollowsLedger /\ IndexIsComplete
    BY DEF Init, MirrorFollowsLedger, IndexIsComplete, Settles
  <1> QED BY <1>2, <1>3, <1>4, <1>5, <1>6 DEF MirrorInv

\* What ties the three files to each other and to the processes that write them:
\* how far the only process at work on a run has got says which of them agree,
\* and the copy of the index that the only process at work has read is still the index.
THEOREM MirrorInvariant == Spec => []MirrorInv
  BY InitOK, NextKeeps, PTL DEF Spec

\* A mirror record says what the manifest of its run has said before it, with the time
\* it said it at, whatever processes overtake each other or die in between, and whatever
\* times the clock gives them: it is true of every manifest a process holds after it has
\* written it, and nothing else is mirrored.
THEOREM MirrorIsNeverAhead == Spec => []MirrorNeverAhead
  <1>1. MirrorInv => MirrorNeverAhead
    BY DEF MirrorInv, NeverAhead
  <1> QED BY <1>1, MirrorInvariant, PTL

\* No mirror record says that its run waits without naming the step it waits for.
WaitingNamesAStep ==
    \A r \in Runs :
      mirror[r] # None /\ mirror[r].record.mirrored = "waiting" =>
        mirror[r].record.waitingOn \in Steps

\* Whoever wrote it, and however old it is: because every manifest that a command
\* writes has a step that awaits approval if the run does, and buildTaskflowMirrorRecord
\* finds it.
THEOREM MirroredWaitsNameAStep == Spec => []WaitingNamesAStep
  <1>1. MirrorInv => WaitingNamesAStep
    <2> SUFFICES ASSUME MirrorInv, NEW r \in Runs, mirror[r] # None,
                        mirror[r].record.mirrored = "waiting"
                 PROVE  mirror[r].record.waitingOn \in Steps
      BY DEF WaitingNamesAStep
    <2>1. PICK e \in Written : mirror[r] = Mirrored(e)
      BY DEF MirrorInv, TypeOK, Records
    <2>2. e.manifest \in Manifest /\ Waits(e.manifest) /\ mirror[r].record = RecordOf(e.manifest)
      BY <2>1 DEF Written, Fit, Mirrored
    <2> QED BY <2>2, WaitingIsNamed
  <1> QED BY <1>1, MirrorInvariant, PTL

\* The record of a run at rest says what its manifest says, if the last command on
\* the run was neither overlapped nor killed nor mirrored elsewhere.
THEOREM MirrorsFollow == Spec => []MirrorFollowsLedger
  <1>1. MirrorInv => MirrorFollowsLedger
    BY DEF MirrorInv
  <1> QED BY <1>1, MirrorInvariant, PTL

\* As long as no two processes have been at work at once and none has died writing
\* the index, it has the state of every run at rest.
THEOREM IndexesAreComplete == Spec => []IndexIsComplete
  <1>1. MirrorInv => IndexIsComplete
    BY DEF MirrorInv
  <1> QED BY <1>1, MirrorInvariant, PTL
=============================================================================
