---------------------------- MODULE TaskflowMirror ----------------------------
(***************************************************************************)
(* The TaskFlow mirror: after each manifest a command writes the mirror    *)
(* record of that run and then rewrites the index of all mirrored runs.    *)
(* The three files are written one after the other, and the index is read, *)
(* changed and written by every process for every run.                     *)
(***************************************************************************)
EXTENDS RunLife

CONSTANTS
    Runs,         \* run ids
    Procs,        \* processes that run ToolFlow commands
    Commands,     \* the commands they are given
    SharedRoot,   \* whether the configured mirror root is the default one
    Times,        \* what nowIso may say
    MaxWrites     \* bound: manifests written

Stamped == [manifest : Manifest, at : Times]

ASSUME MirrorAssumption ==
    /\ Commands \subseteq {"resume", "approve", "cancel", "recover", "sync"}
    /\ SharedRoot \in BOOLEAN
    /\ Times # {}
    /\ MaxWrites \in Nat
    /\ None \notin Runs
    /\ None \notin Stamped

VARIABLES
    writes,   \* manifests written so far
    ledger,   \* run |-> its manifest.json with the updatedAt in it
    mirror,   \* run |-> its record under the configured mirror root
    index,    \* run |-> its entry in index.json, which is sorted by updatedAt
    proc,     \* process |-> program counter and local variables
    said,     \* history: run |-> all that its manifest.json has ever said
    loose,    \* history: the runs of which the last command was overlapped, was
              \* killed, or mirrored elsewhere
    patchy    \* history: whether two processes have been at work at once, or one
              \* died while it wrote the index

vars == <<writes, ledger, mirror, index, proc, said, loose, patchy>>

files == <<writes, ledger, mirror, index, said>>
history == <<loose, patchy>>

Mirrored(e) == [record |-> RecordOf(e.manifest), at |-> e.at]

Entry(e) == [runState |-> e.manifest.state, mirrored |-> MapRunState(e.manifest.state),
             at |-> e.at]

\* "entry" is the manifest a process writes, with its updatedAt once it is written.
Idle == [pc |-> "idle", task |-> None, run |-> None,
         entry |-> [manifest |-> NewManifest("ready"), at |-> CHOOSE at \in Times : TRUE],
         copy |-> [r \in Runs |-> None]]

Init ==
    /\ writes = 0
    /\ ledger = [r \in Runs |-> None]
    /\ mirror = [r \in Runs |-> None]
    /\ index = [r \in Runs |-> None]
    /\ proc = [p \in Procs |-> Idle]
    /\ said = [r \in Runs |-> {}]
    /\ loose = {}
    /\ patchy = FALSE

-----------------------------------------------------------------------------
At(p, pc) == proc[p].pc = pc

Goto(p, pc) == proc' = [proc EXCEPT ![p].pc = pc]

\* p is about to write manifest m of run r.
Writes(p, task, r, m) ==
    proc' = [proc EXCEPT ![p] = [Idle EXCEPT !.pc = "manifest", !.task = task, !.run = r,
                                             !.entry.manifest = m]]

Working(r) == \E p \in Procs : proc[p].run = r

\* A command starts on r.
Started(r) ==
    /\ loose' = IF Working(r) THEN loose \cup {r} ELSE loose \ {r}
    /\ patchy' = (patchy \/ \E p \in Procs : ~At(p, "idle"))

\* prepareRun; runWorkflow goes on with resumeWorkflow.
Prepare(p) ==
    /\ At(p, "idle")
    /\ \E r \in Runs, verdict \in {"ready"} \cup (IF Elevated = {} THEN {} ELSE {"rejected"}) :
         /\ ledger[r] = None
         /\ ~Working(r)
         /\ Writes(p, "prepare", r, NewManifest(verdict))
         /\ Started(r)
    /\ UNCHANGED files

Found(r) == ledger[r].manifest

Filed == {r \in Runs : ledger[r] # None}

\* A command reads the manifest of a run and is about to write one that follows
\* from it: "next" has those manifests for every run it accepts.
Command(p, task, next) ==
    /\ task \in Commands
    /\ At(p, "idle")
    /\ \E r \in DOMAIN next :
         /\ \E m \in next[r] : Writes(p, task, r, m)
         /\ Started(r)
    /\ UNCHANGED files

\* The resume of a running run is a recover and then a resume.
StartResume(p) ==
    LET accepted == {r \in Filed : Resumable(Found(r)) /\ Found(r).state # "running"}
    IN  Command(p, "resume", [r \in accepted |-> EngineMoves(Found(r))])

StartApprove(p) ==
    Command(p, "approve", [r \in Filed |-> {Approved(Found(r), s) : s \in Elevated}])

StartCancel(p) ==
    LET accepted == {r \in Filed : Cancellable(Found(r))}
    IN  Command(p, "cancel", [r \in accepted |-> {Cancelled(Found(r))}])

StartRecover(p) == Command(p, "recover", [r \in Filed |-> Recoveries(Found(r))])

\* syncTaskflowMirrorFromLedger
StartSync(p) ==
    /\ "sync" \in Commands
    /\ At(p, "idle")
    /\ \E r \in Runs :
         /\ ledger[r] # None
         /\ proc' = [proc EXCEPT ![p] = [Idle EXCEPT !.pc = "record", !.task = "sync", !.run = r,
                                                     !.entry = ledger[r]]]
         /\ Started(r)
    /\ UNCHANGED files

-----------------------------------------------------------------------------
\* recoverRun calls syncTaskflowMirror without the configuration it was given.
MirrorsElsewhere(task) == task = "recover" /\ ~SharedRoot

\* persistManifest: writeManifest sets updatedAt to what the wall clock says in
\* milliseconds, and writes the file after that. Two writes of a run may carry the same
\* time, and the later of two processes that overlap the earlier time; so any time will do.
WriteManifest(p) ==
    /\ At(p, "manifest")
    /\ writes < MaxWrites
    /\ writes' = writes + 1
    /\ \E at \in Times :
         LET e == [proc[p].entry EXCEPT !.at = at]
         IN  /\ ledger' = [ledger EXCEPT ![proc[p].run] = e]
             /\ said' = [said EXCEPT ![proc[p].run] = @ \cup {e}]
             /\ IF MirrorsElsewhere(proc[p].task)
                THEN /\ proc' = [proc EXCEPT ![p] = Idle]
                     /\ loose' = loose \cup {proc[p].run}
                ELSE /\ proc' = [proc EXCEPT ![p] = [@ EXCEPT !.pc = "record", !.entry = e]]
                     /\ UNCHANGED loose
    /\ UNCHANGED <<mirror, index, patchy>>

\* Mutant: the record is written only for a run that is not in the index yet.
WriteRecordOnce(p) ==
    /\ At(p, "record")
    /\ mirror' = [mirror EXCEPT ![proc[p].run] = IF @ = None THEN Mirrored(proc[p].entry) ELSE @]
    /\ Goto(p, "index")
    /\ UNCHANGED <<writes, ledger, index, said, history>>

\* Mutant: the record is stamped with the time at which it is written.
WriteRecordStampedNow(p) ==
    /\ At(p, "record")
    /\ \E at \in Times :
         mirror' = [mirror EXCEPT ![proc[p].run] = [Mirrored(proc[p].entry) EXCEPT !.at = at]]
    /\ Goto(p, "index")
    /\ UNCHANGED <<writes, ledger, index, said, history>>

\* syncTaskflowMirror
WriteRecord(p) ==
    /\ At(p, "record")
    /\ mirror' = [mirror EXCEPT ![proc[p].run] = Mirrored(proc[p].entry)]
    /\ Goto(p, "index")
    /\ UNCHANGED <<writes, ledger, index, said, history>>

ReadIndex(p) ==
    /\ At(p, "index")
    /\ proc' = [proc EXCEPT ![p] = [@ EXCEPT !.pc = "reindex", !.copy = index]]
    /\ UNCHANGED <<files, history>>

\* Mutant: the old entry of the run is kept, if it has one.
ReplacedIfNew(copy, r, e) == [copy EXCEPT ![r] = IF @ = None THEN Entry(e) ELSE @]

\* The run's entry is taken out of the index and a new one put in.
Replaced(copy, r, e) == [copy EXCEPT ![r] = Entry(e)]

\* The loop of resumeWorkflow goes on; every other command is done.
WriteIndex(p) ==
    LET r == proc[p]
    IN  /\ At(p, "reindex")
        /\ index' = Replaced(r.copy, r.run, r.entry)
        /\ IF r.task = "resume" /\ ~Returned(r.entry.manifest)
           THEN proc' = [proc EXCEPT ![p] = [@ EXCEPT !.pc = "engine", !.copy = Idle.copy]]
           ELSE proc' = [proc EXCEPT ![p] = Idle]
        /\ UNCHANGED <<writes, ledger, mirror, said, history>>

Engine(p) ==
    /\ At(p, "engine")
    /\ \E m \in EngineMoves(proc[p].entry.manifest) : Writes(p, "resume", proc[p].run, m)
    /\ UNCHANGED <<files, history>>

\* A check or a handler throws, and the loop ends where it is.
Throw(p) ==
    /\ At(p, "engine")
    /\ StepsIn(proc[p].entry.manifest, {"running"}) # {}
    /\ proc' = [proc EXCEPT ![p] = Idle]
    /\ UNCHANGED <<files, history>>

\* A process that dies while it writes the index leaves one that readMirrorIndex
\* cannot parse, and takes for an empty one (bound: only a complete index is torn).
Crash(p) ==
    /\ ~At(p, "idle")
    /\ proc' = [proc EXCEPT ![p] = Idle]
    /\ loose' = loose \cup {proc[p].run}
    /\ \/ UNCHANGED <<index, patchy>>
       \/ /\ At(p, "reindex")
          /\ ~patchy
          /\ index' = [r \in Runs |-> None]
          /\ patchy' = TRUE
    /\ UNCHANGED <<writes, ledger, mirror, said>>

Start(p) ==
    \/ Prepare(p) \/ StartResume(p) \/ StartApprove(p) \/ StartCancel(p) \/ StartRecover(p)
    \/ StartSync(p)

Continue(p) ==
    WriteManifest(p) \/ WriteRecord(p) \/ ReadIndex(p) \/ WriteIndex(p) \/ Engine(p) \/ Throw(p)

Next == \E p \in Procs : Start(p) \/ Continue(p) \/ Crash(p)

Spec == Init /\ [][Next]_vars

-----------------------------------------------------------------------------
\* The mirror never says of a run what its ledger has not said before, at the time the
\* mirror gives for it, whoever writes, overtakes or dies in between. Which of two
\* manifests is the older is more than their times can tell.
MirrorNeverAhead ==
    \A r \in Runs : mirror[r] # None => \E e \in said[r] : mirror[r] = Mirrored(e)

\* A run that nobody works on and of which the last command was not disturbed.
Settles(r) == ledger[r] # None /\ ~Working(r) /\ r \notin loose

\* The record of a run at rest says what its manifest says, whatever lagged
\* behind before: a command that is not disturbed leaves nothing behind.
MirrorFollowsLedger == \A r \in Runs : Settles(r) => mirror[r] = Mirrored(ledger[r])

\* Unless two processes have been at work at once, which makes them overwrite
\* each other's index, or one died writing it, the index has the state of every
\* run at rest.
IndexIsComplete == \A r \in Runs : Settles(r) /\ ~patchy => index[r] = Entry(ledger[r])
=============================================================================
